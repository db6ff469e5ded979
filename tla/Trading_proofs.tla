--------------------------- MODULE Trading_proofs ---------------------------
(***************************************************************************)
(* What the services promise together, for any number of variants, keys,   *)
(* documents and adjustments.  Each service keeps its inductive invariant  *)
(* when another moves the stock, and its own steps move the stock by what  *)
(* they add to its documents; so the balance stays the sum of the shares.  *)
(***************************************************************************)
EXTENDS Trading, FiniteSetTheorems, SequenceTheorems, SumTheorems, TLAPS

SP == INSTANCE Sales_proofs WITH Carts <- SaleCarts, Baskets <- SaleBaskets,
        Opening <- [v \in Variants |-> 0]
PP == INSTANCE Purchases_proofs WITH Carts <- BillCarts, Baskets <- BillBaskets,
        returns <- billReturns, payments <- supplierPayments

----------------------------------------------------------------------------
\* S and SP, and P and PP, are the same services: Trading composes the
\* specifications, and the proofs need the lemmas about them as well.  Equal
\* definitions are recognized as such when they are expanded on both sides.
\* The initial states of sales are the same.
LEMMA SameInit ==
  S!Init <=> SP!Init
BY DEF S!Init, SP!Init

\* So is the opening of a session,
LEMMA SameOpen ==
  ASSUME NEW key, NEW r
  PROVE  S!OpenSession(key, r) <=> SP!OpenSession(key, r)
BY DEF S!OpenSession, SP!OpenSession

\* the posting of an invoice,
LEMMA SamePost ==
  ASSUME NEW key, NEW req
  PROVE  S!PostInvoice(key, req) <=> SP!PostInvoice(key, req)
BY DEF S!PostInvoice, SP!PostInvoice, S!CartTotal, SP!CartTotal, S!Tendered,
       SP!Tendered, S!InvoiceKeyUsed, SP!InvoiceKeyUsed, S!StockSuffices,
       SP!StockSuffices, S!LinesValid, SP!LinesValid, S!CreditAllows,
       SP!CreditAllows, S!Issued, SP!Issued, S!CASH, SP!CASH, S!SumOver,
       SP!SumOver, S!LineTotals, SP!LineTotals, S!SumFunction, SP!SumFunction,
       S!SumFunctionOnSet, SP!SumFunctionOnSet, S!FoldFunctionOnSet,
       SP!FoldFunctionOnSet, S!MapThenFoldSet, SP!MapThenFoldSet, S!Ledger!Rows,
       SP!Ledger!Rows

\* what came back of a line,
LEMMA SameReturned ==
  ASSUME NEW n, NEW v
  PROVE  S!ReturnedQuantity(n, v) = SP!ReturnedQuantity(n, v)
BY DEF S!ReturnedQuantity, SP!ReturnedQuantity, S!Prior, SP!Prior, S!SumOver,
       SP!SumOver, S!ReturnsOf, SP!ReturnsOf, S!SumFunction, SP!SumFunction,
       S!SumFunctionOnSet, SP!SumFunctionOnSet, S!FoldFunctionOnSet,
       SP!FoldFunctionOnSet, S!MapThenFoldSet, SP!MapThenFoldSet

\* what is left of it,
LEMMA SameRemaining ==
  ASSUME NEW n, NEW v
  PROVE  S!Remaining(n, v) = SP!Remaining(n, v)
BY SMTT(60), SameReturned DEF S!Remaining, SP!Remaining, S!Sold, SP!Sold

\* a return or a cancellation,
LEMMA SameRecord ==
  ASSUME NEW key, NEW n, NEW quantity, NEW details, NEW cancel
  PROVE  S!RecordReturn(key, n, quantity, details, cancel)
         <=> SP!RecordReturn(key, n, quantity, details, cancel)
BY ZenonT(60) DEF S!RecordReturn, SP!RecordReturn, S!ReturnItems, SP!ReturnItems,
       S!SumOver, SP!SumOver, S!Completes, SP!Completes, S!Remaining,
       SP!Remaining, S!ItemsValid, SP!ItemsValid, S!ReturnValid, SP!ReturnValid,
       S!RefundPayable, SP!RefundPayable, S!ReturnedGoods, SP!ReturnedGoods,
       S!FromDrawer, SP!FromDrawer, S!NextOutstanding, SP!NextOutstanding,
       S!Portion, SP!Portion, S!LineTotals, SP!LineTotals, S!Sold, SP!Sold,
       S!ReturnedQuantity, SP!ReturnedQuantity, S!CASH, SP!CASH, S!Prior,
       SP!Prior, S!ReturnsOf, SP!ReturnsOf, S!HalfUp, SP!HalfUp, S!Least,
       SP!Least, S!Positive, SP!Positive, S!Share, SP!Share, S!SumFunction,
       SP!SumFunction, S!SumFunctionOnSet, SP!SumFunctionOnSet,
       S!FoldFunctionOnSet, SP!FoldFunctionOnSet, S!MapThenFoldSet,
       SP!MapThenFoldSet, S!Ledger!Rows, SP!Ledger!Rows

\* and with them every step of sales.
LEMMA SameSales ==
  S!Next <=> SP!Next
<1>1. ASSUME NEW key, NEW n, NEW quantity, NEW details
      PROVE  S!CreateReturn(key, n, quantity, details)
               <=> SP!CreateReturn(key, n, quantity, details)
  BY SameRecord DEF S!CreateReturn, SP!CreateReturn, S!ReturnKeyUsed,
     SP!ReturnKeyUsed, S!Sold, SP!Sold
<1>2. ASSUME NEW key, NEW n, NEW details
      PROVE  S!CancelInvoice(key, n, details) <=> SP!CancelInvoice(key, n, details)
  <2>1. [v \in Variants |-> S!Remaining(n, v)] = [v \in Variants |-> SP!Remaining(n, v)]
    BY SameRemaining
  <2> QED
    BY <2>1, SameRecord DEF S!CancelInvoice, SP!CancelInvoice, S!ReturnKeyUsed,
       SP!ReturnKeyUsed
<1>3. S!SaleRequests = SP!SaleRequests /\ S!RefundDetails = SP!RefundDetails
  BY SMTT(60) DEF S!SaleRequests, SP!SaleRequests, S!RefundDetails, SP!RefundDetails
<1> QED
  BY <1>1, <1>2, <1>3, SameOpen, SamePost DEF S!Next, SP!Next

\* The operations on bills are the same,
LEMMA SamePurchases ==
  P!Operations <=> PP!Operations
BY DEF P!Operations, PP!Operations, P!CreateDraft, PP!CreateDraft, P!PostBill,
       PP!PostBill, P!CancelBill, PP!CancelBill, P!CreateReturn,
       PP!CreateReturn, P!PaySupplier, PP!PaySupplier, P!ReferenceFree,
       PP!ReferenceFree, P!CartTotal, PP!CartTotal, P!PostingKeyUsed,
       PP!PostingKeyUsed, P!PostMovements, PP!PostMovements, P!Goods, PP!Goods,
       P!CancelKeyUsed, PP!CancelKeyUsed, P!HasDependants, PP!HasDependants,
       P!ReceiptsFound, PP!ReceiptsFound, P!StockSuffices, PP!StockSuffices,
       P!Minus, PP!Minus, P!Bought, PP!Bought, P!ReturnedAmount,
       PP!ReturnedAmount, P!ReturnedQuantity, PP!ReturnedQuantity, P!SumOver,
       PP!SumOver, P!Completes, PP!Completes, P!PriorRoundOff, PP!PriorRoundOff,
       P!AppliedToPayable, PP!AppliedToPayable, P!ReturnKeyUsed,
       PP!ReturnKeyUsed, P!Remaining, PP!Remaining, P!RowsValid, PP!RowsValid,
       P!PaymentKeyUsed, PP!PaymentKeyUsed, P!Allocated, PP!Allocated,
       P!AllocationAllowed, PP!AllocationAllowed, P!ReturnsOf, PP!ReturnsOf,
       P!HalfUp, PP!HalfUp, P!Least, PP!Least, P!Share, PP!Share, P!SumFunction,
       PP!SumFunction, P!SumFunctionOnSet, PP!SumFunctionOnSet,
       P!FoldFunctionOnSet, PP!FoldFunctionOnSet, P!MapThenFoldSet,
       PP!MapThenFoldSet, P!Ledger!Rows, PP!Ledger!Rows

\* and so is what went back of a line of a bill,
LEMMA SameSentBack ==
  ASSUME NEW n, NEW v
  PROVE  P!ReturnedQuantity(n, v) = PP!ReturnedQuantity(n, v)
BY DEF P!ReturnedQuantity, PP!ReturnedQuantity, P!SumOver, PP!SumOver,
       P!ReturnsOf, PP!ReturnsOf, P!SumFunction, PP!SumFunction,
       P!SumFunctionOnSet, PP!SumFunctionOnSet, P!FoldFunctionOnSet,
       PP!FoldFunctionOnSet, P!MapThenFoldSet, PP!MapThenFoldSet

\* and what is left of it.
LEMMA SameLeft ==
  ASSUME NEW n, NEW v
  PROVE  P!Remaining(n, v) = PP!Remaining(n, v)
BY SameSentBack DEF P!Remaining, PP!Remaining, P!Bought, PP!Bought

\* Sums are the same everywhere.
LEMMA SameSums ==
  ASSUME NEW f
  PROVE  SP!SumFunction(f) = SumFunction(f) /\ PP!SumFunction(f) = SumFunction(f)
BY DEF SumFunction, SP!SumFunction, PP!SumFunction, SumFunctionOnSet,
       SP!SumFunctionOnSet, PP!SumFunctionOnSet, FoldFunctionOnSet,
       SP!FoldFunctionOnSet, PP!FoldFunctionOnSet, MapThenFoldSet,
       SP!MapThenFoldSet, PP!MapThenFoldSet

----------------------------------------------------------------------------
\* The constants satisfy what sales assumes of its own.
LEMMA SalesFits ==
  SP!SalesAssumption
BY TradingAssumption DEF SP!CartType, SP!CASH, IsFiniteSet, SP!IsFiniteSet

\* The same for those of purchases.
LEMMA PurchasesFit ==
  PP!PurchasesAssumption
BY TradingAssumption DEF PP!CartType, IsFiniteSet, PP!IsFiniteSet

----------------------------------------------------------------------------
\* The movements of a variant, and those of adjustments.
Posted(v) == {m \in movements : m.variant = v}
Booked(v) == SumFunction([m \in Posted(v) |-> m.quantity])
Adjustments(v) == {m \in movements : m.kind \in AdjustedKinds /\ m.variant = v}
Adjusted(v) == SumFunction([m \in Adjustments(v) |-> m.quantity])

\* Every service has its share of the balance.
Shares ==
  \A v \in Tracked :
    stock[v] = PP!OnHand(v) - SP!WithCustomers(v) + Adjusted(v)

\* The balance is the sum of the book.
BookBalances == \A v \in Tracked : stock[v] = Booked(v)

IInv ==
  /\ SP!IInv
  /\ PP!IInv
  /\ PP!Backed
  /\ IsFiniteSet(movements)
  /\ Shares
  /\ BookBalances

----------------------------------------------------------------------------
\* One document is entered in the book: as a posting of the stock ledger.
Entered(key, kind, delta) ==
  /\ key \in Keys /\ kind \in Ledger!Kinds /\ delta \in [Variants -> Int]
  /\ \A v \in Variants : stock[v] + delta[v] \in Nat
  /\ \A m \in movements : ~(m.key = key /\ m.kind = kind)
  /\ movements' = movements \cup Ledger!Rows(key, kind, delta)
  /\ stock' = [v \in Variants |-> stock[v] + delta[v]]

BookTyped ==
  /\ movements \subseteq Ledger!Movements /\ IsFiniteSet(movements)
  /\ stock \in [Variants -> Nat]

\* What a variant gets in the book is one row, unless nothing moved.
LEMMA RowsOf ==
  ASSUME BookTyped, NEW key, NEW kind, NEW delta, Entered(key, kind, delta)
  PROVE  /\ BookTyped'
         /\ \A v \in Variants :
              LET row == [key |-> key, kind |-> kind, variant |-> v,
                          quantity |-> delta[v]]
              IN  /\ row \notin movements
                  /\ Posted(v)' = IF delta[v] = 0 THEN Posted(v)
                                  ELSE Posted(v) \cup {row}
<1> DEFINE rows == Ledger!Rows(key, kind, delta)
<1>1. IsFiniteSet(rows)
  <2> DEFINE V == {v \in Variants : delta[v] # 0}
             f == [v \in V |-> [key |-> key, kind |-> kind, variant |-> v,
                                quantity |-> delta[v]]]
  <2>1. IsFiniteSet(V)
    BY TradingAssumption, FS_Subset
  <2>2. f \in Surjection(V, rows)
    BY DEF Ledger!Rows, Surjection
  <2> HIDE DEF V, f, rows
  <2> QED
    BY <2>1, <2>2, FS_Surjection
<1>2. rows \subseteq Ledger!Movements
  BY DEF Entered, Ledger!Rows, Ledger!Movements
<1>3. movements' = movements \cup rows /\ stock' \in [Variants -> Nat]
  BY DEF Entered
<1>4. BookTyped'
  <2>1. IsFiniteSet(movements \cup rows)
    BY <1>1, FS_Union DEF BookTyped
  <2> QED
    BY <1>2, <1>3, <2>1 DEF BookTyped
<1>5. ASSUME NEW v \in Variants
      PROVE  LET row == [key |-> key, kind |-> kind, variant |-> v,
                         quantity |-> delta[v]]
             IN  /\ row \notin movements
                 /\ Posted(v)' = IF delta[v] = 0 THEN Posted(v)
                                 ELSE Posted(v) \cup {row}
  <2> DEFINE row == [key |-> key, kind |-> kind, variant |-> v,
                     quantity |-> delta[v]]
  <2>1. row \notin movements
    BY DEF Entered
  <2>2. \A m \in rows : m.variant = v <=> m = row
    BY DEF Ledger!Rows
  <2>3. row \in rows <=> delta[v] # 0
    BY DEF Ledger!Rows
  <2>4. row.variant = v
    OBVIOUS
  <2> HIDE DEF row, rows
  <2> QED
    BY <1>3, <2>1, <2>2, <2>3, <2>4 DEF Posted, row
<1> QED
  BY <1>4, <1>5

\* The sums over the book are finite.
SumsTyped ==
  \A v \in Variants :
    /\ IsFiniteSet(Posted(v)) /\ IsFiniteSet(Adjustments(v))
    /\ \A m \in Posted(v) : m.quantity \in Int
    /\ Booked(v) \in Int /\ Adjusted(v) \in Int

\* A book of typed rows has them.
LEMMA SumsType ==
  BookTyped => SumsTyped
<1> SUFFICES ASSUME BookTyped, NEW v \in Variants
             PROVE  /\ IsFiniteSet(Posted(v)) /\ IsFiniteSet(Adjustments(v))
                    /\ \A m \in Posted(v) : m.quantity \in Int
                    /\ Booked(v) \in Int /\ Adjusted(v) \in Int
  BY DEF SumsTyped
<1>1. /\ Posted(v) \subseteq movements /\ Adjustments(v) \subseteq movements
      /\ \A m \in movements : m.quantity \in Int
  BY DEF Posted, Adjustments, BookTyped, Ledger!Movements
<1>2. IsFiniteSet(Posted(v)) /\ IsFiniteSet(Adjustments(v))
  BY <1>1, FS_Subset DEF BookTyped
<1>3. /\ [m \in Posted(v) |-> m.quantity] \in [Posted(v) -> Int]
      /\ [m \in Adjustments(v) |-> m.quantity] \in [Adjustments(v) -> Int]
  BY <1>1
<1>4. Booked(v) \in Int /\ Adjusted(v) \in Int
  BY <1>2, <1>3, SumType DEF Booked, Adjusted
<1> QED
  BY <1>1, <1>2, <1>4

\* A row more adds its quantity.
LEMMA QuantityAdded ==
  ASSUME NEW old, IsFiniteSet(old), \A m \in old : m.quantity \in Int,
         NEW row, row \notin old, row.quantity \in Int, NEW all, all = old \cup {row}
  PROVE  SumFunction([m \in all |-> m.quantity])
           = SumFunction([m \in old |-> m.quantity]) + row.quantity
<1> DEFINE f == [m \in old |-> m.quantity]
           g == [m \in all |-> m.quantity]
<1>1. /\ f \in [old -> Int] /\ g \in [all -> Int] /\ g[row] = row.quantity
      /\ \A m \in old : g[m] = f[m]
  OBVIOUS
<1> HIDE DEF f, g
<1>2. SumFunction(g) = SumFunction(f) + row.quantity
  BY <1>1, SumGrows
<1> QED
  BY <1>2 DEF f, g

\* The sums over the book grow by what is entered.
LEMMA BookGrows ==
  ASSUME BookTyped, NEW key, NEW kind, NEW delta, Entered(key, kind, delta),
         NEW v \in Variants
  PROVE  /\ Booked(v)' = Booked(v) + delta[v]
         /\ Adjusted(v)' = Adjusted(v)
              + (IF kind \in AdjustedKinds THEN delta[v] ELSE 0)
<1> DEFINE row == [key |-> key, kind |-> kind, variant |-> v,
                   quantity |-> delta[v]]
<1>1. /\ row \notin movements
      /\ Posted(v)' = IF delta[v] = 0 THEN Posted(v) ELSE Posted(v) \cup {row}
      /\ BookTyped'
  BY RowsOf
<1>2. /\ row.kind = kind /\ row.quantity = delta[v] /\ row.variant = v
      /\ delta[v] \in Int
  BY DEF Entered
<1>3. SumsTyped /\ SumsTyped'
  <2>1. (BookTyped => SumsTyped)'
    BY SumsType, PTL
  <2> QED
    BY <1>1, <2>1, SumsType
<1>4. /\ Posted(v) \subseteq movements
      /\ Adjustments(v) = {m \in Posted(v) : m.kind \in AdjustedKinds}
      /\ Adjustments(v)' = {m \in Posted(v)' : m.kind \in AdjustedKinds}
  BY DEF Posted, Adjustments
<1> HIDE DEF row
<1>5. Adjustments(v)' = IF delta[v] # 0 /\ kind \in AdjustedKinds
                        THEN Adjustments(v) \cup {row} ELSE Adjustments(v)
  BY <1>1, <1>2, <1>4
<1>6. row \notin Posted(v) /\ row \notin Adjustments(v)
  BY <1>1, <1>4
<1>7. /\ IsFiniteSet(Posted(v)) /\ IsFiniteSet(Adjustments(v))
      /\ Booked(v) \in Int /\ Adjusted(v) \in Int
      /\ \A m \in Posted(v) : m.quantity \in Int
      /\ \A m \in Adjustments(v) : m.quantity \in Int
  BY <1>3, <1>4 DEF SumsTyped
<1>8. Booked(v)' = Booked(v) + delta[v]
  <2>1. CASE delta[v] = 0
    BY <1>1, <1>7, <2>1 DEF Booked
  <2>2. CASE delta[v] # 0
    BY <1>1, <1>2, <1>6, <1>7, <2>2, QuantityAdded DEF Booked
  <2> QED
    BY <2>1, <2>2
<1>9. Adjusted(v)' = Adjusted(v) + (IF kind \in AdjustedKinds THEN delta[v] ELSE 0)
  <2>1. CASE delta[v] = 0 \/ kind \notin AdjustedKinds
    BY <1>5, <1>7, <2>1 DEF Adjusted
  <2>2. CASE delta[v] # 0 /\ kind \in AdjustedKinds
    BY <1>2, <1>5, <1>6, <1>7, <2>2, QuantityAdded DEF Adjusted
  <2> QED
    BY <2>1, <2>2
<1> QED
  BY <1>8, <1>9

\* What is entered is a posting of the stock ledger, if it moves anything.
LEMMA EnteredPosts ==
  ASSUME BookTyped, NEW key, NEW kind, NEW delta, Entered(key, kind, delta)
  PROVE  [Ledger!LedgerNext]_(Ledger!ledgerVars)
<1>1. CASE Ledger!Rows(key, kind, delta) = {}
  <2>1. \A v \in Variants : delta[v] = 0
    BY <1>1 DEF Ledger!Rows
  <2>2. UNCHANGED <<movements, stock>>
    BY <1>1, <2>1 DEF Entered, BookTyped
  <2> QED
    BY <2>2 DEF Ledger!ledgerVars
<1>2. CASE Ledger!Rows(key, kind, delta) # {}
  <2>1. [v \in Variants |-> stock'[v] - stock[v]] = delta
    BY DEF Entered, BookTyped
  <2>2. \A m \in Ledger!Rows(key, kind, delta) : m.key = key /\ m.kind = kind
    BY DEF Ledger!Rows
  <2>3. \A m \in Ledger!Rows(key, kind, delta), n \in movements :
          ~Ledger!SameSlot(m, n)
    BY <2>2 DEF Ledger!SameSlot, Entered
  <2>4. Ledger!Post(key, kind, delta)
    BY <1>2, <2>3 DEF Ledger!Post, Entered
  <2>5. Ledger!Post(key, kind, [v \in Variants |-> stock'[v] - stock[v]])
    BY <2>1, <2>4
  <2> QED
    BY <2>5 DEF Ledger!LedgerNext, Entered
<1> QED
  BY <1>1, <1>2

----------------------------------------------------------------------------
\* The documents of both services, and what they make of the balance.
DocumentsRight == SP!IInv /\ PP!IInv /\ PP!Backed
OfDocuments(v) == PP!OnHand(v) - SP!WithCustomers(v)

\* One document moves the stock, and what the documents make of it, by delta;
\* an adjustment is no document.
Moves(key, kind, delta) ==
  /\ Entered(key, kind, delta)
  /\ \A v \in Tracked : OfDocuments(v)' = OfDocuments(v)
       + (IF kind \in AdjustedKinds THEN 0 ELSE delta[v])
NothingMoves ==
  /\ UNCHANGED <<movements, stock>>
  /\ \A v \in Tracked : OfDocuments(v)' = OfDocuments(v)
MovesOnce ==
  NothingMoves \/ \E key \in Keys : \E kind, delta : Moves(key, kind, delta)

\* The services agree about the two tables.
LEMMA SharedTables ==
  /\ SP!Ledger!Movements = Ledger!Movements
  /\ PP!Ledger!Movements = Ledger!Movements
  /\ \A key, kind, delta :
       /\ SP!Ledger!Rows(key, kind, delta) = Ledger!Rows(key, kind, delta)
       /\ PP!Ledger!Rows(key, kind, delta) = Ledger!Rows(key, kind, delta)
BY DEF Ledger!Movements, SP!Ledger!Movements, PP!Ledger!Movements,
       Ledger!Kinds, SP!Ledger!Kinds, PP!Ledger!Kinds,
       Ledger!Rows, SP!Ledger!Rows, PP!Ledger!Rows

\* The rows of the shared tables, and the shares of tracked goods.
TablesTyped ==
  /\ movements \subseteq Ledger!Movements /\ stock \in [Variants -> Nat]
  /\ \A v \in Tracked : PP!OnHand(v) \in Int /\ SP!WithCustomers(v) \in Int

\* They follow from the invariants of the services.
LEMMA TablesType ==
  DocumentsRight => TablesTyped
<1> SUFFICES ASSUME DocumentsRight
             PROVE  TablesTyped
  OBVIOUS
<1>1. SP!TypeOK /\ stock \in [Variants -> Nat] /\ PP!TypeInv
  BY DEF DocumentsRight, SP!IInv, SP!TypeInv, PP!IInv
<1>2. movements \subseteq Ledger!Movements
  BY <1>1, SharedTables DEF SP!TypeOK
<1>3. SP!KeptTyped /\ PP!HereTyped
  BY <1>1, SP!KeptType, PP!HereType, SalesFits, PurchasesFit
<1>4. Tracked \subseteq Variants
  BY TradingAssumption
<1>5. \A v \in Tracked : PP!OnHand(v) \in Int /\ SP!WithCustomers(v) \in Int
  BY <1>3, <1>4 DEF SP!KeptTyped, PP!HereTyped
<1> QED
  BY <1>1, <1>2, <1>5 DEF TablesTyped

\* Sales, returns and cancellations move the stock against what the invoices
\* took, and leave the bills right.
LEMMA SalesMove ==
  ASSUME DocumentsRight, SP!Next, UNCHANGED purchaseVars
  PROVE  DocumentsRight' /\ MovesOnce
<1>1. SP!IInv' /\ TablesTyped
  BY SP!StepInv, SalesFits, TablesType DEF DocumentsRight
<1>2. movements' \subseteq Ledger!Movements /\ stock' \in [Variants -> Nat]
  BY <1>1, SharedTables DEF SP!IInv, SP!TypeInv, SP!TypeOK
<1>3. \/ SP!NoSaleMove
      \/ \E key \in Keys : \E kind, delta : SP!SaleMove(key, kind, delta)
  BY SP!OperationMoves, SalesFits DEF DocumentsRight
<1>4. \A m \in movements' \ movements : m.kind \notin PP!PurchaseKinds
  BY <1>3 DEF SP!NoSaleMove, SP!SaleMove, SP!SaleKinds, SP!Ledger!Rows,
              PP!PurchaseKinds
<1>5. PP!MovedElsewhere
  BY <1>2, <1>4, SharedTables DEF PP!MovedElsewhere, purchaseVars
<1>6. PP!IInv' /\ PP!Backed' /\ \A v : PP!OnHand(v)' = PP!OnHand(v)
  BY <1>5, PP!ElsewhereKeeps, PurchasesFit DEF DocumentsRight
<1>7. ASSUME SP!NoSaleMove
      PROVE  MovesOnce
  BY <1>6, <1>7 DEF SP!NoSaleMove, MovesOnce, NothingMoves, OfDocuments
<1>8. ASSUME NEW key \in Keys, NEW kind, NEW delta, SP!SaleMove(key, kind, delta)
      PROVE  Moves(key, kind, delta)
  <2>1. Entered(key, kind, delta)
    BY <1>8, SharedTables DEF SP!SaleMove, SP!SaleKinds, Entered, Ledger!Kinds
  <2>2. kind \notin AdjustedKinds
    BY <1>8 DEF SP!SaleMove, SP!SaleKinds, AdjustedKinds
  <2>3. ASSUME NEW v \in Tracked
        PROVE  OfDocuments(v)' = OfDocuments(v) + delta[v]
    <3>1. SP!WithCustomers(v)' = SP!WithCustomers(v) - delta[v]
      BY <1>8 DEF SP!SaleMove
    <3>2. /\ PP!OnHand(v) \in Int /\ SP!WithCustomers(v) \in Int
          /\ delta[v] \in Int
      BY <1>1, <2>1, TradingAssumption DEF TablesTyped, Entered
    <3> QED
      BY <1>6, <3>1, <3>2 DEF OfDocuments
  <2> QED
    BY <2>1, <2>2, <2>3 DEF Moves
<1> QED
  BY <1>1, <1>3, <1>6, <1>7, <1>8 DEF DocumentsRight, MovesOnce

\* Bills, their cancellation and returns move the stock as they move what is
\* on hand of the bills, and leave the invoices right.
LEMMA PurchasesMove ==
  ASSUME DocumentsRight, PP!Operations, UNCHANGED salesVars
  PROVE  DocumentsRight' /\ MovesOnce
<1>1. PP!Next
  BY DEF PP!Next
<1>2. PP!IInv' /\ PP!Backed' /\ TablesTyped
  <2>1. PP!TypeInv
    BY DEF DocumentsRight, PP!IInv
  <2> QED
    BY <1>1, <2>1, PP!StepInv, PP!BackedStep, PurchasesFit, TablesType
       DEF DocumentsRight
<1>3. movements' \subseteq Ledger!Movements /\ stock' \in [Variants -> Nat]
  BY <1>2, SharedTables DEF PP!IInv, PP!TypeInv, PP!TypeOK
<1>4. \/ PP!NoPurchaseMove
      \/ \E key \in Keys : \E kind, delta : PP!PurchaseMove(key, kind, delta)
  BY PP!OperationMoves, PurchasesFit DEF DocumentsRight
<1>5. \A m \in movements' \ movements : m.kind \notin SP!SaleKinds
  BY <1>4 DEF PP!NoPurchaseMove, PP!PurchaseMove, PP!PurchaseKinds,
              PP!FreshMove, PP!Moved, PP!PostMovements, PP!Ledger!Rows,
              SP!SaleKinds
<1>6. SP!MovedElsewhere
  BY <1>3, <1>5, SharedTables DEF SP!MovedElsewhere, salesVars
<1>7. SP!IInv' /\ \A v : SP!WithCustomers(v)' = SP!WithCustomers(v)
  BY <1>6, SP!ElsewhereKeeps, SalesFits DEF DocumentsRight
<1>8. ASSUME PP!NoPurchaseMove
      PROVE  MovesOnce
  BY <1>7, <1>8 DEF PP!NoPurchaseMove, MovesOnce, NothingMoves, OfDocuments
<1>9. ASSUME NEW key \in Keys, NEW kind, NEW delta,
             PP!PurchaseMove(key, kind, delta)
      PROVE  Moves(key, kind, delta)
  <2>1. Entered(key, kind, delta)
    BY <1>9, SharedTables DEF PP!PurchaseMove, PP!PurchaseKinds, PP!FreshMove,
       PP!Moved, PP!PostMovements, Entered, Ledger!Kinds
  <2>2. kind \notin AdjustedKinds
    BY <1>9 DEF PP!PurchaseMove, PP!PurchaseKinds, AdjustedKinds
  <2>3. ASSUME NEW v \in Tracked
        PROVE  OfDocuments(v)' = OfDocuments(v) + delta[v]
    <3>1. PP!OnHand(v)' = PP!OnHand(v) + delta[v]
      BY <1>9 DEF PP!PurchaseMove
    <3>2. /\ PP!OnHand(v) \in Int /\ SP!WithCustomers(v) \in Int
          /\ delta[v] \in Int
      BY <1>2, <2>1, TradingAssumption DEF TablesTyped, Entered
    <3> QED
      BY <1>7, <3>1, <3>2 DEF OfDocuments
  <2> QED
    BY <2>1, <2>2, <2>3 DEF Moves
<1> QED
  BY <1>2, <1>4, <1>7, <1>8, <1>9 DEF DocumentsRight, MovesOnce

\* An adjustment is entered with one row, and leaves bills and invoices right.
LEMMA AdjustMoves ==
  ASSUME DocumentsRight, NEW key \in Keys, NEW v \in Tracked,
         NEW kind \in AdjustedKinds, NEW q \in Quantities, Adjust(key, v, kind, q)
  PROVE  DocumentsRight' /\ MovesOnce
<1> DEFINE d == IF kind = "ADJUSTMENT_IN" THEN q ELSE -q
           delta == [w \in Variants |-> IF w = v THEN d ELSE 0]
<1>1. /\ v \in Variants /\ d \in Int \ {0} /\ stock \in [Variants -> Nat]
      /\ movements \subseteq Ledger!Movements /\ TablesTyped
  <2>1. q \in Nat \ {0} /\ v \in Variants
    BY TradingAssumption
  <2> QED
    BY <2>1, TablesType DEF TablesTyped
<1>2. /\ AdjustKeyFree(key) /\ stock[v] + d >= 0
      /\ movements' = movements \cup
           {[key |-> key, kind |-> kind, variant |-> v, quantity |-> d]}
      /\ stock' = [stock EXCEPT ![v] = @ + d]
      /\ UNCHANGED <<salesVars, purchaseVars>>
  BY DEF Adjust
<1> HIDE DEF d
<1>3. Ledger!Rows(key, kind, delta) =
        {[key |-> key, kind |-> kind, variant |-> v, quantity |-> d]}
  BY <1>1 DEF Ledger!Rows
<1>4. /\ delta \in [Variants -> Int]
      /\ \A w \in Variants : stock[w] + delta[w] \in Nat
      /\ stock' = [w \in Variants |-> stock[w] + delta[w]]
  <2>1. stock[v] + d \in Nat
    BY <1>1, <1>2
  <2>2. \A w \in Variants : delta[w] = IF w = v THEN d ELSE 0
    OBVIOUS
  <2>3. delta \in [Variants -> Int]
    BY <1>1
  <2>4. \A w \in Variants : stock'[w] = stock[w] + delta[w]
    BY <1>1, <1>2, <2>2
  <2>5. stock' = [w \in Variants |-> stock'[w]]
    BY <1>1, <1>2
  <2> HIDE DEF delta
  <2> QED
    BY <1>1, <2>1, <2>2, <2>3, <2>4, <2>5
<1> HIDE DEF delta
<1>5. Entered(key, kind, delta)
  BY <1>2, <1>3, <1>4 DEF Entered, AdjustKeyFree, AdjustedKinds, Ledger!Kinds
<1>6. movements' \subseteq Ledger!Movements /\ stock' \in [Variants -> Nat]
  BY <1>1, <1>2, <1>4 DEF Ledger!Movements, Ledger!Kinds, AdjustedKinds
<1>7. SP!MovedElsewhere /\ PP!MovedElsewhere
  BY <1>2, <1>6, SharedTables DEF SP!MovedElsewhere, PP!MovedElsewhere,
     salesVars, purchaseVars, SP!SaleKinds, PP!PurchaseKinds, AdjustedKinds
<1>8. DocumentsRight' /\ \A w : OfDocuments(w)' = OfDocuments(w)
  <2>1. SP!IInv' /\ \A w : SP!WithCustomers(w)' = SP!WithCustomers(w)
    BY <1>7, SP!ElsewhereKeeps, SalesFits DEF DocumentsRight
  <2>2. PP!IInv' /\ PP!Backed' /\ \A w : PP!OnHand(w)' = PP!OnHand(w)
    BY <1>7, PP!ElsewhereKeeps, PurchasesFit DEF DocumentsRight
  <2> QED
    BY <2>1, <2>2 DEF DocumentsRight, OfDocuments
<1>9. \A w \in Tracked : OfDocuments(w) \in Int
  BY <1>1 DEF TablesTyped, OfDocuments
<1>10. Moves(key, kind, delta)
  BY <1>5, <1>8, <1>9 DEF Moves
<1> QED
  BY <1>8, <1>10 DEF MovesOnce

----------------------------------------------------------------------------
\* Every step keeps the documents right and enters at most one of them.
LEMMA StepMoves ==
  ASSUME DocumentsRight, [Next]_vars
  PROVE  DocumentsRight' /\ MovesOnce
<1>1. CASE S!Next /\ UNCHANGED purchaseVars
  BY <1>1, SameSales, SalesMove
<1>2. CASE P!Operations /\ UNCHANGED salesVars
  BY <1>2, SamePurchases, PurchasesMove
<1>3. CASE \E key \in Keys, v \in Tracked, kind \in AdjustedKinds, q \in Quantities :
             Adjust(key, v, kind, q)
  BY <1>3, AdjustMoves
<1>4. CASE UNCHANGED vars
  <2>1. /\ UNCHANGED <<movements, stock>> /\ UNCHANGED salesVars
        /\ UNCHANGED purchaseVars /\ TablesTyped
    BY <1>4, TablesType DEF vars
  <2>2. SP!MovedElsewhere /\ PP!MovedElsewhere
    BY <2>1, SharedTables DEF SP!MovedElsewhere, PP!MovedElsewhere, TablesTyped,
       salesVars, purchaseVars
  <2>3. SP!IInv' /\ \A v : SP!WithCustomers(v)' = SP!WithCustomers(v)
    BY <2>2, SP!ElsewhereKeeps, SalesFits DEF DocumentsRight
  <2>4. PP!IInv' /\ PP!Backed' /\ \A v : PP!OnHand(v)' = PP!OnHand(v)
    BY <2>2, PP!ElsewhereKeeps, PurchasesFit DEF DocumentsRight
  <2>5. NothingMoves
    BY <2>1, <2>3, <2>4 DEF NothingMoves, OfDocuments
  <2> QED
    BY <2>3, <2>4, <2>5 DEF DocumentsRight, MovesOnce
<1> QED
  BY <1>1, <1>2, <1>3, <1>4 DEF Next

\* Nothing happened yet, and nothing is in stock.
LEMMA InitInv ==
  Init => IInv
<1> SUFFICES ASSUME Init
             PROVE  IInv
  OBVIOUS
<1>1. SP!Init /\ PP!Init
  BY SameInit DEF Init, P!Init, PP!Init
<1>2. SP!IInv /\ PP!IInv
  BY <1>1, SP!InitInv, PP!InitInv, SalesFits, PurchasesFit
<1>3. /\ movements = {} /\ stock = [v \in Variants |-> 0]
      /\ bills = <<>> /\ billReturns = <<>> /\ invoices = <<>>
  BY <1>1 DEF SP!Init, PP!Init
<1>4. PP!Backed /\ IsFiniteSet(movements)
  BY <1>3, FS_EmptySet DEF PP!Backed
<1>5. ASSUME NEW v \in Tracked
      PROVE  /\ stock[v] = 0 /\ Booked(v) = 0 /\ Adjusted(v) = 0
             /\ PP!OnHand(v) = 0 /\ SP!WithCustomers(v) = 0
  <2>1. stock[v] = 0
    BY <1>3, TradingAssumption
  <2>2. Posted(v) = {} /\ Adjustments(v) = {}
    BY <1>3 DEF Posted, Adjustments
  <2>3. Booked(v) = 0 /\ Adjusted(v) = 0
    BY <2>2, SumEmpty DEF Booked, Adjusted
  <2>4. PP!InForce = {} /\ SP!InForce = {}
    BY <1>3 DEF PP!InForce, SP!InForce
  <2>5. PP!OnHand(v) = 0 /\ SP!WithCustomers(v) = 0
    <3>1. DOMAIN PP!Here(v) = {} /\ DOMAIN SP!Kept(v) = {}
      BY <2>4 DEF PP!Here, SP!Kept
    <3> QED
      BY <3>1, SumEmpty, SameSums DEF PP!OnHand, SP!WithCustomers
  <2> QED
    BY <2>1, <2>3, <2>5
<1>6. Shares /\ BookBalances
  BY <1>5 DEF Shares, BookBalances
<1> QED
  BY <1>2, <1>4, <1>6 DEF IInv

\* Every step keeps the balance in step with the documents and with the book.
LEMMA StepInv ==
  ASSUME IInv, [Next]_vars
  PROVE  IInv'
<1>1. DocumentsRight /\ DocumentsRight' /\ MovesOnce
  BY StepMoves DEF IInv, DocumentsRight
<1>2. BookTyped /\ TablesTyped
  BY <1>1, TablesType DEF BookTyped, TablesTyped, IInv
<1>3. /\ Shares /\ BookBalances /\ SumsTyped
      /\ Tracked \subseteq Variants
  BY <1>2, SumsType, TradingAssumption DEF IInv
<1>4. \A v : OfDocuments(v) = PP!OnHand(v) - SP!WithCustomers(v)
             /\ OfDocuments(v)' = PP!OnHand(v)' - SP!WithCustomers(v)'
  BY DEF OfDocuments
<1>5. ASSUME NothingMoves
      PROVE  IsFiniteSet(movements') /\ Shares' /\ BookBalances'
  <2>1. movements' = movements /\ stock' = stock
    BY <1>5 DEF NothingMoves
  <2>2. \A v \in Tracked : Booked(v)' = Booked(v) /\ Adjusted(v)' = Adjusted(v)
    BY <2>1 DEF Booked, Posted, Adjusted, Adjustments
  <2>3. \A v \in Tracked : OfDocuments(v)' = OfDocuments(v)
    BY <1>5 DEF NothingMoves
  <2> QED
    BY <1>2, <1>3, <1>4, <2>1, <2>2, <2>3 DEF Shares, BookBalances, BookTyped
<1>6. ASSUME NEW key \in Keys, NEW kind, NEW delta, Moves(key, kind, delta)
      PROVE  IsFiniteSet(movements') /\ Shares' /\ BookBalances'
  <2>1. Entered(key, kind, delta)
    BY <1>6 DEF Moves
  <2>2. IsFiniteSet(movements')
    BY <1>2, <2>1, RowsOf DEF BookTyped
  <2>3. ASSUME NEW v \in Tracked
        PROVE  /\ stock'[v] = Booked(v)'
               /\ stock'[v] = PP!OnHand(v)' - SP!WithCustomers(v)' + Adjusted(v)'
    <3>1. v \in Variants
      BY <1>3
    <3>2. stock'[v] = stock[v] + delta[v] /\ delta[v] \in Int
      BY <2>1, <3>1 DEF Entered
    <3>3. /\ Booked(v)' = Booked(v) + delta[v]
          /\ Adjusted(v)' = Adjusted(v)
               + (IF kind \in AdjustedKinds THEN delta[v] ELSE 0)
      BY <1>2, <2>1, <3>1, BookGrows
    <3>4. OfDocuments(v)' = OfDocuments(v)
            + (IF kind \in AdjustedKinds THEN 0 ELSE delta[v])
      BY <1>6 DEF Moves
    <3>5. /\ stock[v] = Booked(v)
          /\ stock[v] = OfDocuments(v) + Adjusted(v)
      BY <1>3, <1>4 DEF Shares, BookBalances
    <3>6. stock[v] \in Int /\ Adjusted(v) \in Int /\ OfDocuments(v) \in Int
      BY <1>2, <1>3, <1>4, <3>1 DEF TablesTyped, SumsTyped
    <3>7. stock'[v] = OfDocuments(v)' + Adjusted(v)'
      BY <3>2, <3>3, <3>4, <3>5, <3>6
    <3> QED
      BY <1>4, <3>2, <3>3, <3>5, <3>7
  <2> QED
    BY <2>2, <2>3 DEF Shares, BookBalances
<1> QED
  BY <1>1, <1>5, <1>6 DEF MovesOnce, IInv, DocumentsRight

\* The inductive invariant holds in every reachable state.
THEOREM Invariant ==
  Spec => []IInv
BY InitInv, StepInv, PTL DEF Spec

\* What should be on the shelf, in the terms of the services.
LEMMA ShelfIs ==
  ASSUME NEW v
  PROVE  OnShelf(v) = OfDocuments(v) + Adjusted(v)
<1> DEFINE B == {n \in DOMAIN bills : bills[n].status = "POSTED"}
           I == {n \in DOMAIN invoices : invoices[n].status = "POSTED"}
<1>1. [n \in B |-> P!Remaining(n, v)] = PP!Here(v)
  BY SameLeft DEF PP!Here, PP!InForce
<1>2. [n \in I |-> S!Remaining(n, v)] = SP!Kept(v)
  BY SameRemaining DEF SP!Kept, SP!InForce
<1>3. OnShelf(v) = SumFunction([n \in B |-> P!Remaining(n, v)])
                   - SumFunction([n \in I |-> S!Remaining(n, v)])
                   + SumFunction([m \in Adjustments(v) |-> m.quantity])
  BY DEF OnShelf, SumOver, Adjustments
<1> HIDE DEF B, I
<1>4. /\ PP!OnHand(v) = SumFunction(PP!Here(v))
      /\ SP!WithCustomers(v) = SumFunction(SP!Kept(v))
  BY SameSums DEF PP!OnHand, SP!WithCustomers
<1> QED
  BY <1>1, <1>2, <1>3, <1>4 DEF OfDocuments, Adjusted

\* Sales, purchases and adjustments of the same goods, in any order and number
\* and under any keys, leave in every balance what the documents in force add
\* up to and what the movements sum up to.
THEOREM StockCorrect ==
  Spec => []StockMatchesDocuments
<1>1. IInv => StockMatchesDocuments
  <2> SUFFICES ASSUME IInv, NEW v \in Tracked
               PROVE  /\ stock[v] = OnShelf(v)
                      /\ stock[v] = SumOver({m \in movements : m.variant = v},
                                            LAMBDA m : m.quantity)
    BY DEF StockMatchesDocuments
  <2>1. stock[v] = OnShelf(v)
    BY ShelfIs DEF IInv, Shares, OfDocuments
  <2>2. stock[v] = SumOver({m \in movements : m.variant = v},
                           LAMBDA m : m.quantity)
    BY DEF IInv, BookBalances, Booked, Posted, SumOver
  <2> QED
    BY <2>1, <2>2
<1> QED
  BY <1>1, Invariant, PTL

\* Each service alone implements the stock ledger; so do all of them at once,
\* over one book whose slots they share.
THEOREM LedgerImplemented ==
  Spec => ImplementsLedger
<1>1. Init => Ledger!LedgerInit
  BY DEF Init, P!Init, Ledger!LedgerInit
<1>2. ASSUME IInv, [Next]_vars
      PROVE  [Ledger!LedgerNext]_(Ledger!ledgerVars)
  <2>1. BookTyped /\ MovesOnce
    BY <1>2, StepMoves, TablesType DEF IInv, DocumentsRight, BookTyped, TablesTyped
  <2>2. CASE NothingMoves
    BY <2>2 DEF NothingMoves, Ledger!ledgerVars
  <2>3. ASSUME NEW key, NEW kind, NEW delta, Moves(key, kind, delta)
        PROVE  [Ledger!LedgerNext]_(Ledger!ledgerVars)
    BY <2>1, <2>3, EnteredPosts DEF Moves
  <2> QED
    BY <2>1, <2>2, <2>3 DEF MovesOnce
<1> QED
  BY <1>1, <1>2, Invariant, PTL DEF Spec, ImplementsLedger, Ledger!LedgerSpec

----------------------------------------------------------------------------
\* What each service promises of its own documents.
DocumentsCorrect ==
  /\ S!InvoiceReconciles /\ S!ReceivableIsOutstanding /\ S!CreditLimitKept
  /\ S!DrawerReconciles /\ S!ReturnedWithinSold /\ S!FullReturnSettles
  /\ S!KeysAppliedOnce
  /\ P!PayableReconciles /\ P!CreditIsOverpayment /\ P!ProjectionsReconcile
  /\ P!FullReturnSettles /\ P!AppliedOnce

\* Invoices, returns, drawers, bills and payments stay right while the other
\* services take from and add to the same stock.
THEOREM DocumentsStayCorrect ==
  Spec => []DocumentsCorrect
<1>1. ASSUME IInv
      PROVE  DocumentsCorrect
  <2>1. S!InvoiceReconciles
    BY <1>1 DEF IInv, SP!IInv, S!InvoiceReconciles, SP!InvoiceReconciles,
       S!Positive, SP!Positive
  <2>2. S!ReceivableIsOutstanding
    BY <1>1 DEF IInv, SP!IInv, S!ReceivableIsOutstanding,
       SP!ReceivableIsOutstanding, S!SumOver, SP!SumOver, S!SumFunction,
       SP!SumFunction, S!SumFunctionOnSet, SP!SumFunctionOnSet,
       S!FoldFunctionOnSet, SP!FoldFunctionOnSet, S!MapThenFoldSet,
       SP!MapThenFoldSet
  <2>3. S!CreditLimitKept
    BY <1>1 DEF IInv, SP!IInv, S!CreditLimitKept, SP!CreditLimitKept
  <2>4. S!DrawerReconciles
    BY <1>1 DEF IInv, SP!IInv, S!DrawerReconciles, SP!DrawerReconciles,
       S!SumOver, SP!SumOver, S!CASH, SP!CASH, S!SumFunction, SP!SumFunction,
       S!SumFunctionOnSet, SP!SumFunctionOnSet, S!FoldFunctionOnSet,
       SP!FoldFunctionOnSet, S!MapThenFoldSet, SP!MapThenFoldSet
  <2>5. S!ReturnedWithinSold
    BY <1>1, SameReturned DEF IInv, SP!IInv, S!ReturnedWithinSold,
       SP!ReturnedWithinSold, S!Sold, SP!Sold
  <2>6. S!FullReturnSettles
    BY <1>1, SameRemaining DEF IInv, SP!IInv, S!FullReturnSettles,
       SP!FullReturnSettles
  <2>7. S!KeysAppliedOnce
    BY <1>1 DEF IInv, SP!IInv, S!KeysAppliedOnce, SP!KeysAppliedOnce
  <2>8. P!PayableReconciles
    BY <1>1 DEF IInv, PP!IInv, P!PayableReconciles, PP!PayableReconciles,
       P!Positive, PP!Positive
  <2>9. P!CreditIsOverpayment
    BY <1>1 DEF IInv, PP!IInv, P!CreditIsOverpayment, PP!CreditIsOverpayment,
       P!SumOver, PP!SumOver, P!ReturnsOf, PP!ReturnsOf, P!Positive,
       PP!Positive, P!SumFunction, PP!SumFunction, P!SumFunctionOnSet,
       PP!SumFunctionOnSet, P!FoldFunctionOnSet, PP!FoldFunctionOnSet,
       P!MapThenFoldSet, PP!MapThenFoldSet
  <2>10. P!ProjectionsReconcile
    BY <1>1 DEF IInv, PP!IInv, P!ProjectionsReconcile, PP!ProjectionsReconcile,
       P!SumOver, PP!SumOver, P!ReturnsOf, PP!ReturnsOf, P!SumFunction,
       PP!SumFunction, P!SumFunctionOnSet, PP!SumFunctionOnSet,
       P!FoldFunctionOnSet, PP!FoldFunctionOnSet, P!MapThenFoldSet,
       PP!MapThenFoldSet
  <2>11. P!FullReturnSettles
    <3>1. PP!FullReturnSettles
      BY <1>1, PP!BackSettles, PurchasesFit DEF IInv, PP!IInv
    <3> QED
      BY <3>1, SameSentBack, SameLeft DEF P!FullReturnSettles,
         PP!FullReturnSettles, P!Bought, PP!Bought
  <2>12. P!AppliedOnce
    BY <1>1 DEF IInv, PP!IInv, P!AppliedOnce, PP!AppliedOnce
  <2> QED
    BY <2>1, <2>2, <2>3, <2>4, <2>5, <2>6, <2>7, <2>8,
       <2>9, <2>10, <2>11, <2>12
       DEF DocumentsCorrect
<1> QED
  BY <1>1, Invariant, PTL
=============================================================================
