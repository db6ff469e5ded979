---------------------------- MODULE StockLedger ----------------------------
(***************************************************************************)
(* What the inventory promises to the rest of Webillify, whatever          *)
(* operation moves the goods: an append-only book of stock movements and a *)
(* balance per variant that is moved by exactly the posted quantities.     *)
(*                                                                         *)
(* The tables are stock_movements and stock_balances of the catalogue      *)
(* migration.  The services that write them (StockService, SalesService,   *)
(* PurchasesService) are modelled in modules of their own, and each is     *)
(* shown to implement this one.                                            *)
(*                                                                         *)
(* One warehouse of one organization is modelled: every row that matters   *)
(* here is keyed by both, and no operation touches two warehouses.         *)
(***************************************************************************)
EXTENDS Integers, FiniteSets

CONSTANTS Variants,   \* product variants whose stock is tracked
          Keys        \* values of the Idempotency-Key header

VARIABLES movements,  \* the posted rows of stock_movements
          stock       \* stock_balances.quantity, 0 where there is no row yet

ledgerVars == <<movements, stock>>

Kinds == {"ADJUSTMENT_IN", "ADJUSTMENT_OUT", "PURCHASE_RECEIPT", "REVERSAL",
          "PURCHASE_RETURN", "SALE_ISSUE", "SALES_RETURN"}

\* A movement has a signed quantity that is never zero
\* (stock_movements_quantity_check).
Movements ==
  [key : Keys, kind : Kinds, variant : Variants, quantity : Int \ {0}]

\* The rows one document posts: one per variant that it moves.
Rows(key, kind, delta) ==
  {[key |-> key, kind |-> kind, variant |-> v, quantity |-> delta[v]] :
      v \in {w \in Variants : delta[w] # 0}}

\* Two rows that the unique index over
\* (idempotency_key, variant_id, movement_type) does not let coexist.
SameSlot(m, n) ==
  m.key = n.key /\ m.kind = n.kind /\ m.variant = n.variant

\* The book opens with whatever is on the shelves.
LedgerInit ==
  /\ movements = {}
  /\ stock \in [Variants -> Nat]

\* One committed document: its rows are new, and every balance moves by the
\* posted quantity and stays at or above zero.
Post(key, kind, delta) ==
  /\ Rows(key, kind, delta) # {}
  /\ \A m \in Rows(key, kind, delta), n \in movements : ~SameSlot(m, n)
  /\ \A v \in Variants : stock[v] + delta[v] >= 0
  /\ movements' = movements \cup Rows(key, kind, delta)
  /\ stock' = [v \in Variants |-> stock[v] + delta[v]]

LedgerNext ==
  \E key \in Keys, kind \in Kinds :
    Post(key, kind, [v \in Variants |-> stock'[v] - stock[v]])

LedgerSpec == LedgerInit /\ [][LedgerNext]_ledgerVars
=============================================================================
