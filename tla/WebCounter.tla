----------------------------- MODULE WebCounter -----------------------------
(***************************************************************************)
(* One operator at the counter, who moves between the POS page and the     *)
(* sales page: one page is mounted at a time, and leaving it ends its      *)
(* state and its waiting (takeUntilDestroyed), never its requests, which   *)
(* SalesService serves in any order and at any time.                       *)
(***************************************************************************)
EXTENDS PosPage, SalesPage

VARIABLE route

vars == <<shared, pos, sales, route>>

Init ==
  /\ SharedInit
  /\ pos = FreshPos
  /\ sales = FreshSales
  /\ route = "pos"

AtPos ==
  /\ route = "pos"
  /\ PosNext
  /\ UNCHANGED <<sales, route>>

AtSales ==
  /\ route = "sales"
  /\ SalesNext
  /\ UNCHANGED <<pos, route>>

\* The router destroys the page that is left, and the other starts afresh.
Navigate ==
  /\ route' = IF route = "pos" THEN "sales" ELSE "pos"
  /\ pos' = FreshPos
  /\ sales' = FreshSales
  /\ sent' = [n \in DOMAIN sent |-> [sent[n] EXCEPT !.waiting = FALSE]]
  /\ UNCHANGED <<books, desks, drawn>>

Api ==
  /\ OpenElsewhere \/ \E n \in DOMAIN sent : Serve(n)
  /\ UNCHANGED <<pos, sales, route>>

Next == AtPos \/ AtSales \/ Navigate \/ Api

Spec == Init /\ [][Next]_vars

----------------------------------------------------------------------------
\* The types of the pages' state and of the requests; in particular a cart
\* never holds more of an item than the page shows in stock (pos.ts add).
TypeOK ==
  /\ SharedTypeOK
  /\ pos \in PosStates
  /\ sales \in SalesStates
  /\ route \in {"pos", "sales"}

\* What the operator asked for once happens at most once, however often the
\* request is sent and however late it is served: the order that is charged
\* again after an error, in a dialog that was closed and opened again (pos.ts
\* openPayment), and the return or cancellation that is submitted again
\* (sales.ts submit).
OneEffectPerIntent ==
  \A i, j \in DOMAIN books : books[i].intent = books[j].intent => i = j

\* The success that the POS page shows is true: a sale of that cart, paid by
\* that method, is booked under the key of the request, also when an earlier
\* attempt with another method was booked and its answer lost (pos.ts
\* completeSale, sales.service.ts postInvoice).
ReceiptIsTrue ==
  pos.receipt # 0 =>
    \E d \in Range(books) :
      d.key = sent[pos.receipt].key /\ d.body = sent[pos.receipt].body

\* The key of the order on the page names no other cart: what was booked under
\* it, by whichever request, is what the page shows (pos.ts
\* invalidateCheckout).
KeyNamesCart ==
  \A d \in Range(books) : d.key = pos.key => d.body.basket = pos.cart
=============================================================================
