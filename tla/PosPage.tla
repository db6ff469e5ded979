------------------------------- MODULE PosPage -------------------------------
(***************************************************************************)
(* The POS page: a cart, the checkout key that identifies its charge, and  *)
(* the payment dialog.  Every edit of the cart drops the key, also while   *)
(* the request that carries it is under way; the answer, when it comes,    *)
(* finds the page as it is then.                                           *)
(***************************************************************************)
EXTENDS WebRequests

VARIABLE pos

posVars == <<shared, pos>>

\* "register" is what the page knows of the session of WEB-POS; "order" is the
\* intent under which the cart was charged since its last edit, "receipt" the
\* request whose success the page shows.
PosStates ==
  [register : {"loading", "shut", "open"}, cart : Baskets, key : Keys \cup {None},
   paying : BOOLEAN, sale : {"idle", "loading", "success", "error"},
   order : 0..MaxSent, receipt : 0..MaxSent]

FreshPos ==
  [register |-> "loading", cart |-> NoItems, key |-> None, paying |-> FALSE,
   sale |-> "idle", order |-> 0, receipt |-> 0]

Known == IF WebPos \in Range(desks) THEN "open" ELSE "shut"

\* getWorkspace looks for the open session of WEB-POS.
LoadWorkspace ==
  /\ pos.register = "loading"
  /\ pos' = [pos EXCEPT !.register = Known]
  /\ UNCHANGED shared

\* openRegister: the register is open afterwards, by this request or, after a
\* 409, by another one; the page learns of it unless the answer is lost.
OpenRegister ==
  /\ pos.register = "shut"
  /\ desks' = IF WebPos \in Range(desks) THEN desks ELSE Append(desks, WebPos)
  /\ \E told \in {"shut", "open"} : pos' = [pos EXCEPT !.register = told]
  /\ UNCHANGED <<sent, books, drawn>>

\* Slip: an edit keeps the key of the cart as it was.
EditedKeepingKey(cart) ==
  [pos EXCEPT !.cart = cart, !.sale = "idle", !.order = 0]
\* invalidateCheckout, which every edit begins with.
Edited(cart) ==
  [pos EXCEPT !.cart = cart, !.key = None, !.sale = "idle", !.order = 0]

\* Slip: the stock shown does not cap the line.
OneMoreUncapped(i) == pos.cart[i] + 1
OneMore(i) == IF pos.cart[i] < Shelf[i] THEN pos.cart[i] + 1 ELSE Shelf[i]

Add(i) ==
  /\ Shelf[i] >= 1
  /\ pos' = Edited([pos.cart EXCEPT ![i] = OneMore(i)])
  /\ UNCHANGED shared

\* changeQuantity; one more is what Add does, a line at zero is filtered out.
TakeOne(i) ==
  /\ pos.cart[i] > 0
  /\ pos' = Edited([pos.cart EXCEPT ![i] = @ - 1])
  /\ UNCHANGED shared

RemoveLine(i) ==
  /\ pos.cart[i] > 0
  /\ pos' = Edited([pos.cart EXCEPT ![i] = 0])
  /\ UNCHANGED shared

\* clearCart, once the operator has confirmed.
ClearCart ==
  /\ pos.cart # NoItems
  /\ pos' = Edited(NoItems)
  /\ UNCHANGED shared

\* Slip: each opening of the payment dialog draws a key.
KeyPerDialog == TRUE
NeedsKey == pos.key = None

\* openPayment, from a button that needs a cart and a session.
OpenPayment ==
  /\ pos.cart # NoItems
  /\ pos.register = "open"
  /\ ~pos.paying
  /\ IF NeedsKey
     THEN /\ drawn < MaxKeys
          /\ drawn' = drawn + 1
          /\ pos' = [pos EXCEPT !.paying = TRUE, !.key = drawn + 1]
     ELSE /\ pos' = [pos EXCEPT !.paying = TRUE]
          /\ UNCHANGED drawn
  /\ UNCHANGED <<sent, books, desks>>

\* closePayment: the button, the backdrop or Escape, at any time.
ClosePayment ==
  /\ pos.paying
  /\ pos' = [pos EXCEPT !.paying = FALSE]
  /\ UNCHANGED shared

\* completeSale, from a button that is disabled while the page is loading.
CompleteSale(method) ==
  LET intent == IF pos.order = 0 THEN Len(sent) + 1 ELSE pos.order
  IN  /\ pos.paying
      /\ pos.sale # "loading"
      /\ pos.register = "open"
      /\ pos.key # None
      /\ Send(pos.key, intent, Sale(pos.cart, method))
      /\ pos' = [pos EXCEPT !.sale = "loading", !.order = intent]
      /\ UNCHANGED <<books, desks, drawn>>

\* The success handler of completeSale: whatever is in the cart goes, and the
\* workspace is loaded again.
SaleSucceeds(n) ==
  /\ Answered(n)
  /\ sent[n].body.kind = "sale"
  /\ sent[n].answer = "ok"
  /\ pos' = [pos EXCEPT !.cart = NoItems, !.key = None, !.paying = FALSE,
                        !.sale = "success", !.order = 0, !.receipt = n,
                        !.register = "loading"]
  /\ StopWaiting(n)
  /\ UNCHANGED <<books, desks, drawn>>

\* The error handler: a refusal, or no answer at all.
SaleFails(n) ==
  /\ Waiting(n)
  /\ sent[n].body.kind = "sale"
  /\ pos' = [pos EXCEPT !.sale = "error"]
  /\ StopWaiting(n)
  /\ UNCHANGED <<books, desks, drawn>>

PosNext ==
  \/ LoadWorkspace \/ OpenRegister \/ ClearCart \/ OpenPayment \/ ClosePayment
  \/ \E i \in Items : Add(i) \/ TakeOne(i) \/ RemoveLine(i)
  \/ \E m \in Methods : CompleteSale(m)
  \/ \E n \in DOMAIN sent : SaleSucceeds(n) \/ SaleFails(n)
=============================================================================
