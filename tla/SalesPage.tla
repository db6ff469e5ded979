------------------------------ MODULE SalesPage ------------------------------
(***************************************************************************)
(* The sales page: a list of invoices as they were when it was loaded, and *)
(* a dialog that returns or cancels one of them under the key drawn when   *)
(* the dialog was opened.                                                  *)
(***************************************************************************)
EXTENDS WebRequests

VARIABLE sales

salesVars == <<shared, sales>>

\* "listed" are the invoices that the page offers to return or cancel, "detail"
\* the one in the dialog with what was left of it when the dialog was opened,
\* "dialog" the intent under which the open dialog was submitted.
SalesStates ==
  [loaded : BOOLEAN, listed : SUBSET Keys,
   detail : [id : Keys, left : Baskets] \cup {None},
   action : {"return", "cancel", None}, key : Keys \cup {None},
   basket : Baskets, busy : BOOLEAN, dialog : 0..MaxSent]

FreshSales ==
  [loaded |-> FALSE, listed |-> {}, detail |-> None, action |-> None,
   key |-> None, basket |-> NoItems, busy |-> FALSE, dialog |-> 0]
Closed(page) ==
  [page EXCEPT !.detail = None, !.action = None, !.key = None,
               !.basket = NoItems, !.dialog = 0]

\* canCompensate, of an invoice as it is stored.
CanCompensate(invoice) ==
  ~Cancelled(invoice) /\ Remaining(invoice) # NoItems

Load ==
  /\ ~sales.loaded
  /\ sales' = [sales EXCEPT !.loaded = TRUE,
                            !.listed = {k \in Invoices : CanCompensate(k)}]
  /\ UNCHANGED shared

\* getInvoice reads the invoice again and counts what its returns leave.
Detail(invoice) == [id |-> invoice, left |-> Remaining(invoice)]

\* start: the dialog begins with all that is left and a key of its own.
Start(invoice, action) ==
  /\ invoice \in sales.listed
  /\ ~sales.busy
  /\ sales.detail = None
  /\ drawn < MaxKeys
  /\ drawn' = drawn + 1
  /\ sales' = [sales EXCEPT !.detail = Detail(invoice), !.action = action,
                            !.key = drawn + 1, !.dialog = 0,
                            !.basket = Detail(invoice).left]
  /\ UNCHANGED <<sent, books, desks>>

\* setQuantity, for a line of which something was left; the maximum of the
\* input is a hint, and it is the API that refuses more.
SetQuantity(i, q) ==
  /\ sales.action = "return"
  /\ sales.detail.left[i] > 0
  /\ sales.basket[i] # q
  /\ sales' = [sales EXCEPT !.basket[i] = q]
  /\ UNCHANGED shared

\* close, also while the answer is still out.
Close ==
  /\ sales.detail # None
  /\ sales' = Closed(sales)
  /\ UNCHANGED shared

\* requireRegister: the newest open register of the branch pays the refund.
\* Whatever was sold here left WEB-POS open.
Register == desks[Len(desks)]

\* submit, from a button that is disabled while the page is busy; createReturn
\* adds the time of the attempt.
Submit ==
  LET intent == IF sales.dialog = 0 THEN Len(sent) + 1 ELSE sales.dialog
      body == IF sales.action = "cancel"
              THEN Cancel(sales.detail.id, Register)
              ELSE Return(sales.detail.id, sales.basket, Register, Len(sent) + 1)
  IN  /\ sales.detail # None
      /\ ~sales.busy
      /\ sales.action = "return" => sales.basket # NoItems
      /\ Send(sales.key, intent, body)
      /\ sales' = [sales EXCEPT !.busy = TRUE, !.dialog = intent]
      /\ UNCHANGED <<books, desks, drawn>>

\* replace: the invoice of the answer takes the place of the listed one.
Replaced(invoice) ==
  IF CanCompensate(invoice) THEN sales.listed ELSE sales.listed \ {invoice}

SubmitSucceeds(n) ==
  /\ Answered(n)
  /\ sent[n].body.kind # "sale"
  /\ sent[n].answer = "ok"
  /\ sales' = Closed([sales EXCEPT !.busy = FALSE,
                                   !.listed = Replaced(sent[n].body.invoice)])
  /\ StopWaiting(n)
  /\ UNCHANGED <<books, desks, drawn>>

\* operationError: the dialog stays open, with its key.
SubmitFails(n) ==
  /\ Waiting(n)
  /\ sent[n].body.kind # "sale"
  /\ sales' = [sales EXCEPT !.busy = FALSE]
  /\ StopWaiting(n)
  /\ UNCHANGED <<books, desks, drawn>>

SalesNext ==
  \/ Load \/ Close \/ Submit
  \/ \E k \in sales.listed, a \in {"return", "cancel"} : Start(k, a)
  \/ \E i \in Items : \E q \in 0..Shelf[i] : SetQuantity(i, q)
  \/ \E n \in DOMAIN sent : SubmitSucceeds(n) \/ SubmitFails(n)
=============================================================================
