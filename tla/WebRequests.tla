----------------------------- MODULE WebRequests -----------------------------
(***************************************************************************)
(* What the POS page and the sales page of the web application share: the  *)
(* requests they sent, the keys they drew and the books of the API behind. *)
(*                                                                         *)
(* A request that a page gave up may still be served, at any time after: a *)
(* connection that breaks, a gateway that times out and a page that is     *)
(* left end the waiting, not the request.  An operation of SalesService is *)
(* one step (module Sales has it in full); here it says no more than what  *)
(* a client can tell of it: stored, answered from what is stored, refused. *)
(***************************************************************************)
EXTENDS Integers, Sequences, FiniteSets, Functions

CONSTANTS Items,     \* product variants on the shelf
          Shelf,     \* stock that the page shows of each
          Methods,   \* ways to pay
          WebPos,    \* the register of the web application, WEB-POS
          OtherPos,  \* another register of the branch
          MaxKeys,   \* bound: keys drawn
          MaxSent,   \* bound: requests sent
          MaxDocs,   \* bound: documents posted
          None

\* What the API answers: the document, a conflict (409) or another refusal.
Answers == {"ok", "conflict", "refused"}

ASSUME ShelfAssumption == Shelf \in [Items -> Nat]
ASSUME MaxAssumption == MaxKeys \in Nat /\ MaxSent \in Nat /\ MaxDocs \in Nat
ASSUME NoneAssumption ==
  None \notin Methods \cup {WebPos, OtherPos} \cup Nat \cup Answers
ASSUME RegistersAssumption == WebPos # OtherPos

VARIABLES sent,   \* requests in the order in which they were sent
          books,  \* posted documents of the API, in order
          desks,  \* open registers of the branch, the newest last
          drawn   \* how many keys crypto.randomUUID has drawn

shared == <<sent, books, desks, drawn>>

Keys == 1..MaxKeys
Baskets == {b \in [Items -> Nat] : \A i \in Items : b[i] <= Shelf[i]}
NoItems == [i \in Items |-> 0]

\* What a request says.  A sale names a cart and a method; a return the
\* invoice by the key it was posted under, the quantities, the register that
\* pays the refund and the time of the attempt; a cancellation the same but
\* for quantities and time, which the API fills in.
Bodies ==
  [kind : {"sale", "return", "cancel"}, invoice : Keys \cup {None},
   basket : [Items -> Nat], method : Methods \cup {None},
   register : {WebPos, OtherPos}, stamp : 0..MaxSent]
Sale(cart, method) ==
  [kind |-> "sale", invoice |-> None, basket |-> cart, method |-> method,
   register |-> WebPos, stamp |-> 0]
Return(invoice, basket, register, stamp) ==
  [kind |-> "return", invoice |-> invoice, basket |-> basket, method |-> None,
   register |-> register, stamp |-> stamp]
Cancel(invoice, register) ==
  [kind |-> "cancel", invoice |-> invoice, basket |-> NoItems,
   method |-> None, register |-> register, stamp |-> 0]

\* "intent" is not sent: it counts what the operator meant, the order that is
\* charged or the dialog that is submitted, however often it is sent.
SentRequests ==
  [key : Keys, intent : 1..MaxSent, body : Bodies,
   answer : Answers \cup {None}, waiting : BOOLEAN]
Documents == [key : Keys, intent : 1..MaxSent, body : Bodies]

Invoice(key) == CHOOSE d \in Range(books) :
                  d.body.kind = "sale" /\ d.key = key
Invoices == {d.key : d \in {d \in Range(books) : d.body.kind = "sale"}}
CompensationsOf(invoice) ==
  {n \in DOMAIN books : books[n].body.invoice = invoice}
Returned(invoice) ==
  [i \in Items |->
     SumFunction([n \in CompensationsOf(invoice) |-> books[n].body.basket[i]])]
Remaining(invoice) ==
  [i \in Items |-> Invoice(invoice).body.basket[i] - Returned(invoice)[i]]
Cancelled(invoice) ==
  \E n \in CompensationsOf(invoice) : books[n].body.kind = "cancel"
FirstRefund(invoice) ==
  books[CHOOSE n \in CompensationsOf(invoice) :
          \A m \in CompensationsOf(invoice) : n <= m]

SharedInit == sent = <<>> /\ books = <<>> /\ desks = <<>> /\ drawn = 0

\* A page sends a request and waits for the answer.
Send(key, intent, body) ==
  /\ Len(sent) < MaxSent
  /\ sent' = Append(sent, [key |-> key, intent |-> intent, body |-> body,
                           answer |-> None, waiting |-> TRUE])

StopWaiting(n) == sent' = [sent EXCEPT ![n].waiting = FALSE]
Waiting(n) == n \in DOMAIN sent /\ sent[n].waiting
Answered(n) == Waiting(n) /\ sent[n].answer # None

----------------------------------------------------------------------------
Stored(r) == {d \in Range(books) : d.key = r.key /\ d.body.kind = r.body.kind}
Reply(n, answer) ==
  /\ sent' = [sent EXCEPT ![n].answer = answer]
  /\ UNCHANGED <<books, desks, drawn>>
Post(n, basket) ==
  /\ Len(books) < MaxDocs
  /\ sent' = [sent EXCEPT ![n].answer = "ok"]
  /\ books' = Append(books, [key |-> sent[n].key, intent |-> sent[n].intent,
                             body |-> [sent[n].body EXCEPT !.basket = basket]])
  /\ UNCHANGED <<desks, drawn>>

\* Slip: the hash of the request is not compared, the key is enough.
SameKey(d, r) == TRUE
\* postInvoice compares the hash of the whole request.
SameSale(d, r) == d.body = r.body

\* postInvoice: a stored invoice answers its own request; any other sale is
\* posted, or refused for stock, price, register or plan.
ServeSale(n) ==
  LET r == sent[n]
  IN  /\ r.body.kind = "sale"
      /\ \/ \E d \in Stored(r) :
              Reply(n, IF SameSale(d, r) THEN "ok" ELSE "conflict")
         \/ Stored(r) = {} /\ Post(n, r.body.basket)
         \/ Stored(r) = {} /\ Reply(n, "refused")

\* sameSalesReturn: invoice, date, lines and refund.
SameReturn(d, r) == d.body = r.body

\* createReturn.
ServeReturn(n) ==
  LET r == sent[n]
      within == /\ ~Cancelled(r.body.invoice)
                /\ \A i \in Items :
                     r.body.basket[i] <= Remaining(r.body.invoice)[i]
  IN  /\ r.body.kind = "return"
      /\ \/ \E d \in Stored(r) :
              Reply(n, IF SameReturn(d, r) THEN "ok" ELSE "conflict")
         \/ Stored(r) = {} /\ within /\ Post(n, r.body.basket)
         \/ Stored(r) = {} /\ ~within /\ Reply(n, "refused")

\* cancelInvoice: a cancelled invoice answers only the key that cancelled it,
\* and compares the register with that of its first refund; otherwise all that
\* is left comes back.
ServeCancel(n) ==
  LET r == sent[n]
      inv == r.body.invoice
      same == /\ Stored(r) # {}
              /\ FirstRefund(inv).body.register = r.body.register
  IN  /\ r.body.kind = "cancel"
      /\ \/ Cancelled(inv) /\ Reply(n, IF same THEN "ok" ELSE "conflict")
         \/ /\ ~Cancelled(inv)
            /\ Remaining(inv) # NoItems
            /\ Post(n, Remaining(inv))
         \/ /\ ~Cancelled(inv)
            /\ Remaining(inv) = NoItems
            /\ Reply(n, "conflict")

Serve(n) ==
  /\ n \in DOMAIN sent
  /\ sent[n].answer = None
  /\ ServeSale(n) \/ ServeReturn(n) \/ ServeCancel(n)

\* Another register of the branch is opened.
OpenElsewhere ==
  /\ OtherPos \notin Range(desks)
  /\ desks' = Append(desks, OtherPos)
  /\ UNCHANGED <<sent, books, drawn>>

SharedTypeOK ==
  /\ sent \in Seq(SentRequests)
  /\ books \in Seq(Documents)
  /\ desks \in {<<>>, <<WebPos>>, <<OtherPos>>,
                <<WebPos, OtherPos>>, <<OtherPos, WebPos>>}
  /\ drawn \in 0..MaxKeys
=============================================================================
