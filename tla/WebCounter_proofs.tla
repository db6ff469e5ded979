-------------------------- MODULE WebCounter_proofs --------------------------
(***************************************************************************)
(* What the two pages promise to the operator for any shelf, any number of *)
(* requests under way and any order in which they are served: what the     *)
(* operator meant once is booked at most once, and what the page shows as  *)
(* charged is booked.                                                      *)
(***************************************************************************)
EXTENDS WebCounter, FiniteSetTheorems, SequenceTheorems, SumTheorems, TLAPS

\* What a request or a document is about; a sale also about its cart.
Says(body, kind, invoice, basket) ==
  /\ body.kind = kind
  /\ body.invoice = invoice
  /\ kind = "sale" => body.basket = basket

SaysTheSame(body, other) == Says(body, other.kind, other.invoice, other.basket)

\* A key that a page holds and the intent it is used for belong together, and
\* all requests under it are about one thing.
Means(key, order, kind, invoice, basket) ==
  \A n \in DOMAIN sent :
    /\ sent[n].key = key <=> sent[n].intent = order
    /\ sent[n].key = key => Says(sent[n].body, kind, invoice, basket)

\* Requests carry keys that were drawn, sell what is on the shelf and
\* compensate what was sold.
Requests ==
  /\ Len(sent) <= MaxSent
  /\ sent # <<>> => desks # <<>>
  /\ \A n \in DOMAIN sent :
       /\ sent[n].key <= drawn
       /\ sent[n].intent <= n
       /\ IF sent[n].body.kind = "sale"
          THEN sent[n].body.basket \in Baskets /\ sent[n].body.invoice = None
          ELSE sent[n].body.invoice \in Invoices

\* One key for one intent, and one thing to say under it.
OneKeyPerIntent ==
  \A m, n \in DOMAIN sent :
    /\ sent[m].key = sent[n].key <=> sent[m].intent = sent[n].intent
    /\ sent[m].key = sent[n].key => SaysTheSame(sent[m].body, sent[n].body)

\* Every document was asked for, and no key has two.
Asked ==
  /\ \A i \in DOMAIN books : \E n \in DOMAIN sent :
       /\ books[i].key = sent[n].key
       /\ books[i].intent = sent[n].intent
       /\ SaysTheSame(books[i].body, sent[n].body)
  /\ \A i, j \in DOMAIN books : books[i].key = books[j].key => i = j

\* A sale that is answered with success is booked as it was asked for.
Honest(r) ==
  r.body.kind = "sale" /\ r.answer = "ok" =>
    \E i \in DOMAIN books : books[i].key = r.key /\ books[i].body = r.body
AnswersHonest == \A n \in DOMAIN sent : Honest(sent[n])

\* No more of an item comes back than was sold.
Left == \A k \in Invoices : Remaining(k) \in Baskets

\* The key of the order on the POS page is that of the cart it shows, and the
\* receipt is that of a sale that was answered with success.
PosRight(page) ==
  /\ page.register = "open" => desks # <<>>
  /\ page.order <= Len(sent)
  /\ IF page.key = None THEN page.order = 0
     ELSE /\ page.key <= drawn
          /\ Means(page.key, page.order, "sale", None, page.cart)
  /\ page.receipt # 0 =>
       /\ page.receipt \in DOMAIN sent
       /\ sent[page.receipt].body.kind = "sale"
       /\ sent[page.receipt].answer = "ok"

\* The key of the dialog on the sales page is that of the invoice it is about.
SalesRight(page) ==
  /\ page.listed \subseteq Invoices
  /\ page.dialog <= Len(sent)
  /\ page.detail # None =>
       /\ page.key \in Keys /\ page.key <= drawn
       /\ page.action \in {"return", "cancel"}
       /\ page.detail.id \in Invoices
       /\ Means(page.key, page.dialog, page.action, page.detail.id, NoItems)

\* One page is mounted at a time.
PosHolds == (route = "sales" => pos = FreshPos) /\ PosRight(pos)
SalesHolds == (route = "pos" => sales = FreshSales) /\ SalesRight(sales)

BooksHold == Requests /\ OneKeyPerIntent /\ Asked /\ AnswersHonest /\ Left

IInv == TypeOK /\ BooksHold /\ PosHolds /\ SalesHolds

----------------------------------------------------------------------------
\* The rows of the two tables are numbered and have their types.
LEMMA RowTypes ==
  ASSUME SharedTypeOK
  PROVE  /\ Len(sent) \in Nat /\ DOMAIN sent = 1..Len(sent)
         /\ \A n \in DOMAIN sent : sent[n] \in SentRequests
         /\ Len(books) \in Nat /\ DOMAIN books = 1..Len(books)
         /\ IsFiniteSet(DOMAIN books)
         /\ \A i \in DOMAIN books : books[i] \in Documents
         /\ drawn \in Nat /\ MaxSent \in Nat /\ MaxKeys \in Nat
<1>1. sent \in Seq(SentRequests) /\ books \in Seq(Documents) /\ drawn \in 0..MaxKeys
  BY DEF SharedTypeOK
<1>2. /\ \A n \in DOMAIN sent : sent[n] \in SentRequests
      /\ \A i \in DOMAIN books : books[i] \in Documents
      /\ IsFiniteSet(DOMAIN books)
  BY <1>1, RowsFinite
<1>3. /\ Len(sent) \in Nat /\ DOMAIN sent = 1..Len(sent)
      /\ Len(books) \in Nat /\ DOMAIN books = 1..Len(books)
  BY <1>1, LenProperties
<1> QED
  BY <1>1, <1>2, <1>3, MaxAssumption

\* The fields of a request and of a document.
LEMMA FieldTypes ==
  ASSUME SharedTypeOK
  PROVE  /\ \A n \in DOMAIN sent :
              /\ sent[n].key \in Keys /\ sent[n].intent \in 1..MaxSent
              /\ sent[n].body \in Bodies
              /\ sent[n].body.invoice \in Keys \cup {None}
              /\ sent[n].body.basket \in [Items -> Nat]
         /\ \A i \in DOMAIN books :
              /\ books[i].key \in Keys /\ books[i].body \in Bodies
              /\ books[i].body.invoice \in Keys \cup {None}
              /\ books[i].body.basket \in [Items -> Nat]
<1>1. /\ \A n \in DOMAIN sent : sent[n] \in SentRequests
      /\ \A i \in DOMAIN books : books[i] \in Documents
  BY RowTypes
<1>2. \A b \in Bodies : b.invoice \in Keys \cup {None} /\ b.basket \in [Items -> Nat]
  BY DEF Bodies
<1>3. \A n \in DOMAIN sent : /\ sent[n].key \in Keys /\ sent[n].intent \in 1..MaxSent
                             /\ sent[n].body \in Bodies
  BY <1>1 DEF SentRequests
<1>4. \A i \in DOMAIN books : books[i].key \in Keys /\ books[i].body \in Bodies
  BY <1>1 DEF Documents
<1> QED
  BY <1>2, <1>3, <1>4

\* No key is the absence of one.
LEMMA KeysAreNumbers ==
  /\ Keys \subseteq Nat \ {0} /\ None \notin Keys /\ None \notin Nat
BY SMTT(60), NoneAssumption, MaxAssumption DEF Keys

----------------------------------------------------------------------------
\* Requests that are told their answer, or given up, stay what they were.
Kept ==
  /\ Len(sent') = Len(sent)
  /\ DOMAIN sent' = DOMAIN sent
  /\ \A n \in DOMAIN sent :
       /\ sent'[n].key = sent[n].key
       /\ sent'[n].intent = sent[n].intent
       /\ sent'[n].body = sent[n].body
       /\ sent[n].answer = "ok" => sent'[n].answer = "ok"

\* A table that keeps its rows keeps their number.
LEMMA SameLength ==
  ASSUME NEW R, NEW rows \in Seq(R), NEW new \in Seq(R), DOMAIN new = DOMAIN rows
  PROVE  Len(new) = Len(rows)
<1>1. /\ Len(new) \in Nat /\ DOMAIN new = 1..Len(new)
      /\ Len(rows) \in Nat /\ DOMAIN rows = 1..Len(rows)
  BY LenProperties
<1>2. ASSUME NEW a \in Nat, NEW b \in Nat, 1..a = 1..b
      PROVE  a = b
  <2>1. a >= 1 => a \in 1..b
    BY <1>2
  <2>2. b >= 1 => b \in 1..a
    BY <1>2
  <2> QED
    BY <2>1, <2>2
<1> QED
  BY <1>1, <1>2

\* One row of the requests is written.
LEMMA RowWritten ==
  ASSUME SharedTypeOK, NEW n \in DOMAIN sent, NEW r \in SentRequests,
         sent' = [sent EXCEPT ![n] = r],
         r.key = sent[n].key, r.intent = sent[n].intent, r.body = sent[n].body,
         sent[n].answer = "ok" => r.answer = "ok"
  PROVE  /\ sent' \in Seq(SentRequests)
         /\ Kept
         /\ sent'[n] = r
         /\ \A m \in DOMAIN sent \ {n} : sent'[m] = sent[m]
<1>1. sent \in Seq(SentRequests)
  BY DEF SharedTypeOK
<1>2. /\ sent' \in Seq(SentRequests) /\ DOMAIN sent' = DOMAIN sent
      /\ sent'[n] = r
      /\ \A m \in DOMAIN sent \ {n} : sent'[m] = sent[m]
  BY <1>1, RowUpdated
<1>3. Len(sent') = Len(sent)
  BY <1>1, <1>2, SameLength
<1> QED
  BY <1>2, <1>3 DEF Kept

\* An answer comes once, and giving up leaves the answers alone.
LEMMA AnswerWritten ==
  ASSUME SharedTypeOK, NEW n \in DOMAIN sent, sent[n].answer = None,
         NEW answer \in Answers, sent' = [sent EXCEPT ![n].answer = answer]
  PROVE  /\ sent' \in Seq(SentRequests)
         /\ Kept
         /\ sent'[n].answer = answer
         /\ \A m \in DOMAIN sent \ {n} : sent'[m] = sent[m]
<1> DEFINE r == [sent[n] EXCEPT !.answer = answer]
<1>1. sent[n] \in SentRequests
  BY RowTypes
<1>2. /\ r \in SentRequests /\ r.key = sent[n].key /\ r.intent = sent[n].intent
      /\ r.body = sent[n].body /\ r.answer = answer
  BY <1>1 DEF SentRequests
<1>3. sent' = [sent EXCEPT ![n] = r]
  OBVIOUS
<1>4. sent[n].answer = "ok" => r.answer = "ok"
  BY NoneAssumption DEF Answers
<1> HIDE DEF r
<1> QED
  BY <1>2, <1>3, <1>4, RowWritten

\* Requests that a page stops waiting for.
GivenUp ==
  /\ sent' \in Seq(SentRequests)
  /\ Kept
  /\ \A m \in DOMAIN sent : sent'[m].answer = sent[m].answer

\* Giving a request up keeps what was sent and what was answered.
LEMMA WaitingEnds ==
  ASSUME SharedTypeOK, NEW n \in DOMAIN sent, StopWaiting(n)
  PROVE  GivenUp
<1> DEFINE r == [sent[n] EXCEPT !.waiting = FALSE]
<1>1. sent[n] \in SentRequests
  BY RowTypes
<1>2. /\ r \in SentRequests /\ r.key = sent[n].key /\ r.intent = sent[n].intent
      /\ r.body = sent[n].body /\ r.answer = sent[n].answer
  BY <1>1 DEF SentRequests
<1>3. sent' = [sent EXCEPT ![n] = r]
  BY DEF StopWaiting
<1> HIDE DEF r
<1>4. /\ sent' \in Seq(SentRequests) /\ Kept /\ sent'[n] = r
      /\ \A m \in DOMAIN sent \ {n} : sent'[m] = sent[m]
  BY <1>2, <1>3, RowWritten
<1> QED
  BY <1>2, <1>4 DEF GivenUp

\* Leaving a page gives up all its requests.
LEMMA AllGivenUp ==
  ASSUME SharedTypeOK, Navigate
  PROVE  GivenUp
<1> DEFINE r(m) == [sent[m] EXCEPT !.waiting = FALSE]
<1>1. \A m \in DOMAIN sent : sent[m] \in SentRequests
  BY RowTypes
<1>2. \A m \in DOMAIN sent :
        /\ r(m) \in SentRequests /\ r(m).key = sent[m].key
        /\ r(m).intent = sent[m].intent /\ r(m).body = sent[m].body
        /\ r(m).answer = sent[m].answer
  BY <1>1 DEF SentRequests
<1>3. sent' = [m \in DOMAIN sent |-> r(m)]
  BY DEF Navigate
<1> HIDE DEF r
<1>4. sent' \in [DOMAIN sent -> SentRequests]
  BY <1>2, <1>3
<1>5. sent' \in Seq(SentRequests)
  BY <1>4, RowsRewritten DEF SharedTypeOK
<1>6. DOMAIN sent' = DOMAIN sent
  BY <1>3
<1>7. Len(sent') = Len(sent)
  BY <1>5, <1>6, SameLength DEF SharedTypeOK
<1>8. \A m \in DOMAIN sent : sent'[m] = r(m)
  BY <1>3
<1> QED
  BY <1>2, <1>5, <1>6, <1>7, <1>8 DEF GivenUp, Kept

----------------------------------------------------------------------------
\* What a step does to the requests and the books, one of four things.
\*
\* A page does something of its own.
DeskLists == {<<>>, <<WebPos>>, <<OtherPos>>,
              <<WebPos, OtherPos>>, <<OtherPos, WebPos>>}
Quiet ==
  /\ UNCHANGED <<sent, books>>
  /\ drawn' \in 0..MaxKeys /\ drawn <= drawn'
  /\ desks' \in DeskLists /\ (desks # <<>> => desks' # <<>>)

\* Requests are answered from what is stored or given up.
Told ==
  /\ sent' \in Seq(SentRequests)
  /\ Kept
  /\ UNCHANGED <<books, desks, drawn>>
  /\ \A m \in DOMAIN sent : sent'[m].answer = sent[m].answer \/ Honest(sent'[m])

\* A request is served for the first time.
Booked(n, doc) ==
  /\ sent' \in Seq(SentRequests)
  /\ Kept
  /\ UNCHANGED <<desks, drawn>>
  /\ \A m \in DOMAIN sent \ {n} : sent'[m].answer = sent[m].answer
  /\ doc \in Documents
  /\ books' = Append(books, doc)
  /\ doc.key = sent[n].key /\ doc.intent = sent[n].intent
  /\ doc.body.kind = sent[n].body.kind /\ doc.body.invoice = sent[n].body.invoice
  /\ \A i \in DOMAIN books : books[i].key # doc.key
  /\ IF doc.body.kind = "sale"
     THEN doc.body = sent[n].body
     ELSE \A x \in Items : doc.body.basket[x] <= Remaining(doc.body.invoice)[x]

\* A page sends a request.
Sends(key, intent, body) ==
  /\ Send(key, intent, body)
  /\ UNCHANGED <<books, desks, drawn>>

\* A document under the key of a request is about the same thing.
LEMMA KeyTellsBody ==
  ASSUME OneKeyPerIntent, Asked, NEW i \in DOMAIN books, NEW n \in DOMAIN sent,
         books[i].key = sent[n].key
  PROVE  SaysTheSame(books[i].body, sent[n].body)
<1>1. PICK m \in DOMAIN sent : /\ books[i].key = sent[m].key
                               /\ SaysTheSame(books[i].body, sent[m].body)
  BY DEF Asked
<1>2. SaysTheSame(sent[m].body, sent[n].body)
  BY <1>1 DEF OneKeyPerIntent
<1> QED
  BY <1>1, <1>2 DEF SaysTheSame, Says

\* A document that is posted is a new one, of the request that asked for it.
LEMMA PostBooks ==
  ASSUME SharedTypeOK, NEW n \in DOMAIN sent, sent[n].answer = None,
         NEW basket \in [Items -> Nat], Post(n, basket),
         \A i \in DOMAIN books : books[i].key # sent[n].key,
         IF sent[n].body.kind = "sale"
         THEN basket = sent[n].body.basket
         ELSE \A x \in Items : basket[x] <= Remaining(sent[n].body.invoice)[x]
  PROVE  \E doc : Booked(n, doc)
<1> DEFINE body == [sent[n].body EXCEPT !.basket = basket]
           doc == [key |-> sent[n].key, intent |-> sent[n].intent, body |-> body]
<1>1. /\ sent' = [sent EXCEPT ![n].answer = "ok"]
      /\ books' = Append(books, doc) /\ UNCHANGED <<desks, drawn>>
  BY DEF Post
<1>2. /\ sent[n].key \in Keys /\ sent[n].intent \in 1..MaxSent
      /\ sent[n].body \in Bodies
  BY FieldTypes
<1>3. /\ body \in Bodies /\ body.kind = sent[n].body.kind
      /\ body.invoice = sent[n].body.invoice /\ body.basket = basket
      /\ basket = sent[n].body.basket => body = sent[n].body
  BY <1>2 DEF Bodies
<1> HIDE DEF body
<1>4. doc \in Documents
  BY <1>2, <1>3 DEF Documents
<1>5. /\ doc.key = sent[n].key /\ doc.intent = sent[n].intent /\ doc.body = body
  OBVIOUS
<1> HIDE DEF doc
<1>6. /\ sent' \in Seq(SentRequests) /\ Kept
      /\ \A m \in DOMAIN sent \ {n} : sent'[m] = sent[m]
  BY <1>1, AnswerWritten DEF Answers
<1>7. Booked(n, doc)
  BY <1>1, <1>3, <1>4, <1>5, <1>6 DEF Booked
<1> QED
  BY <1>7

\* A reply that does not say "ok" to a sale, or says it of what is booked.
LEMMA ReplyTells ==
  ASSUME SharedTypeOK, NEW n \in DOMAIN sent, sent[n].answer = None,
         NEW answer \in Answers, Reply(n, answer),
         sent[n].body.kind = "sale" /\ answer = "ok" =>
           \E i \in DOMAIN books : books[i].key = sent[n].key /\ books[i].body = sent[n].body
  PROVE  Told
<1>1. sent' = [sent EXCEPT ![n].answer = answer] /\ UNCHANGED <<books, desks, drawn>>
  BY DEF Reply
<1>2. /\ sent' \in Seq(SentRequests) /\ Kept
      /\ sent'[n].answer = answer
      /\ \A m \in DOMAIN sent \ {n} : sent'[m] = sent[m]
  BY <1>1, AnswerWritten
<1>3. Honest(sent'[n])
  BY <1>2 DEF Honest, Kept
<1> QED
  BY <1>1, <1>2, <1>3 DEF Told

\* No stored document of the kind of a request means none under its key.
LEMMA NothingStored ==
  ASSUME OneKeyPerIntent, Asked, NEW n \in DOMAIN sent, Stored(sent[n]) = {}
  PROVE  \A i \in DOMAIN books : books[i].key # sent[n].key
<1> SUFFICES ASSUME NEW i \in DOMAIN books, books[i].key = sent[n].key
             PROVE  FALSE
  OBVIOUS
<1>1. books[i].body.kind = sent[n].body.kind
  BY KeyTellsBody DEF SaysTheSame, Says
<1>2. books[i] \in Stored(sent[n])
  BY <1>1 DEF Stored, Range
<1> QED
  BY <1>2

\* postInvoice answers from what is stored, refuses, or books one invoice.
LEMMA ServeSaleShape ==
  ASSUME SharedTypeOK, BooksHold, NEW n \in DOMAIN sent, sent[n].answer = None,
         ServeSale(n)
  PROVE  Told \/ \E doc : Booked(n, doc)
<1>0. /\ OneKeyPerIntent /\ Asked
      /\ sent[n].body.kind = "sale" /\ sent[n].body.basket \in [Items -> Nat]
  BY FieldTypes DEF BooksHold, ServeSale
<1>1. ASSUME NEW d \in Stored(sent[n]),
             Reply(n, IF SameSale(d, sent[n]) THEN "ok" ELSE "conflict")
      PROVE  Told
  <2>1. PICK i \in DOMAIN books : books[i] = d /\ d.key = sent[n].key
    BY <1>1 DEF Stored, Range
  <2>2. CASE SameSale(d, sent[n])
    <3>1. books[i].key = sent[n].key /\ books[i].body = sent[n].body
      BY <2>1, <2>2 DEF SameSale
    <3>2. Reply(n, "ok") /\ "ok" \in Answers
      BY <1>1, <2>2 DEF Answers
    <3> QED
      BY <3>1, <3>2, ReplyTells
  <2>3. CASE ~SameSale(d, sent[n])
    <3>1. Reply(n, "conflict") /\ "conflict" \in Answers
      BY <1>1, <2>3 DEF Answers
    <3> QED
      BY <3>1, ReplyTells
  <2> QED
    BY <2>2, <2>3
<1>2. ASSUME Stored(sent[n]) = {}, Post(n, sent[n].body.basket)
      PROVE  \E doc : Booked(n, doc)
  BY <1>0, <1>2, NothingStored, PostBooks
<1>3. ASSUME Reply(n, "refused")
      PROVE  Told
  BY <1>3, ReplyTells DEF Answers
<1> QED
  BY <1>1, <1>2, <1>3 DEF ServeSale

\* createReturn answers from what is stored, refuses, or books one return.
LEMMA ServeReturnShape ==
  ASSUME SharedTypeOK, BooksHold, NEW n \in DOMAIN sent, sent[n].answer = None,
         ServeReturn(n)
  PROVE  Told \/ \E doc : Booked(n, doc)
<1>0. /\ OneKeyPerIntent /\ Asked
      /\ sent[n].body.kind = "return" /\ sent[n].body.basket \in [Items -> Nat]
  BY FieldTypes DEF BooksHold, ServeReturn
<1>1. ASSUME NEW answer \in Answers, Reply(n, answer)
      PROVE  Told
  BY <1>0, <1>1, ReplyTells
<1>2. ASSUME Stored(sent[n]) = {}, Post(n, sent[n].body.basket),
             \A x \in Items :
               sent[n].body.basket[x] <= Remaining(sent[n].body.invoice)[x]
      PROVE  \E doc : Booked(n, doc)
  BY <1>0, <1>2, NothingStored, PostBooks
<1> QED
  BY <1>1, <1>2 DEF ServeReturn, Answers

\* cancelInvoice answers from what is stored, refuses, or books one cancellation.
LEMMA ServeCancelShape ==
  ASSUME SharedTypeOK, BooksHold, NEW n \in DOMAIN sent, sent[n].answer = None,
         ServeCancel(n)
  PROVE  Told \/ \E doc : Booked(n, doc)
<1> DEFINE inv == sent[n].body.invoice
<1>0. /\ OneKeyPerIntent /\ Asked
      /\ sent[n].body.kind = "cancel"
      /\ Remaining(inv) \in Baskets
  <2>1. sent[n].body.kind = "cancel" /\ inv \in Invoices
    BY DEF BooksHold, Requests, ServeCancel
  <2> QED
    BY <2>1 DEF BooksHold, Left
<1>1. ASSUME NEW answer \in Answers, Reply(n, answer)
      PROVE  Told
  BY <1>0, <1>1, ReplyTells
<1>2. ASSUME ~Cancelled(inv), Post(n, Remaining(inv))
      PROVE  \E doc : Booked(n, doc)
  <2>1. ASSUME NEW i \in DOMAIN books, books[i].key = sent[n].key
        PROVE  FALSE
    <3>1. books[i].body.kind = "cancel" /\ books[i].body.invoice = inv
      BY <1>0, <2>1, KeyTellsBody DEF SaysTheSame, Says
    <3> QED
      BY <1>2, <3>1 DEF Cancelled, CompensationsOf
  <2>2. Remaining(inv) \in [Items -> Nat]
    BY <1>0 DEF Baskets
  <2>3. \A x \in Items : Remaining(inv)[x] <= Remaining(inv)[x]
    BY <2>2
  <2> QED
    BY <1>0, <1>2, <2>1, <2>2, <2>3, PostBooks
<1> QED
  BY <1>1, <1>2 DEF ServeCancel, Answers

\* To serve a request is to answer it from the books or to book it.
LEMMA ServeShape ==
  ASSUME SharedTypeOK, BooksHold, NEW n, Serve(n)
  PROVE  Told \/ \E doc : Booked(n, doc)
BY ServeSaleShape, ServeReturnShape, ServeCancelShape DEF Serve

----------------------------------------------------------------------------
\* A page sends a request under the key it holds: the first one for a new
\* intent, a later one for the same.
Asking(order, key, intent, body) ==
  /\ Sends(key, intent, body)
  /\ key \in Keys /\ key <= drawn
  /\ body \in Bodies
  /\ order \in 0..Len(sent)
  /\ intent = IF order = 0 THEN Len(sent) + 1 ELSE order
  /\ Means(key, order, body.kind, body.invoice, body.basket)
  /\ IF body.kind = "sale"
     THEN body.basket \in Baskets /\ body.invoice = None
     ELSE body.invoice \in Invoices
  /\ desks # <<>>

\* A page that leaves the requests alone is quiet.
LEMMA SharedStays ==
  ASSUME SharedTypeOK, UNCHANGED shared
  PROVE  Quiet
BY RowTypes DEF SharedTypeOK, shared, Quiet, DeskLists

\* A page that gives up a request tells nothing new.
LEMMA StopTells ==
  ASSUME SharedTypeOK, NEW n \in DOMAIN sent, StopWaiting(n),
         UNCHANGED <<books, desks, drawn>>
  PROVE  Told
BY WaitingEnds DEF GivenUp, Told

\* The intent of a charge and of a submission, and what is submitted.
PosIntent == IF pos.order = 0 THEN Len(sent) + 1 ELSE pos.order
SalesIntent == IF sales.dialog = 0 THEN Len(sent) + 1 ELSE sales.dialog
SalesBody ==
  IF sales.action = "cancel"
  THEN Cancel(sales.detail.id, Register)
  ELSE Return(sales.detail.id, sales.basket, Register, Len(sent) + 1)

\* The POS page charges the cart it shows under the key it holds.
LEMMA CompleteSaleAsks ==
  ASSUME TypeOK, BooksHold, PosHolds, NEW method \in Methods, CompleteSale(method)
  PROVE  /\ Asking(pos.order, pos.key, PosIntent, Sale(pos.cart, method))
         /\ Sale(pos.cart, method).kind = "sale"
         /\ Sale(pos.cart, method).invoice = None
         /\ Sale(pos.cart, method).basket = pos.cart
<1> DEFINE intent == PosIntent
           body == Sale(pos.cart, method)
<1>1. /\ Sends(pos.key, intent, body) /\ pos.register = "open" /\ pos.key # None
  BY DEF CompleteSale, Sends, PosIntent
<1>2. /\ pos.key \in Keys /\ pos.order \in Nat /\ pos.cart \in Baskets
  BY <1>1, MaxAssumption DEF TypeOK, PosStates
<1>3. /\ pos.key <= drawn /\ desks # <<>> /\ pos.order <= Len(sent)
      /\ Means(pos.key, pos.order, "sale", None, pos.cart)
  BY <1>1 DEF PosHolds, PosRight
<1>4. /\ body \in Bodies /\ body.kind = "sale" /\ body.invoice = None
      /\ body.basket = pos.cart
  <2>1. pos.cart \in [Items -> Nat] /\ 0 \in 0..MaxSent
    BY <1>2, MaxAssumption DEF Baskets
  <2> QED
    BY <2>1 DEF Sale, Bodies
<1>5. pos.order \in 0..Len(sent)
  <2>1. Len(sent) \in Nat
    BY RowTypes DEF TypeOK
  <2> QED
    BY <1>2, <1>3, <2>1
<1>6. intent = IF pos.order = 0 THEN Len(sent) + 1 ELSE pos.order
  BY DEF PosIntent
<1> HIDE DEF intent, body
<1>7. Asking(pos.order, pos.key, intent, body)
  BY <1>1, <1>2, <1>3, <1>4, <1>5, <1>6 DEF Asking
<1> QED
  BY <1>4, <1>7 DEF intent, body

\* The sales page submits what its dialog is about under the key of the dialog.
LEMMA SubmitAsks ==
  ASSUME TypeOK, BooksHold, SalesHolds, Submit
  PROVE  /\ Asking(sales.dialog, sales.key, SalesIntent, SalesBody)
         /\ SalesBody.kind = sales.action
         /\ SalesBody.invoice = sales.detail.id
<1> DEFINE intent == SalesIntent
           body == SalesBody
<1>1. Sends(sales.key, intent, body) /\ sales.detail # None
  BY DEF Submit, Sends, SalesIntent, SalesBody
<1>2. /\ sales.key \in Keys /\ sales.key <= drawn
      /\ sales.action \in {"return", "cancel"}
      /\ sales.detail.id \in Invoices
      /\ Means(sales.key, sales.dialog, sales.action, sales.detail.id, NoItems)
      /\ sales.dialog <= Len(sent)
  BY <1>1 DEF SalesHolds, SalesRight
<1>3. /\ Len(sent) \in Nat /\ Len(sent) + 1 \in 0..MaxSent
      /\ DOMAIN books = 1..Len(books) /\ Len(books) \in Nat
  BY <1>1, RowTypes DEF TypeOK, Sends, Send
<1>4. sales.dialog \in Nat /\ sales.basket \in Baskets
  BY MaxAssumption DEF TypeOK, SalesStates
<1>5. sales.detail.id \in Keys
  <2>1. PICK d \in Range(books) : d.key = sales.detail.id
    BY <1>2 DEF Invoices
  <2> QED
    BY <2>1, FieldTypes DEF TypeOK, Range
<1>6. desks # <<>>
  <2>2. \E i \in DOMAIN books : TRUE
    BY <1>2 DEF Invoices, Range
  <2>3. \E n \in DOMAIN sent : TRUE
    BY <2>2 DEF BooksHold, Asked
  <2>4. sent # <<>>
    BY <2>3
  <2> QED
    BY <2>4 DEF BooksHold, Requests
<1>7. Register \in {WebPos, OtherPos}
  BY <1>6 DEF TypeOK, SharedTypeOK, Register
<1>8. /\ body \in Bodies /\ body.kind = sales.action
      /\ body.invoice = sales.detail.id
  <2>1. /\ NoItems \in [Items -> Nat] /\ sales.basket \in [Items -> Nat]
        /\ 0 \in 0..MaxSent
    BY <1>4, MaxAssumption DEF Baskets, NoItems
  <2>2. CASE sales.action = "cancel"
    BY <1>5, <1>7, <2>1, <2>2 DEF SalesBody, Cancel, Bodies
  <2>3. CASE sales.action = "return"
    BY <1>3, <1>5, <1>7, <2>1, <2>3 DEF SalesBody, Return, Bodies
  <2> QED
    BY <1>2, <2>2, <2>3
<1>9. intent = IF sales.dialog = 0 THEN Len(sent) + 1 ELSE sales.dialog
  BY DEF SalesIntent
<1> HIDE DEF intent, body
<1>10. Means(sales.key, sales.dialog, body.kind, body.invoice, body.basket)
  BY <1>2, <1>8 DEF Means, Says
<1>11. sales.dialog \in 0..Len(sent)
  BY <1>2, <1>3, <1>4
<1>12. Asking(sales.dialog, sales.key, intent, body)
  BY <1>1, <1>2, <1>6, <1>8, <1>9, <1>10, <1>11 DEF Asking
<1> QED
  BY <1>8, <1>12 DEF intent, body

----------------------------------------------------------------------------
\* A second register comes last.
LEMMA SecondDesk ==
  ASSUME NEW a, NEW b
  PROVE  Append(<<a>>, b) = <<a, b>>
<1>1. Len(<<a>>) = 1 /\ DOMAIN <<a>> = 1..1
  OBVIOUS
<1>2. Append(<<a>>, b) = [i \in 1..2 |-> IF i = 2 THEN b ELSE a]
  BY <1>1
<1>3. <<a, b>> = [i \in 1..2 |-> IF i = 2 THEN b ELSE a]
  OBVIOUS
<1> QED
  BY <1>2, <1>3

\* A register that is opened is one of the two, each of which is open once.
LEMMA DeskOpened ==
  ASSUME SharedTypeOK, NEW desk \in {WebPos, OtherPos},
         desk \notin Range(desks), desks' = Append(desks, desk)
  PROVE  desks' \in DeskLists /\ desks' # <<>>
<1>1. desks \in {<<>>, <<WebPos>>, <<OtherPos>>,
                 <<WebPos, OtherPos>>, <<OtherPos, WebPos>>}
  BY DEF SharedTypeOK
<1>2. CASE desks = <<>>
  BY <1>2 DEF DeskLists
<1>3. CASE desks = <<WebPos>>
  <2>1. WebPos \in Range(desks)
    BY <1>3 DEF Range
  <2>2. desk = OtherPos
    BY <2>1
  <2>3. desks' = <<WebPos, OtherPos>>
    BY <1>3, <2>2, SecondDesk
  <2> QED
    BY <2>3 DEF DeskLists
<1>4. CASE desks = <<OtherPos>>
  <2>1. OtherPos \in Range(desks)
    BY <1>4 DEF Range
  <2>2. desk = WebPos
    BY <2>1
  <2>3. desks' = <<OtherPos, WebPos>>
    BY <1>4, <2>2, SecondDesk
  <2> QED
    BY <2>3 DEF DeskLists
<1>5. CASE desks = <<WebPos, OtherPos>> \/ desks = <<OtherPos, WebPos>>
  <2>1. 1 \in DOMAIN desks /\ 2 \in DOMAIN desks
    BY <1>5
  <2>2. desks[1] \in Range(desks) /\ desks[2] \in Range(desks)
    BY <2>1 DEF Range
  <2>3. {desks[1], desks[2]} = {WebPos, OtherPos}
    BY <1>5
  <2> QED
    BY <2>2, <2>3
<1> QED
  BY <1>1, <1>2, <1>3, <1>4, <1>5 DEF DeskLists

\* Whatever the POS page does but charge, it does to itself, or it gives up a
\* request.
PosOther ==
  \/ LoadWorkspace \/ OpenRegister \/ ClearCart \/ OpenPayment \/ ClosePayment
  \/ \E i \in Items : Add(i) \/ TakeOne(i) \/ RemoveLine(i)
  \/ \E n \in DOMAIN sent : SaleSucceeds(n) \/ SaleFails(n)

\* The other actions of the POS page send nothing.
LEMMA PosShapes ==
  ASSUME TypeOK, PosOther
  PROVE  Quiet \/ Told
<1>0. SharedTypeOK /\ drawn \in 0..MaxKeys /\ MaxKeys \in Nat /\ desks \in DeskLists
  BY MaxAssumption DEF TypeOK, SharedTypeOK, DeskLists
<1>1. CASE \/ LoadWorkspace \/ ClearCart \/ ClosePayment
           \/ \E i \in Items : Add(i) \/ TakeOne(i) \/ RemoveLine(i)
  <2>1. UNCHANGED shared
    BY <1>1 DEF LoadWorkspace, ClearCart, ClosePayment, Add, TakeOne, RemoveLine
  <2> QED
    BY <1>0, <2>1, SharedStays
<1>2. CASE OpenRegister
  <2>1. \/ desks' = desks
        \/ WebPos \notin Range(desks) /\ desks' = Append(desks, WebPos)
    BY <1>2 DEF OpenRegister
  <2>2. desks' \in DeskLists /\ (desks # <<>> => desks' # <<>>)
    BY <1>0, <2>1, DeskOpened
  <2> QED
    BY <1>0, <1>2, <2>2 DEF OpenRegister, Quiet
<1>3. CASE OpenPayment
  <2>1. UNCHANGED <<sent, books, desks>>
    BY <1>3 DEF OpenPayment
  <2>2. \/ drawn' = drawn
        \/ drawn < MaxKeys /\ drawn' = drawn + 1
    BY <1>3 DEF OpenPayment
  <2>3. drawn' \in 0..MaxKeys /\ drawn <= drawn'
    BY <1>0, <2>2
  <2> QED
    BY <1>0, <2>1, <2>3 DEF Quiet
<1>4. CASE \E n \in DOMAIN sent : SaleSucceeds(n) \/ SaleFails(n)
  BY <1>0, <1>4, StopTells DEF SaleSucceeds, SaleFails
<1> QED
  BY <1>1, <1>2, <1>3, <1>4 DEF PosOther

\* So does the sales page with all but a submission.
SalesOther ==
  \/ Load \/ Close
  \/ \E k \in sales.listed, a \in {"return", "cancel"} : Start(k, a)
  \/ \E i \in Items : \E q \in 0..Shelf[i] : SetQuantity(i, q)
  \/ \E n \in DOMAIN sent : SubmitSucceeds(n) \/ SubmitFails(n)

\* The other actions of the sales page send nothing.
LEMMA SalesShapes ==
  ASSUME TypeOK, SalesOther
  PROVE  Quiet \/ Told
<1>0. SharedTypeOK /\ drawn \in 0..MaxKeys /\ MaxKeys \in Nat /\ desks \in DeskLists
  BY MaxAssumption DEF TypeOK, SharedTypeOK, DeskLists
<1>1. CASE Load \/ Close \/ \E i \in Items : \E q \in 0..Shelf[i] : SetQuantity(i, q)
  <2>1. UNCHANGED shared
    BY <1>1 DEF Load, Close, SetQuantity
  <2> QED
    BY <1>0, <2>1, SharedStays
<1>2. CASE \E k \in sales.listed, a \in {"return", "cancel"} : Start(k, a)
  <2>1. UNCHANGED <<sent, books, desks>> /\ drawn < MaxKeys /\ drawn' = drawn + 1
    BY <1>2 DEF Start
  <2>2. drawn' \in 0..MaxKeys /\ drawn <= drawn'
    BY <1>0, <2>1
  <2> QED
    BY <1>0, <2>1, <2>2 DEF Quiet
<1>3. CASE \E n \in DOMAIN sent : SubmitSucceeds(n) \/ SubmitFails(n)
  BY <1>0, <1>3, StopTells DEF SubmitSucceeds, SubmitFails
<1> QED
  BY <1>1, <1>2, <1>3 DEF SalesOther

\* Leaving a page gives up requests, and the API answers or books one.
LEMMA RestShapes ==
  ASSUME TypeOK, BooksHold, Navigate \/ Api
  PROVE  Quiet \/ Told \/ \E n \in DOMAIN sent : \E doc : Booked(n, doc)
<1>0. SharedTypeOK
  BY DEF TypeOK
<1>1. CASE Navigate
  <2>1. GivenUp /\ UNCHANGED <<books, desks, drawn>>
    BY <1>0, <1>1, AllGivenUp DEF Navigate
  <2> QED
    BY <2>1 DEF GivenUp, Told
<1>2. CASE OpenElsewhere
  <2>1. desks' \in DeskLists /\ (desks # <<>> => desks' # <<>>)
    BY <1>0, <1>2, DeskOpened DEF OpenElsewhere
  <2>2. drawn' = drawn /\ drawn \in Nat /\ drawn \in 0..MaxKeys
    BY <1>0, <1>2, RowTypes DEF OpenElsewhere, SharedTypeOK
  <2> QED
    BY <1>2, <2>1, <2>2 DEF OpenElsewhere, Quiet
<1>3. ASSUME NEW n, Serve(n)
      PROVE  Told \/ \E m \in DOMAIN sent : \E doc : Booked(m, doc)
  <2>1. n \in DOMAIN sent
    BY <1>3 DEF Serve
  <2> QED
    BY <1>0, <1>3, <2>1, ServeShape
<1> QED
  BY <1>1, <1>2, <1>3 DEF Api

----------------------------------------------------------------------------
\* Requests that only change their answers keep what they mean.
MeansNow(key, order, kind, invoice, basket) ==
  \A n \in DOMAIN sent' :
    /\ sent'[n].key = key <=> sent'[n].intent = order
    /\ sent'[n].key = key => Says(sent'[n].body, kind, invoice, basket)
MeansStill ==
  \A key, order, kind, invoice, basket :
    Means(key, order, kind, invoice, basket) =>
      MeansNow(key, order, kind, invoice, basket)

\* A request under a key means what it meant, whoever answers it.
LEMMA KeptMeans ==
  ASSUME Kept
  PROVE  MeansStill
BY DEF Kept, Means, MeansNow, MeansStill

\* The documents a step leaves are still documents.
LEMMA InvoicesStay ==
  ASSUME books' = books
  PROVE  /\ Invoices' = Invoices
         /\ \A k : Remaining(k)' = Remaining(k) /\ Cancelled(k)' = Cancelled(k)
BY DEF Invoices, Range, Remaining, Returned, CompensationsOf, Invoice, Cancelled

\* What is left of an invoice changes with the documents only.
LEMMA LeftStays ==
  ASSUME books' = books, Left
  PROVE  Left'
BY InvoicesStay DEF Left

\* Requests whose rows are kept are as sound as before.
LEMMA RequestsKept ==
  ASSUME SharedTypeOK, SharedTypeOK', Kept, Requests, OneKeyPerIntent,
         Invoices \subseteq Invoices',
         drawn <= drawn', desks # <<>> => desks' # <<>>
  PROVE  Requests' /\ OneKeyPerIntent'
<1>1. OneKeyPerIntent'
  BY DEF Kept, OneKeyPerIntent, SaysTheSame
<1>2. sent' # <<>> => sent # <<>>
  <2>1. /\ Len(sent') = Len(sent)
        /\ sent \in Seq(SentRequests) /\ sent' \in Seq(SentRequests)
    BY DEF Kept, SharedTypeOK
  <2> QED
    BY <2>1, EmptySeq
<1>3. /\ drawn \in Nat /\ drawn' \in Nat
      /\ \A n \in DOMAIN sent : sent[n].key \in Nat
  <2>1. drawn \in 0..MaxKeys /\ drawn' \in 0..MaxKeys
    BY DEF SharedTypeOK
  <2>2. \A n \in DOMAIN sent : sent[n].key \in Keys
    BY FieldTypes
  <2> QED
    BY <2>1, <2>2, MaxAssumption DEF Keys
<1>4. \A n \in DOMAIN sent' :
        /\ sent'[n].key <= drawn'
        /\ sent'[n].intent <= n
        /\ IF sent'[n].body.kind = "sale"
           THEN sent'[n].body.basket \in Baskets /\ sent'[n].body.invoice = None
           ELSE sent'[n].body.invoice \in Invoices'
  <2> SUFFICES ASSUME NEW n \in DOMAIN sent
               PROVE  /\ sent[n].key <= drawn'
                      /\ sent[n].intent <= n
                      /\ IF sent[n].body.kind = "sale"
                         THEN /\ sent[n].body.basket \in Baskets
                              /\ sent[n].body.invoice = None
                         ELSE sent[n].body.invoice \in Invoices'
    BY DEF Kept
  <2>1. /\ sent[n].key <= drawn
        /\ sent[n].intent <= n
        /\ IF sent[n].body.kind = "sale"
           THEN sent[n].body.basket \in Baskets /\ sent[n].body.invoice = None
           ELSE sent[n].body.invoice \in Invoices
    BY DEF Requests
  <2>2. sent[n].key <= drawn'
    BY <1>3, <2>1
  <2> QED
    BY <2>1, <2>2
<1>5. Len(sent') <= MaxSent
  BY DEF Kept, Requests
<1>6. sent' # <<>> => desks' # <<>>
  BY <1>2 DEF Requests
<1>7. Requests'
  BY <1>4, <1>5, <1>6 DEF Requests, Baskets
<1> QED
  BY <1>1, <1>7

\* A step that posts nothing keeps what is said of the books.
LEMMA QuietBooks ==
  ASSUME SharedTypeOK, SharedTypeOK', BooksHold, Quiet
  PROVE  BooksHold' /\ MeansStill /\ Kept
<1>0. /\ Requests /\ OneKeyPerIntent /\ Asked /\ AnswersHonest /\ Left
      /\ sent' = sent /\ books' = books
      /\ drawn <= drawn' /\ (desks # <<>> => desks' # <<>>)
  BY DEF BooksHold, Quiet
<1>1. Kept
  BY <1>0 DEF Kept
<1>2. Requests' /\ OneKeyPerIntent'
  BY <1>0, <1>1, RequestsKept, InvoicesStay
<1>3. Asked' /\ AnswersHonest' /\ Left'
  BY <1>0, LeftStays DEF Asked, AnswersHonest, Honest, SaysTheSame
<1> QED
  BY <1>1, <1>2, <1>3, KeptMeans DEF BooksHold

\* An answer adds no document.
LEMMA ToldBooks ==
  ASSUME SharedTypeOK, SharedTypeOK', BooksHold, Told
  PROVE  BooksHold' /\ MeansStill /\ Kept
<1>0. /\ Requests /\ OneKeyPerIntent /\ Asked /\ AnswersHonest /\ Left
      /\ Kept /\ books' = books /\ drawn' = drawn /\ desks' = desks
      /\ \A m \in DOMAIN sent : sent'[m].answer = sent[m].answer \/ Honest(sent'[m])
  BY DEF BooksHold, Told
<1>1. Requests' /\ OneKeyPerIntent'
  <2>1. drawn <= drawn'
    BY <1>0, RowTypes
  <2> QED
    BY <1>0, <2>1, RequestsKept, InvoicesStay
<1>2. Asked'
  BY <1>0 DEF Asked, Kept, SaysTheSame
<1>3. AnswersHonest'
  BY <1>0 DEF AnswersHonest, Honest, Kept
<1> QED
  BY <1>0, <1>1, <1>2, <1>3, LeftStays, KeptMeans DEF BooksHold

----------------------------------------------------------------------------
\* What the answers of the API leave of an invoice.
InvoicesFound ==
  \A i \in DOMAIN books : books[i].body.kind = "sale" =>
    Invoice(books[i].key) = books[i] /\ books[i].key \in Invoices

\* The invoice a compensation names is found among the documents.
LEMMA InvoiceIs ==
  Asked => InvoicesFound
<1> SUFFICES ASSUME Asked, NEW i \in DOMAIN books, books[i].body.kind = "sale"
             PROVE  Invoice(books[i].key) = books[i] /\ books[i].key \in Invoices
  BY DEF InvoicesFound
<1>1. books[i] \in Range(books)
  BY DEF Range
<1>2. \A d \in Range(books) : d.key = books[i].key => d = books[i]
  BY DEF Asked, Range
<1> QED
  BY <1>1, <1>2 DEF Invoice, Invoices

\* Every invoice is a document.
LEMMA InvoiceOf ==
  ASSUME SharedTypeOK, NEW k \in Invoices
  PROVE  /\ k \in Keys
         /\ \E i \in DOMAIN books : books[i].body.kind = "sale" /\ books[i].key = k
<1>1. \E i \in DOMAIN books : books[i].body.kind = "sale" /\ books[i].key = k
  BY DEF Invoices, Range
<1> QED
  BY <1>1, FieldTypes

\* The quantities of an item that came back, document by document.
Parts(k, x) == [n \in CompensationsOf(k) |-> books[n].body.basket[x]]

PartsTyped(k, x) ==
  /\ IsFiniteSet(CompensationsOf(k))
  /\ Parts(k, x) \in [CompensationsOf(k) -> Int]
  /\ \A n \in CompensationsOf(k) : Parts(k, x)[n] >= 0

AllPartsTyped == \A k : \A x \in Items : PartsTyped(k, x)

\* They are natural numbers, of finitely many documents.
LEMMA PartsType ==
  SharedTypeOK => AllPartsTyped
<1> SUFFICES ASSUME SharedTypeOK, NEW k, NEW x \in Items
             PROVE  PartsTyped(k, x)
  BY DEF AllPartsTyped
<1>1. IsFiniteSet(CompensationsOf(k)) /\ CompensationsOf(k) \subseteq DOMAIN books
  BY RowTypes, FS_Subset DEF CompensationsOf
<1>2. \A n \in CompensationsOf(k) : books[n].body.basket[x] \in Nat
  BY <1>1, FieldTypes
<1> QED
  BY <1>1, <1>2 DEF PartsTyped, Parts

\* What is left of an item.
LEMMA RemainingIs ==
  ASSUME NEW k, NEW x \in Items
  PROVE  Remaining(k)[x] = Invoice(k).body.basket[x] - SumFunction(Parts(k, x))
BY DEF Remaining, Returned, Parts

\* A document counts against its invoice, and against no other.
LEMMA PartsAfterPost ==
  ASSUME SharedTypeOK, SharedTypeOK', NEW k, NEW x \in Items, NEW doc, NEW N,
         N \notin DOMAIN books, DOMAIN books' = DOMAIN books \cup {N},
         books'[N] = doc, \A i \in DOMAIN books : books'[i] = books[i]
  PROVE  SumFunction(Parts(k, x)') = SumFunction(Parts(k, x))
           + (IF doc.body.invoice = k THEN doc.body.basket[x] ELSE 0)
<1>1. PartsTyped(k, x) /\ PartsTyped(k, x)'
  <2>1. AllPartsTyped /\ (SharedTypeOK => AllPartsTyped)'
    BY PartsType, PTL
  <2> QED
    BY <2>1 DEF AllPartsTyped
<1>2. /\ IsFiniteSet(CompensationsOf(k)) /\ Parts(k, x) \in [CompensationsOf(k) -> Int]
      /\ Parts(k, x)' \in [CompensationsOf(k)' -> Int]
  BY <1>1 DEF PartsTyped
<1>a. \A n \in CompensationsOf(k) : books'[n] = books[n]
  BY DEF CompensationsOf
<1>3. CASE doc.body.invoice = k
  <2>1. CompensationsOf(k)' = CompensationsOf(k) \cup {N} /\ N \notin CompensationsOf(k)
    BY <1>3 DEF CompensationsOf
  <2>2. /\ \A n \in CompensationsOf(k) : Parts(k, x)'[n] = Parts(k, x)[n]
        /\ Parts(k, x)'[N] = doc.body.basket[x]
    BY <1>a, <2>1 DEF Parts
  <2> DEFINE S == CompensationsOf(k)
             T == CompensationsOf(k)'
             f == Parts(k, x)
             g == Parts(k, x)'
  <2>3. /\ IsFiniteSet(S) /\ N \notin S /\ T = S \cup {N}
        /\ f \in [S -> Int] /\ g \in [T -> Int] /\ \A n \in S : g[n] = f[n]
    BY <1>2, <2>1, <2>2
  <2> HIDE DEF S, T, f, g
  <2>4. SumFunction(g) = SumFunction(f) + g[N]
    BY <2>3, SumGrows
  <2> QED
    BY <1>3, <2>2, <2>4 DEF f, g
<1>4. CASE doc.body.invoice # k
  <2>1. CompensationsOf(k)' = CompensationsOf(k)
    BY <1>4 DEF CompensationsOf
  <2>2. Parts(k, x)' = Parts(k, x)
    BY <1>a, <2>1 DEF Parts
  <2>3. SumFunction(Parts(k, x)) \in Int
    BY <1>2, SumType
  <2> QED
    BY <1>4, <2>2, <2>3
<1> QED
  BY <1>3, <1>4

\* What a document takes of an invoice was left of it, and of a new invoice
\* everything is left.
LEMMA LeftBooked ==
  ASSUME SharedTypeOK, SharedTypeOK', Requests, Asked, Asked', Left,
         NEW n \in DOMAIN sent, NEW doc, Booked(n, doc)
  PROVE  Left' /\ Invoices \subseteq Invoices'
<1>1. books \in Seq(Documents) /\ doc \in Documents /\ books' = Append(books, doc)
  BY DEF SharedTypeOK, Booked
<1>2. PICK N \in Nat \ {0} :
        /\ N \notin DOMAIN books /\ DOMAIN books' = DOMAIN books \cup {N}
        /\ books'[N] = doc /\ \A i \in DOMAIN books : books'[i] = books[i]
  BY <1>1, RowAppended
<1>3. InvoicesFound /\ InvoicesFound'
  BY InvoiceIs, PTL
<1>4. /\ doc.body \in Bodies /\ doc.body.basket \in [Items -> Nat]
  BY <1>1 DEF Documents, Bodies
<1>5. \A k \in Keys : doc.body.invoice = k => doc.body.kind # "sale"
  <2>1. doc.body.kind = "sale" => doc.body.invoice = None
    BY DEF Booked, Requests
  <2> QED
    BY <2>1, KeysAreNumbers
<1>6. ASSUME NEW k \in Invoices
      PROVE  /\ k \in Invoices'
             /\ \A x \in Items : Remaining(k)'[x] \in Nat /\ Remaining(k)'[x] <= Shelf[x]
  <2>1. PICK i \in DOMAIN books : books[i].body.kind = "sale" /\ books[i].key = k
    BY InvoiceOf
  <2>2. Invoice(k) = books[i] /\ Invoice(k)' = books[i] /\ k \in Invoices'
    BY <1>2, <1>3, <2>1 DEF InvoicesFound
  <2>3. ASSUME NEW x \in Items
        PROVE  Remaining(k)'[x] \in Nat /\ Remaining(k)'[x] <= Shelf[x]
    <3> DEFINE old == SumFunction(Parts(k, x))
               back == IF doc.body.invoice = k THEN doc.body.basket[x] ELSE 0
    <3>1. SumFunction(Parts(k, x)') = old + back
      BY <1>2, PartsAfterPost
    <3>2. Remaining(k)[x] = Invoice(k).body.basket[x] - old
      BY RemainingIs
    <3>3. Remaining(k)'[x] = Invoice(k)'.body.basket[x] - SumFunction(Parts(k, x)')
      BY DEF Remaining, Returned, Parts
    <3>4. Remaining(k)[x] \in Nat /\ Remaining(k)[x] <= Shelf[x] /\ Shelf[x] \in Nat
      BY ShelfAssumption DEF Left, Baskets
    <3>5. back \in Nat /\ back <= Remaining(k)[x]
      <4>1. k \in Keys
        BY InvoiceOf
      <4>2. doc.body.invoice = k => doc.body.basket[x] <= Remaining(k)[x]
        BY <1>5, <4>1 DEF Booked
      <4> QED
        BY <1>4, <3>4, <4>2
    <3>6. old \in Int /\ books[i].body.basket[x] \in Int
      <4>1. PartsTyped(k, x)
        BY PartsType DEF AllPartsTyped
      <4>2. old \in Int
        BY <4>1, SumType DEF PartsTyped
      <4> QED
        BY <4>2, FieldTypes
    <3> HIDE DEF old, back
    <3> QED
      BY <2>2, <3>1, <3>2, <3>3, <3>4, <3>5, <3>6
  <2> QED
    BY <2>2, <2>3
<1>7. ASSUME NEW k \in Invoices', k \notin Invoices
      PROVE  \A x \in Items : Remaining(k)'[x] \in Nat /\ Remaining(k)'[x] <= Shelf[x]
  <2>1. doc.body.kind = "sale" /\ doc.key = k /\ k \in Keys
    <3>1. \E i \in DOMAIN books' : books'[i].body.kind = "sale" /\ books'[i].key = k
      BY <1>7 DEF Invoices, Range
    <3>2. \A i \in DOMAIN books : books[i].body.kind = "sale" => books[i].key # k
      BY <1>3, <1>7 DEF InvoicesFound
    <3>3. doc.key \in Keys
      BY <1>1 DEF Documents
    <3> QED
      BY <1>2, <3>1, <3>2, <3>3
  <2>2. Invoice(k)' = doc /\ doc.body = sent[n].body /\ doc.body.basket \in Baskets
    <3>1. Invoice(k)' = doc
      BY <1>2, <1>3, <2>1 DEF InvoicesFound
    <3> QED
      BY <2>1, <3>1 DEF Booked, Requests
  <2>3. CompensationsOf(k)' = {}
    <3> SUFFICES ASSUME NEW i \in DOMAIN books', books'[i].body.invoice = k
                 PROVE  FALSE
      BY DEF CompensationsOf
    <3>1. i \in DOMAIN books /\ books[i].body.invoice = k
      BY <1>2, <1>5, <2>1
    <3>2. PICK m \in DOMAIN sent : SaysTheSame(books[i].body, sent[m].body)
      BY <3>1 DEF Asked
    <3>3. sent[m].body.invoice = k
      BY <3>1, <3>2 DEF SaysTheSame, Says
    <3> QED
      BY <1>7, <2>1, <3>3, KeysAreNumbers DEF Requests
  <2>4. ASSUME NEW x \in Items
        PROVE  Remaining(k)'[x] \in Nat /\ Remaining(k)'[x] <= Shelf[x]
    <3>1. SumFunction(Parts(k, x)') = 0
      <4>1. DOMAIN (Parts(k, x)') = {}
        BY <2>3 DEF Parts
      <4> QED
        BY <4>1, SumEmpty
    <3>2. Remaining(k)'[x] = Invoice(k)'.body.basket[x] - SumFunction(Parts(k, x)')
      BY DEF Remaining, Returned, Parts
    <3>3. doc.body.basket[x] \in Nat /\ doc.body.basket[x] <= Shelf[x]
      BY <2>2 DEF Baskets
    <3> QED
      BY <2>2, <3>1, <3>2, <3>3
  <2> QED
    BY <2>4
<1>8. \A k : Remaining(k)' = [x \in Items |-> Remaining(k)'[x]]
  BY DEF Remaining
<1>9. \A k \in Invoices' : Remaining(k)' \in Baskets
  <2> SUFFICES ASSUME NEW k \in Invoices'
               PROVE  Remaining(k)' \in Baskets
    OBVIOUS
  <2>1. \A x \in Items : Remaining(k)'[x] \in Nat /\ Remaining(k)'[x] <= Shelf[x]
    BY <1>6, <1>7
  <2>2. Remaining(k)' = [x \in Items |-> Remaining(k)'[x]]
    BY <1>8
  <2> QED
    BY <2>1, <2>2 DEF Baskets
<1> QED
  BY <1>6, <1>9 DEF Left, Baskets

\* Posting a document keeps what is said of the books.
LEMMA BookedBooks ==
  ASSUME SharedTypeOK, SharedTypeOK', BooksHold, NEW n \in DOMAIN sent, NEW doc,
         Booked(n, doc)
  PROVE  BooksHold' /\ MeansStill /\ Kept /\ Invoices \subseteq Invoices'
<1>0. /\ Requests /\ OneKeyPerIntent /\ Asked /\ AnswersHonest /\ Left
      /\ Kept /\ drawn' = drawn /\ desks' = desks
      /\ books \in Seq(Documents) /\ doc \in Documents /\ books' = Append(books, doc)
      /\ doc.key = sent[n].key /\ doc.intent = sent[n].intent
      /\ \A i \in DOMAIN books : books[i].key # doc.key
  BY DEF BooksHold, Booked, SharedTypeOK
<1>1. PICK N \in Nat \ {0} :
        /\ N \notin DOMAIN books /\ DOMAIN books' = DOMAIN books \cup {N}
        /\ books'[N] = doc /\ \A i \in DOMAIN books : books'[i] = books[i]
  BY <1>0, RowAppended
<1>2. Asked'
  <2>1. SaysTheSame(doc.body, sent[n].body)
    BY DEF Booked, SaysTheSame, Says
  <2>2. ASSUME NEW i \in DOMAIN books'
        PROVE  \E m \in DOMAIN sent' :
                 /\ books'[i].key = sent'[m].key
                 /\ books'[i].intent = sent'[m].intent
                 /\ SaysTheSame(books'[i].body, sent'[m].body)
    <3>1. CASE i = N
      BY <1>0, <1>1, <2>1, <3>1 DEF Kept
    <3>2. CASE i \in DOMAIN books
      <4>1. PICK m \in DOMAIN sent :
              /\ books[i].key = sent[m].key
              /\ books[i].intent = sent[m].intent
              /\ SaysTheSame(books[i].body, sent[m].body)
        BY <1>0, <3>2 DEF Asked
      <4> QED
        BY <1>0, <1>1, <3>2, <4>1 DEF Kept
    <3> QED
      BY <1>1, <3>1, <3>2
  <2>3. \A i, j \in DOMAIN books' : books'[i].key = books'[j].key => i = j
    BY <1>0, <1>1 DEF Asked
  <2> QED
    BY <2>2, <2>3 DEF Asked, SaysTheSame
<1>3. AnswersHonest'
  <2> SUFFICES ASSUME NEW m \in DOMAIN sent',
                      sent'[m].body.kind = "sale", sent'[m].answer = "ok"
               PROVE  \E i \in DOMAIN books' : /\ books'[i].key = sent'[m].key
                                               /\ books'[i].body = sent'[m].body
    BY DEF AnswersHonest, Honest
  <2>1. CASE m = n
    <3>1. sent[n].body.kind = "sale"
      BY <1>0, <2>1 DEF Kept
    <3>2. doc.body = sent[n].body
      BY <3>1 DEF Booked
    <3> QED
      BY <1>0, <1>1, <2>1, <3>2 DEF Kept
  <2>2. CASE m # n
    <3>1. sent[m].body.kind = "sale" /\ sent[m].answer = "ok" /\ m \in DOMAIN sent
      BY <2>2 DEF Kept, Booked
    <3>2. PICK i \in DOMAIN books : /\ books[i].key = sent[m].key
                                    /\ books[i].body = sent[m].body
      BY <1>0, <3>1 DEF AnswersHonest, Honest
    <3> QED
      BY SMTT(60), <1>0, <1>1, <3>1, <3>2 DEF Kept
  <2> QED
    BY <2>1, <2>2
<1>4. Left' /\ Invoices \subseteq Invoices'
  BY <1>0, <1>2, LeftBooked
<1>5. Requests' /\ OneKeyPerIntent'
  <2>1. drawn <= drawn'
    BY <1>0, RowTypes
  <2> QED
    BY <1>0, <1>4, <2>1, RequestsKept
<1> QED
  BY <1>0, <1>2, <1>3, <1>4, <1>5, KeptMeans DEF BooksHold

\* A request that is sent is the last one, and the others stay.
Sent(key, intent, body) ==
  /\ Len(sent') = Len(sent) + 1
  /\ DOMAIN sent' = DOMAIN sent \cup {Len(sent) + 1}
  /\ Len(sent) + 1 \notin DOMAIN sent
  /\ sent'[Len(sent) + 1].key = key
  /\ sent'[Len(sent) + 1].intent = intent
  /\ sent'[Len(sent) + 1].body = body
  /\ sent'[Len(sent) + 1].answer = None
  /\ \A n \in DOMAIN sent : sent'[n] = sent[n]
  /\ sent' \in Seq(SentRequests)

\* A sent request is the last of the requests; the others stay.
LEMMA SendAppends ==
  ASSUME SharedTypeOK, NEW key \in Keys, NEW intent \in 1..MaxSent, NEW body \in Bodies,
         Send(key, intent, body)
  PROVE  Sent(key, intent, body)
<1> DEFINE r == [key |-> key, intent |-> intent, body |-> body,
                 answer |-> None, waiting |-> TRUE]
<1>1. sent' = Append(sent, r) /\ sent \in Seq(SentRequests)
  BY DEF Send, SharedTypeOK
<1>2. r \in SentRequests
  BY DEF SentRequests
<1>3. r.key = key /\ r.intent = intent /\ r.body = body /\ r.answer = None
  OBVIOUS
<1> HIDE DEF r
<1>4. /\ sent' \in Seq(SentRequests) /\ Len(sent') = Len(sent) + 1
      /\ sent'[Len(sent) + 1] = r
      /\ \A n \in 1..Len(sent) : sent'[n] = sent[n]
  BY <1>1, <1>2, AppendProperties
<1>5. /\ Len(sent) \in Nat /\ DOMAIN sent = 1..Len(sent)
      /\ DOMAIN sent' = 1..Len(sent')
  BY <1>4, RowTypes, LenProperties
<1>6. /\ 1..(Len(sent) + 1) = 1..Len(sent) \cup {Len(sent) + 1}
      /\ Len(sent) + 1 \notin 1..Len(sent)
  BY <1>5
<1> QED
  BY <1>3, <1>4, <1>5, <1>6 DEF Sent

\* Sending under a key that has a meaning keeps keys, intents and meanings
\* together.
LEMMA AskingKeeps ==
  ASSUME SharedTypeOK, BooksHold, NEW order, NEW key, NEW intent, NEW body,
         Asking(order, key, intent, body)
  PROVE  /\ Sent(key, intent, body)
         /\ intent \in 1..MaxSent /\ Len(sent) < MaxSent
         /\ OneKeyPerIntent'
         /\ MeansNow(key, intent, body.kind, body.invoice, body.basket)
<1> DEFINE N == Len(sent) + 1
<1>1. /\ Len(sent) \in Nat /\ DOMAIN sent = 1..Len(sent) /\ Len(sent) < MaxSent
      /\ MaxSent \in Nat /\ order \in 0..Len(sent)
      /\ intent = IF order = 0 THEN N ELSE order
  BY RowTypes DEF Asking, Sends, Send
<1>2. intent \in 1..MaxSent /\ intent \in 1..N
  BY <1>1
<1>3. Sent(key, intent, body)
  BY <1>2, SendAppends DEF Asking, Sends
<1>4. /\ DOMAIN sent' = DOMAIN sent \cup {N} /\ N \notin DOMAIN sent
      /\ sent'[N].key = key /\ sent'[N].intent = intent /\ sent'[N].body = body
      /\ \A n \in DOMAIN sent : sent'[n] = sent[n]
  BY <1>3 DEF Sent
<1>5. \A n \in DOMAIN sent :
        /\ sent[n].key = key <=> sent[n].intent = intent
        /\ sent[n].key = key => SaysTheSame(sent[n].body, body)
  <2> SUFFICES ASSUME NEW n \in DOMAIN sent
               PROVE  /\ sent[n].key = key <=> sent[n].intent = intent
                      /\ sent[n].key = key => SaysTheSame(sent[n].body, body)
    OBVIOUS
  <2>1. /\ sent[n].key = key <=> sent[n].intent = order
        /\ sent[n].key = key => Says(sent[n].body, body.kind, body.invoice, body.basket)
    BY DEF Asking, Means
  <2>2. sent[n].intent \in Nat /\ sent[n].intent # 0 /\ sent[n].intent <= n
    BY FieldTypes DEF BooksHold, Requests
  <2>3. sent[n].intent = order <=> sent[n].intent = intent
    <3>1. n <= Len(sent) /\ n \in Nat
      BY <1>1
    <3> QED
      BY <1>1, <2>2, <3>1
  <2> QED
    BY <2>1, <2>3 DEF SaysTheSame
<1>6. SaysTheSame(body, body)
  BY DEF SaysTheSame, Says
<1> HIDE DEF N
<1>7. \A m, n \in DOMAIN sent' :
        /\ sent'[m].key = sent'[n].key <=> sent'[m].intent = sent'[n].intent
        /\ sent'[m].key = sent'[n].key => SaysTheSame(sent'[m].body, sent'[n].body)
  <2> SUFFICES ASSUME NEW m \in DOMAIN sent', NEW n \in DOMAIN sent'
        PROVE  /\ sent'[m].key = sent'[n].key <=> sent'[m].intent = sent'[n].intent
               /\ sent'[m].key = sent'[n].key =>
                    SaysTheSame(sent'[m].body, sent'[n].body)
    OBVIOUS
  <2>1. CASE m \in DOMAIN sent /\ n \in DOMAIN sent
    BY <1>4, <2>1 DEF BooksHold, OneKeyPerIntent
  <2>2. CASE m \in DOMAIN sent /\ n = N
    BY <1>4, <1>5, <2>2
  <2>3. CASE m = N /\ n \in DOMAIN sent
    <3>1. SaysTheSame(sent[n].body, body) => SaysTheSame(body, sent[n].body)
      BY DEF SaysTheSame, Says
    <3> QED
      BY <1>4, <1>5, <2>3, <3>1
  <2>4. CASE m = N /\ n = N
    <3>1. m = n /\ sent'[n].body = body
      BY <1>4, <2>4
    <3> QED
      BY <1>6, <3>1
  <2> QED
    BY <1>4, <2>1, <2>2, <2>3, <2>4
<1>8. OneKeyPerIntent'
  BY <1>7 DEF OneKeyPerIntent, SaysTheSame
<1>9. MeansNow(key, intent, body.kind, body.invoice, body.basket)
  BY <1>4, <1>5, <1>6 DEF MeansNow, SaysTheSame
<1> QED
  BY <1>1, <1>2, <1>3, <1>8, <1>9

\* A request that has just been sent adds no document.
LEMMA AskingBooks ==
  ASSUME SharedTypeOK, BooksHold, NEW order, NEW key, NEW intent, NEW body,
         Asking(order, key, intent, body)
  PROVE  BooksHold'
<1> DEFINE N == Len(sent) + 1
<1>1. /\ Requests /\ Asked /\ AnswersHonest /\ Left
      /\ books' = books /\ drawn' = drawn /\ desks' = desks /\ desks # <<>>
      /\ key <= drawn
      /\ IF body.kind = "sale"
         THEN body.basket \in Baskets /\ body.invoice = None
         ELSE body.invoice \in Invoices
  BY DEF BooksHold, Asking, Sends
<1>2. /\ intent \in 1..MaxSent /\ Len(sent) < MaxSent /\ OneKeyPerIntent'
      /\ Len(sent') = N
      /\ DOMAIN sent' = DOMAIN sent \cup {N} /\ N \notin DOMAIN sent
      /\ sent'[N].key = key /\ sent'[N].intent = intent /\ sent'[N].body = body
      /\ sent'[N].answer = None
      /\ \A n \in DOMAIN sent : sent'[n] = sent[n]
  BY AskingKeeps DEF Sent
<1>3. intent <= N /\ N <= MaxSent
  <2>1. Len(sent) \in Nat /\ order \in 0..Len(sent)
        /\ intent = IF order = 0 THEN N ELSE order
    BY RowTypes DEF Asking
  <2> QED
    BY <1>2, <2>1, MaxAssumption
<1> HIDE DEF N
<1>4. Requests'
  <2>1. \A n \in DOMAIN sent' :
          /\ sent'[n].key <= drawn'
          /\ sent'[n].intent <= n
          /\ IF sent'[n].body.kind = "sale"
             THEN sent'[n].body.basket \in Baskets /\ sent'[n].body.invoice = None
             ELSE sent'[n].body.invoice \in Invoices'
    BY <1>1, <1>2, <1>3, InvoicesStay DEF Requests
  <2> QED
    BY <1>1, <1>2, <1>3, <2>1 DEF Requests, Baskets
<1>5. Asked'
  BY <1>1, <1>2 DEF Asked, SaysTheSame
<1>6. AnswersHonest'
  <2>1. None # "ok"
    BY NoneAssumption DEF Answers
  <2> QED
    BY <1>1, <1>2, <2>1 DEF AnswersHonest, Honest
<1>7. Left'
  BY <1>1, LeftStays
<1> QED
  BY <1>2, <1>4, <1>5, <1>6, <1>7 DEF BooksHold

----------------------------------------------------------------------------
\* What a step that sends nothing leaves to the pages.
Carried ==
  /\ Kept
  /\ MeansStill
  /\ drawn <= drawn' /\ drawn \in Nat /\ drawn' \in Nat
  /\ desks # <<>> => desks' # <<>>
  /\ Invoices \subseteq Invoices'

\* Each shape keeps the types of the requests and documents.
LEMMA SharedTypes ==
  ASSUME SharedTypeOK, BooksHold,
         \/ Quiet \/ Told
         \/ \E n \in DOMAIN sent : \E doc : Booked(n, doc)
         \/ \E order, key, intent, body : Asking(order, key, intent, body)
  PROVE  SharedTypeOK'
<1>0. /\ sent \in Seq(SentRequests) /\ books \in Seq(Documents)
      /\ desks \in DeskLists /\ drawn \in 0..MaxKeys
  BY DEF SharedTypeOK, DeskLists
<1>1. CASE Quiet
  BY <1>0, <1>1 DEF Quiet, SharedTypeOK, DeskLists
<1>2. CASE Told
  BY <1>0, <1>2 DEF Told, SharedTypeOK, DeskLists
<1>3. ASSUME NEW n, NEW doc, Booked(n, doc)
      PROVE  SharedTypeOK'
  <2>1. books' \in Seq(Documents)
    BY <1>0, <1>3, AppendProperties DEF Booked
  <2> QED
    BY <1>0, <1>3, <2>1 DEF Booked, SharedTypeOK, DeskLists
<1>4. ASSUME NEW order, NEW key, NEW intent, NEW body, Asking(order, key, intent, body)
      PROVE  SharedTypeOK'
  <2>1. sent' \in Seq(SentRequests)
    BY <1>4, AskingKeeps DEF Sent
  <2> QED
    BY <1>0, <1>4, <2>1 DEF Asking, Sends, SharedTypeOK, DeskLists
<1> QED
  BY <1>1, <1>2, <1>3, <1>4

\* The steps that send nothing carry the documents and their meaning along.
LEMMA StepCarries ==
  ASSUME SharedTypeOK, BooksHold,
         \/ Quiet \/ Told
         \/ \E n \in DOMAIN sent : \E doc : Booked(n, doc)
  PROVE  SharedTypeOK' /\ BooksHold' /\ Carried
<1>0. SharedTypeOK'
  BY SharedTypes
<1>1. drawn \in Nat /\ drawn' \in Nat
  BY <1>0, MaxAssumption DEF SharedTypeOK
<1>2. CASE Quiet
  <2>1. BooksHold' /\ MeansStill /\ Kept
    BY <1>0, <1>2, QuietBooks
  <2>2. Invoices \subseteq Invoices'
    BY <1>2, InvoicesStay DEF Quiet
  <2> QED
    BY <1>0, <1>1, <1>2, <2>1, <2>2 DEF Quiet, Carried
<1>3. CASE Told
  <2>1. BooksHold' /\ MeansStill /\ Kept
    BY <1>0, <1>3, ToldBooks
  <2>2. Invoices \subseteq Invoices' /\ drawn' = drawn /\ desks' = desks
    BY <1>3, InvoicesStay DEF Told
  <2> QED
    BY <1>0, <1>1, <2>1, <2>2 DEF Carried
<1>4. ASSUME NEW n \in DOMAIN sent, NEW doc, Booked(n, doc)
      PROVE  BooksHold' /\ Carried
  <2>1. BooksHold' /\ MeansStill /\ Kept /\ Invoices \subseteq Invoices'
    BY <1>0, <1>4, BookedBooks
  <2>2. drawn' = drawn /\ desks' = desks
    BY <1>4 DEF Booked
  <2> QED
    BY <1>0, <1>1, <2>1, <2>2 DEF Carried
<1> QED
  BY <1>0, <1>2, <1>3, <1>4

----------------------------------------------------------------------------
\* The POS page after a step.
PosRightNow(page) ==
  /\ page.register = "open" => desks' # <<>>
  /\ page.order <= Len(sent')
  /\ IF page.key = None THEN page.order = 0
     ELSE /\ page.key <= drawn'
          /\ MeansNow(page.key, page.order, "sale", None, page.cart)
  /\ page.receipt # 0 =>
       /\ page.receipt \in DOMAIN sent'
       /\ sent'[page.receipt].body.kind = "sale"
       /\ sent'[page.receipt].answer = "ok"

\* What is right of the page stays so when others act.
LEMMA PosCarried ==
  ASSUME Carried, NEW page \in PosStates, PosRight(page)
  PROVE  PosRightNow(page)
<1>1. page.register = "open" => desks' # <<>>
  BY DEF Carried, PosRight
<1>2. page.order <= Len(sent')
  BY DEF Carried, Kept, PosRight
<1>4. ASSUME page.key # None
      PROVE  /\ page.key <= drawn'
             /\ MeansNow(page.key, page.order, "sale", None, page.cart)
  <2>1. page.key \in Nat
    BY <1>4, KeysAreNumbers DEF PosStates
  <2>2. /\ page.key <= drawn
        /\ Means(page.key, page.order, "sale", None, page.cart)
    BY <1>4 DEF PosRight
  <2>3. page.key <= drawn'
    BY <2>1, <2>2 DEF Carried
  <2> QED
    BY <2>2, <2>3 DEF Carried, MeansStill
<1>5. page.receipt # 0 =>
        /\ page.receipt \in DOMAIN sent'
        /\ sent'[page.receipt].body.kind = "sale"
        /\ sent'[page.receipt].answer = "ok"
  BY DEF Carried, Kept, PosRight
<1>6. IF page.key = None THEN page.order = 0
      ELSE /\ page.key <= drawn'
           /\ MeansNow(page.key, page.order, "sale", None, page.cart)
  BY <1>4 DEF PosRight
<1> QED
  BY <1>1, <1>2, <1>5, <1>6 DEF PosRightNow

\* A page that starts afresh holds no key.
LEMMA FreshPosRight ==
  ASSUME SharedTypeOK'
  PROVE  FreshPos \in PosStates /\ PosRightNow(FreshPos)
<1>1. /\ FreshPos.register = "loading" /\ FreshPos.order = 0 /\ FreshPos.key = None
      /\ FreshPos.receipt = 0
  BY DEF FreshPos
<1>2. NoItems \in Baskets /\ 0 \in 0..MaxSent
  BY ShelfAssumption, MaxAssumption DEF NoItems, Baskets
<1>3. 0 <= Len(sent')
  <2>1. Len(sent') \in Nat
    BY LenProperties DEF SharedTypeOK
  <2> QED
    BY <2>1
<1>4. PosRightNow(FreshPos)
  BY <1>1, <1>3 DEF PosRightNow
<1> QED
  BY <1>2, <1>4 DEF FreshPos, PosStates

\* An edit drops the key with the cart it was for.
LEMMA EditRight ==
  ASSUME pos \in PosStates, NEW cart \in Baskets, PosRightNow(pos), SharedTypeOK'
  PROVE  Edited(cart) \in PosStates /\ PosRightNow(Edited(cart))
<1> DEFINE page == Edited(cart)
<1>0. page = [pos EXCEPT !.cart = cart, !.key = None, !.sale = "idle", !.order = 0]
  BY DEF Edited
<1> HIDE DEF page
<1>1. /\ page \in PosStates /\ page.register = pos.register /\ page.order = 0
      /\ page.key = None /\ page.receipt = pos.receipt
  <2>1. 0 \in 0..MaxSent
    BY MaxAssumption
  <2> QED
    BY <1>0, <2>1 DEF PosStates
<1>2. 0 <= Len(sent')
  <2>1. Len(sent') \in Nat
    BY LenProperties DEF SharedTypeOK
  <2> QED
    BY <2>1
<1>3. PosRightNow(page)
  BY <1>1, <1>2 DEF PosRightNow
<1> QED
  BY <1>1, <1>3 DEF page

\* The edits of the cart stay on the shelf.
LEMMA EditsOnShelf ==
  ASSUME pos \in PosStates
  PROVE  /\ NoItems \in Baskets
         /\ \A i \in Items :
              /\ [pos.cart EXCEPT ![i] = OneMore(i)] \in Baskets
              /\ pos.cart[i] > 0 => [pos.cart EXCEPT ![i] = @ - 1] \in Baskets
              /\ [pos.cart EXCEPT ![i] = 0] \in Baskets
<1>1. /\ pos.cart \in [Items -> Nat] /\ Shelf \in [Items -> Nat]
      /\ \A i \in Items : pos.cart[i] <= Shelf[i]
  BY ShelfAssumption DEF PosStates, Baskets
<1>2. NoItems \in Baskets
  BY <1>1 DEF NoItems, Baskets
<1>3. ASSUME NEW i \in Items
      PROVE  /\ [pos.cart EXCEPT ![i] = OneMore(i)] \in Baskets
             /\ pos.cart[i] > 0 => [pos.cart EXCEPT ![i] = @ - 1] \in Baskets
             /\ [pos.cart EXCEPT ![i] = 0] \in Baskets
  <2>1. \A q \in Nat : q <= Shelf[i] => [pos.cart EXCEPT ![i] = q] \in Baskets
    BY <1>1 DEF Baskets
  <2>2. OneMore(i) \in Nat /\ OneMore(i) <= Shelf[i]
    BY <1>1 DEF OneMore
  <2>3. pos.cart[i] > 0 => pos.cart[i] - 1 \in Nat /\ pos.cart[i] - 1 <= Shelf[i]
    BY <1>1
  <2> QED
    BY <1>1, <2>1, <2>2, <2>3
<1> QED
  BY <1>2, <1>3

\* What is said of the page now is said of it after the step.
LEMMA PosNow == PosRightNow(pos') => PosRight(pos)'
BY DEF PosRightNow, PosRight, MeansNow, Means

\* A key that is drawn has no meaning yet.
LEMMA NewKeyMeans ==
  ASSUME SharedTypeOK, Requests, UNCHANGED sent, NEW kind, NEW invoice, NEW basket
  PROVE  MeansNow(drawn + 1, 0, kind, invoice, basket)
<1> SUFFICES ASSUME NEW n \in DOMAIN sent
             PROVE  sent[n].key # drawn + 1 /\ sent[n].intent # 0
  BY DEF MeansNow
<1>1. sent[n].key \in Nat /\ drawn \in Nat /\ sent[n].intent # 0
  BY FieldTypes, RowTypes DEF Keys
<1>2. sent[n].key <= drawn
  BY DEF Requests
<1> QED
  BY <1>1, <1>2

\* What the POS page does to itself leaves it right.
LEMMA PosStep ==
  ASSUME TypeOK, BooksHold, PosRight(pos), PosOther, Carried, SharedTypeOK'
  PROVE  pos' \in PosStates /\ PosRightNow(pos')
<1>0. /\ SharedTypeOK /\ pos \in PosStates /\ PosRightNow(pos) /\ Requests
      /\ Len(sent') \in Nat /\ 0 <= Len(sent') /\ 0 \in 0..MaxSent
  <2>1. Len(sent') \in Nat
    BY LenProperties DEF SharedTypeOK
  <2> QED
    BY <2>1, PosCarried, MaxAssumption DEF TypeOK, BooksHold
<1>1. CASE LoadWorkspace
  <2>1. pos' = [pos EXCEPT !.register = Known] /\ desks' = desks
    BY <1>1 DEF LoadWorkspace, shared
  <2>2. Known \in {"open", "shut"} /\ (Known = "open" => desks # <<>>)
    BY DEF Known, Range
  <2>3. /\ pos' \in PosStates /\ pos'.register = Known
        /\ pos'.cart = pos.cart /\ pos'.key = pos.key /\ pos'.order = pos.order
        /\ pos'.receipt = pos.receipt
    BY <1>0, <2>1, <2>2 DEF PosStates
  <2> QED
    BY <1>0, <2>1, <2>2, <2>3 DEF PosRightNow
<1>2. CASE OpenRegister
  <2>1. PICK told \in {"shut", "open"} : pos' = [pos EXCEPT !.register = told]
    BY <1>2 DEF OpenRegister
  <2>2. desks' # <<>>
    <3>1. CASE WebPos \in Range(desks)
      BY <1>2, <3>1 DEF OpenRegister, Range
    <3>2. CASE WebPos \notin Range(desks)
      BY <1>0, <1>2, <3>2, DeskOpened DEF OpenRegister
    <3> QED
      BY <3>1, <3>2
  <2>3. /\ pos' \in PosStates /\ pos'.register = told
        /\ pos'.cart = pos.cart /\ pos'.key = pos.key /\ pos'.order = pos.order
        /\ pos'.receipt = pos.receipt
    BY <1>0, <2>1 DEF PosStates
  <2> QED
    BY <1>0, <2>2, <2>3 DEF PosRightNow
<1>3. CASE ClearCart \/ \E i \in Items : Add(i) \/ TakeOne(i) \/ RemoveLine(i)
  <2>1. PICK cart \in Baskets : pos' = Edited(cart)
    BY <1>0, <1>3, EditsOnShelf DEF ClearCart, Add, TakeOne, RemoveLine
  <2> QED
    BY <1>0, <2>1, EditRight
<1>4. CASE OpenPayment
  <2>1. CASE pos.key # None
    <3>1. pos' = [pos EXCEPT !.paying = TRUE]
      BY <1>4, <2>1 DEF OpenPayment, NeedsKey
    <3>2. /\ pos' \in PosStates /\ pos'.register = pos.register
          /\ pos'.cart = pos.cart /\ pos'.key = pos.key /\ pos'.order = pos.order
          /\ pos'.receipt = pos.receipt
      BY <1>0, <3>1 DEF PosStates
    <3> QED
      BY <1>0, <3>2 DEF PosRightNow
  <2>2. CASE pos.key = None
    <3>1. /\ drawn' = drawn + 1 /\ drawn < MaxKeys /\ UNCHANGED sent
          /\ pos' = [pos EXCEPT !.paying = TRUE, !.key = drawn + 1]
      BY <1>4, <2>2 DEF OpenPayment, NeedsKey
    <3>2. drawn \in Nat /\ drawn + 1 \in Keys /\ drawn + 1 # None
      BY <1>0, <3>1, RowTypes, KeysAreNumbers DEF Keys
    <3>3. /\ pos' \in PosStates /\ pos'.register = pos.register
          /\ pos'.cart = pos.cart /\ pos'.key = drawn + 1 /\ pos'.order = pos.order
          /\ pos'.receipt = pos.receipt
      BY <1>0, <3>1, <3>2 DEF PosStates
    <3>4. pos.order = 0
      BY <2>2 DEF PosRight
    <3>5. MeansNow(pos'.key, pos'.order, "sale", None, pos'.cart)
      BY <1>0, <3>1, <3>3, <3>4, NewKeyMeans
    <3>6. pos'.key <= drawn' /\ pos'.key # None
      BY <3>1, <3>2, <3>3
    <3> QED
      BY <1>0, <3>3, <3>5, <3>6 DEF PosRightNow
  <2> QED
    BY <2>1, <2>2
<1>5. CASE ClosePayment
  <2>1. pos' = [pos EXCEPT !.paying = FALSE]
    BY <1>5 DEF ClosePayment
  <2>2. /\ pos' \in PosStates /\ pos'.register = pos.register
        /\ pos'.cart = pos.cart /\ pos'.key = pos.key /\ pos'.order = pos.order
        /\ pos'.receipt = pos.receipt
    BY <1>0, <2>1 DEF PosStates
  <2> QED
    BY <1>0, <2>2 DEF PosRightNow
<1>6. ASSUME NEW n \in DOMAIN sent, SaleSucceeds(n)
      PROVE  pos' \in PosStates /\ PosRightNow(pos')
  <2>1. /\ pos' = [pos EXCEPT !.cart = NoItems, !.key = None, !.paying = FALSE,
                              !.sale = "success", !.order = 0, !.receipt = n,
                              !.register = "loading"]
        /\ sent[n].body.kind = "sale" /\ sent[n].answer = "ok"
    BY <1>6 DEF SaleSucceeds
  <2>2. n \in 0..MaxSent
    <3>1. n \in 1..Len(sent) /\ Len(sent) \in Nat /\ MaxSent \in Nat
      BY <1>0, <1>6, RowTypes
    <3>2. Len(sent) <= MaxSent
      BY <1>0 DEF Requests
    <3> QED
      BY <3>1, <3>2
  <2>3. NoItems \in Baskets
    BY <1>0, EditsOnShelf
  <2>4. /\ pos' \in PosStates /\ pos'.register = "loading"
        /\ pos'.key = None /\ pos'.order = 0 /\ pos'.receipt = n
    BY <1>0, <2>1, <2>2, <2>3 DEF PosStates
  <2>5. /\ n \in DOMAIN sent' /\ sent'[n].body.kind = "sale"
        /\ sent'[n].answer = "ok"
    BY <1>6, <2>1 DEF Carried, Kept
  <2> QED
    BY <1>0, <2>4, <2>5 DEF PosRightNow
<1>7. ASSUME NEW n \in DOMAIN sent, SaleFails(n)
      PROVE  pos' \in PosStates /\ PosRightNow(pos')
  <2>1. pos' = [pos EXCEPT !.sale = "error"]
    BY <1>7 DEF SaleFails
  <2>2. /\ pos' \in PosStates /\ pos'.register = pos.register
        /\ pos'.cart = pos.cart /\ pos'.key = pos.key /\ pos'.order = pos.order
        /\ pos'.receipt = pos.receipt
    BY <1>0, <2>1 DEF PosStates
  <2> QED
    BY <1>0, <2>2 DEF PosRightNow
<1> QED
  BY <1>1, <1>2, <1>3, <1>4, <1>5, <1>6, <1>7 DEF PosOther

\* A charge gives the order its intent and leaves key and cart.
LEMMA ChargeRight ==
  ASSUME TypeOK, BooksHold, PosHolds, NEW method \in Methods, CompleteSale(method)
  PROVE  pos' \in PosStates /\ PosRightNow(pos')
<1> DEFINE body == Sale(pos.cart, method)
           intent == PosIntent
<1>1. /\ Asking(pos.order, pos.key, intent, body)
      /\ body.kind = "sale" /\ body.invoice = None /\ body.basket = pos.cart
  BY CompleteSaleAsks
<1>2. pos' = [pos EXCEPT !.sale = "loading", !.order = intent]
  BY DEF CompleteSale, PosIntent
<1> HIDE DEF body, intent
<1>3. /\ Sent(pos.key, intent, body) /\ intent \in 1..MaxSent
      /\ MeansNow(pos.key, intent, body.kind, body.invoice, body.basket)
  BY <1>1, AskingKeeps DEF TypeOK
<1>4. /\ pos' \in PosStates /\ pos'.register = pos.register
      /\ pos'.cart = pos.cart /\ pos'.key = pos.key /\ pos'.order = intent
      /\ pos'.receipt = pos.receipt
  <2>1. pos \in PosStates /\ intent \in 0..MaxSent
    BY <1>3 DEF TypeOK
  <2> QED
    BY <1>2, <2>1 DEF PosStates
<1>5. /\ pos.key <= drawn /\ drawn' = drawn /\ desks' = desks /\ desks # <<>>
      /\ pos.key # None
  BY <1>1, KeysAreNumbers DEF Asking, Sends
<1>6. intent <= Len(sent')
  <2>1. /\ Len(sent) \in Nat /\ pos.order \in 0..Len(sent)
        /\ intent = IF pos.order = 0 THEN Len(sent) + 1 ELSE pos.order
    BY <1>1, RowTypes DEF Asking, TypeOK
  <2>2. Len(sent') = Len(sent) + 1
    BY <1>3 DEF Sent
  <2> QED
    BY <2>1, <2>2
<1>7. pos'.receipt # 0 =>
        /\ pos'.receipt \in DOMAIN sent'
        /\ sent'[pos'.receipt].body.kind = "sale"
        /\ sent'[pos'.receipt].answer = "ok"
  <2>1. pos.receipt # 0 =>
          /\ pos.receipt \in DOMAIN sent
          /\ sent[pos.receipt].body.kind = "sale"
          /\ sent[pos.receipt].answer = "ok"
    BY DEF PosHolds, PosRight
  <2>2. DOMAIN sent \subseteq DOMAIN sent' /\ \A n \in DOMAIN sent : sent'[n] = sent[n]
    BY <1>3 DEF Sent
  <2> QED
    BY <1>4, <2>1, <2>2
<1>8. MeansNow(pos'.key, pos'.order, "sale", None, pos'.cart)
  BY <1>1, <1>3, <1>4
<1> QED
  BY <1>4, <1>5, <1>6, <1>7, <1>8 DEF PosRightNow

----------------------------------------------------------------------------
\* The sales page after a step.
SalesRightNow(page) ==
  /\ page.listed \subseteq Invoices'
  /\ page.dialog <= Len(sent')
  /\ page.detail # None =>
       /\ page.key \in Keys /\ page.key <= drawn'
       /\ page.action \in {"return", "cancel"}
       /\ page.detail.id \in Invoices'
       /\ MeansNow(page.key, page.dialog, page.action, page.detail.id, NoItems)

\* What is said of the page now is said of it after the step.
LEMMA SalesNow == SalesRightNow(sales') => SalesRight(sales)'
BY DEF SalesRightNow, SalesRight, MeansNow, Means, Keys, NoItems

\* What is right of the page stays so when others act.
LEMMA SalesCarried ==
  ASSUME Carried, NEW page, SalesRight(page)
  PROVE  SalesRightNow(page)
<1>1. page.listed \subseteq Invoices' /\ page.dialog <= Len(sent')
  BY DEF Carried, Kept, SalesRight
<1>2. ASSUME page.detail # None
      PROVE  /\ page.key \in Keys /\ page.key <= drawn'
             /\ page.action \in {"return", "cancel"}
             /\ page.detail.id \in Invoices'
             /\ MeansNow(page.key, page.dialog, page.action, page.detail.id, NoItems)
  <2>1. /\ page.key \in Keys /\ page.key <= drawn
        /\ page.action \in {"return", "cancel"}
        /\ page.detail.id \in Invoices
        /\ Means(page.key, page.dialog, page.action, page.detail.id, NoItems)
    BY <1>2 DEF SalesRight
  <2>2. page.key \in Nat
    BY <2>1, KeysAreNumbers
  <2>3. drawn \in Nat /\ drawn' \in Nat /\ drawn <= drawn'
    BY DEF Carried
  <2>4. page.key <= drawn'
    BY <2>1, <2>2, <2>3
  <2> QED
    BY <2>1, <2>4 DEF Carried, MeansStill
<1> QED
  BY <1>1, <1>2 DEF SalesRightNow

\* A page that starts afresh has no dialog.
LEMMA FreshSalesRight ==
  ASSUME SharedTypeOK'
  PROVE  FreshSales \in SalesStates /\ SalesRightNow(FreshSales)
<1>1. /\ FreshSales.listed = {} /\ FreshSales.dialog = 0 /\ FreshSales.detail = None
  BY DEF FreshSales
<1>2. NoItems \in Baskets /\ 0 \in 0..MaxSent
  BY ShelfAssumption, MaxAssumption DEF NoItems, Baskets
<1>3. 0 <= Len(sent')
  <2>1. Len(sent') \in Nat
    BY LenProperties DEF SharedTypeOK
  <2> QED
    BY <2>1
<1>4. SalesRightNow(FreshSales)
  BY <1>1, <1>3 DEF SalesRightNow
<1> QED
  BY <1>2, <1>4 DEF FreshSales, SalesStates

\* A dialog that is closed leaves the list and what the page waits for.
LEMMA ClosedRight ==
  ASSUME SharedTypeOK', NEW page \in SalesStates, page.listed \subseteq Invoices'
  PROVE  Closed(page) \in SalesStates /\ SalesRightNow(Closed(page))
<1> DEFINE after == Closed(page)
<1>0. after = [page EXCEPT !.detail = None, !.action = None, !.key = None,
                           !.basket = NoItems, !.dialog = 0]
  BY DEF Closed
<1> HIDE DEF after
<1>1. NoItems \in Baskets /\ 0 \in 0..MaxSent
  BY ShelfAssumption, MaxAssumption DEF NoItems, Baskets
<1>2. /\ after \in SalesStates /\ after.listed = page.listed
      /\ after.dialog = 0 /\ after.detail = None
  BY <1>0, <1>1 DEF SalesStates
<1>3. 0 <= Len(sent')
  <2>1. Len(sent') \in Nat
    BY LenProperties DEF SharedTypeOK
  <2> QED
    BY <2>1
<1>4. SalesRightNow(after)
  BY <1>2, <1>3 DEF SalesRightNow
<1> QED
  BY <1>2, <1>4 DEF after

\* What the sales page does to itself leaves it right.
LEMMA SalesStep ==
  ASSUME TypeOK, BooksHold, SalesRight(sales), SalesOther, Carried, SharedTypeOK'
  PROVE  sales' \in SalesStates /\ SalesRightNow(sales')
<1>0. /\ SharedTypeOK /\ sales \in SalesStates /\ SalesRightNow(sales)
      /\ Requests /\ Left /\ Invoices \subseteq Keys
      /\ Len(sent') \in Nat /\ 0 <= Len(sent') /\ 0 \in 0..MaxSent
  <2>1. Len(sent') \in Nat
    BY LenProperties DEF SharedTypeOK
  <2>2. Invoices \subseteq Keys
    BY InvoiceOf DEF TypeOK
  <2> QED
    BY <2>1, <2>2, SalesCarried, MaxAssumption DEF TypeOK, BooksHold
<1>1. CASE Load
  <2> DEFINE listed == {k \in Invoices : CanCompensate(k)}
  <2>1. sales' = [sales EXCEPT !.loaded = TRUE, !.listed = listed]
    BY <1>1 DEF Load
  <2>2. listed \subseteq Invoices /\ Invoices \subseteq Invoices'
    BY DEF Carried
  <2> HIDE DEF listed
  <2>3. /\ sales' \in SalesStates /\ sales'.listed = listed
        /\ sales'.detail = sales.detail /\ sales'.action = sales.action
        /\ sales'.key = sales.key /\ sales'.dialog = sales.dialog
    BY <1>0, <2>1, <2>2 DEF SalesStates
  <2> QED
    BY <1>0, <2>2, <2>3 DEF SalesRightNow
<1>2. CASE Close
  <2>1. sales' = Closed(sales) /\ sales.listed \subseteq Invoices'
    BY <1>0, <1>2 DEF Close, SalesRightNow
  <2> QED
    BY <1>0, <2>1, ClosedRight
<1>3. ASSUME NEW k \in sales.listed, NEW a \in {"return", "cancel"}, Start(k, a)
      PROVE  sales' \in SalesStates /\ SalesRightNow(sales')
  <2> DEFINE detail == Detail(k)
  <2>1. /\ sales' = [sales EXCEPT !.detail = detail, !.action = a,
                                  !.key = drawn + 1, !.dialog = 0,
                                  !.basket = detail.left]
        /\ drawn < MaxKeys /\ drawn' = drawn + 1 /\ UNCHANGED sent
    BY <1>3 DEF Start
  <2>2. k \in Invoices /\ k \in Keys /\ Remaining(k) \in Baskets
    BY <1>0 DEF SalesRight, Left
  <2>3. /\ detail \in [id : Keys, left : Baskets] /\ detail.left \in Baskets
        /\ detail.id = k
    BY <2>2 DEF Detail
  <2>4. drawn \in Nat /\ drawn + 1 \in Keys /\ drawn + 1 <= drawn'
    BY <1>0, <2>1, RowTypes DEF Keys
  <2> HIDE DEF detail
  <2>5. /\ sales' \in SalesStates /\ sales'.listed = sales.listed
        /\ sales'.detail = detail /\ sales'.action = a
        /\ sales'.key = drawn + 1 /\ sales'.dialog = 0
    BY <1>0, <2>1, <2>3, <2>4 DEF SalesStates
  <2>6. MeansNow(sales'.key, sales'.dialog, sales'.action, sales'.detail.id, NoItems)
    BY <1>0, <2>1, <2>5, NewKeyMeans
  <2>7. sales'.listed \subseteq Invoices' /\ sales'.detail.id \in Invoices'
    BY <1>0, <2>2, <2>3, <2>5 DEF SalesRightNow, Carried
  <2> QED
    BY <1>0, <2>4, <2>5, <2>6, <2>7 DEF SalesRightNow
<1>4. ASSUME NEW i \in Items, NEW q \in 0..Shelf[i], SetQuantity(i, q)
      PROVE  sales' \in SalesStates /\ SalesRightNow(sales')
  <2>1. sales' = [sales EXCEPT !.basket[i] = q]
    BY <1>4 DEF SetQuantity
  <2>2. [sales.basket EXCEPT ![i] = q] \in Baskets
    <3>1. sales.basket \in Baskets /\ Shelf[i] \in Nat
      BY <1>0, ShelfAssumption DEF SalesStates
    <3> QED
      BY <1>4, <3>1 DEF Baskets
  <2>3. /\ sales' \in SalesStates /\ sales'.listed = sales.listed
        /\ sales'.detail = sales.detail /\ sales'.action = sales.action
        /\ sales'.key = sales.key /\ sales'.dialog = sales.dialog
    BY <1>0, <2>1, <2>2 DEF SalesStates
  <2> QED
    BY <1>0, <2>3 DEF SalesRightNow
<1>5. ASSUME NEW n \in DOMAIN sent, SubmitSucceeds(n)
      PROVE  sales' \in SalesStates /\ SalesRightNow(sales')
  <2> DEFINE listed == Replaced(sent[n].body.invoice)
             page == [sales EXCEPT !.busy = FALSE, !.listed = listed]
  <2>1. sales' = Closed(page)
    BY <1>5 DEF SubmitSucceeds
  <2>2. listed \subseteq sales.listed
    BY DEF Replaced
  <2>3. listed \subseteq Invoices' /\ listed \subseteq Keys
    BY <1>0, <2>2 DEF SalesRightNow, SalesRight
  <2> HIDE DEF listed
  <2>4. page \in SalesStates /\ page.listed = listed
    BY <1>0, <2>3 DEF SalesStates
  <2> HIDE DEF page
  <2> QED
    BY <2>1, <2>3, <2>4, ClosedRight
<1>6. ASSUME NEW n \in DOMAIN sent, SubmitFails(n)
      PROVE  sales' \in SalesStates /\ SalesRightNow(sales')
  <2>1. sales' = [sales EXCEPT !.busy = FALSE]
    BY <1>6 DEF SubmitFails
  <2>2. /\ sales' \in SalesStates /\ sales'.listed = sales.listed
        /\ sales'.detail = sales.detail /\ sales'.action = sales.action
        /\ sales'.key = sales.key /\ sales'.dialog = sales.dialog
    BY <1>0, <2>1 DEF SalesStates
  <2> QED
    BY <1>0, <2>2 DEF SalesRightNow
<1> QED
  BY <1>1, <1>2, <1>3, <1>4, <1>5, <1>6 DEF SalesOther

\* A submission gives the dialog its intent and leaves what it is about.
LEMMA SubmitRight ==
  ASSUME TypeOK, BooksHold, SalesHolds, Submit
  PROVE  sales' \in SalesStates /\ SalesRightNow(sales')
<1> DEFINE body == SalesBody
           intent == SalesIntent
<1>1. /\ Asking(sales.dialog, sales.key, intent, body)
      /\ body.kind = sales.action /\ body.invoice = sales.detail.id
  BY SubmitAsks
<1>2. /\ sales' = [sales EXCEPT !.busy = TRUE, !.dialog = intent]
      /\ sales.detail # None
  BY DEF Submit, SalesIntent
<1> HIDE DEF body, intent
<1>3. /\ Sent(sales.key, intent, body) /\ intent \in 1..MaxSent
      /\ MeansNow(sales.key, intent, body.kind, body.invoice, body.basket)
  BY <1>1, AskingKeeps DEF TypeOK
<1>4. /\ sales' \in SalesStates /\ sales'.listed = sales.listed
      /\ sales'.detail = sales.detail /\ sales'.action = sales.action
      /\ sales'.key = sales.key /\ sales'.dialog = intent
  <2>1. sales \in SalesStates /\ intent \in 0..MaxSent
    BY <1>3 DEF TypeOK
  <2> QED
    BY <1>2, <2>1 DEF SalesStates
<1>5. /\ sales.listed \subseteq Invoices
      /\ sales.key \in Keys /\ sales.key <= drawn
      /\ sales.action \in {"return", "cancel"}
      /\ sales.detail.id \in Invoices
  BY <1>2 DEF SalesHolds, SalesRight
<1>6. drawn' = drawn /\ Invoices' = Invoices
  BY <1>1, InvoicesStay DEF Asking, Sends
<1>7. intent <= Len(sent')
  <2>1. /\ Len(sent) \in Nat /\ sales.dialog \in 0..Len(sent)
        /\ intent = IF sales.dialog = 0 THEN Len(sent) + 1 ELSE sales.dialog
    BY <1>1, RowTypes DEF Asking, TypeOK
  <2>2. Len(sent') = Len(sent) + 1
    BY <1>3 DEF Sent
  <2> QED
    BY <2>1, <2>2
<1>8. MeansNow(sales.key, intent, sales.action, sales.detail.id, NoItems)
  BY <1>1, <1>3, <1>5 DEF MeansNow, Says
<1> QED
  BY <1>4, <1>5, <1>6, <1>7, <1>8 DEF SalesRightNow

----------------------------------------------------------------------------
\* The four kinds of steps keep the types of the requests and the books' part.
LEMMA OtherStep ==
  ASSUME TypeOK, BooksHold,
         \/ Quiet \/ Told
         \/ \E n \in DOMAIN sent : \E doc : Booked(n, doc)
  PROVE  SharedTypeOK' /\ BooksHold' /\ Carried
BY StepCarries DEF TypeOK

\* The first page is a fresh one, and nothing was sent.
LEMMA InitInv == Init => IInv
<1> SUFFICES ASSUME Init
             PROVE  IInv
  OBVIOUS
<1>1. /\ sent = <<>> /\ books = <<>> /\ desks = <<>> /\ drawn = 0
      /\ pos = FreshPos /\ sales = FreshSales /\ route = "pos"
  BY DEF Init, SharedInit
<1>2. /\ DOMAIN sent = {} /\ DOMAIN books = {} /\ Len(sent) = 0
      /\ 0 \in 0..MaxKeys /\ 0 \in 0..MaxSent /\ 0 <= MaxSent
      /\ NoItems \in Baskets
  BY <1>1, MaxAssumption, ShelfAssumption DEF NoItems, Baskets
<1>3. SharedTypeOK
  BY <1>1, <1>2 DEF SharedTypeOK
<1>4. pos \in PosStates /\ sales \in SalesStates
  BY <1>1, <1>2 DEF FreshPos, PosStates, FreshSales, SalesStates
<1>5. TypeOK
  BY <1>1, <1>3, <1>4 DEF TypeOK
<1>6. Invoices = {}
  BY <1>2 DEF Invoices, Range
<1>7. BooksHold
  BY <1>1, <1>2, <1>6 DEF BooksHold, Requests, OneKeyPerIntent, Asked, AnswersHonest, Left
<1>8. /\ pos.register = "loading" /\ pos.order = 0 /\ pos.key = None
      /\ pos.receipt = 0
      /\ sales.listed = {} /\ sales.dialog = 0 /\ sales.detail = None
  BY <1>1 DEF FreshPos, FreshSales
<1>9. PosHolds
  BY <1>1, <1>2, <1>8 DEF PosHolds, PosRight
<1>10. SalesHolds
  BY <1>1, <1>2, <1>8 DEF SalesHolds, SalesRight
<1> QED
  BY <1>5, <1>7, <1>9, <1>10 DEF IInv

\* A page that is not mounted is a fresh one.
LEMMA AtPosKeeps ==
  ASSUME IInv, AtPos
  PROVE  IInv'
<1>0. /\ TypeOK /\ SharedTypeOK /\ BooksHold /\ PosHolds /\ SalesHolds
      /\ route = "pos" /\ route' = "pos" /\ sales' = sales /\ sales = FreshSales
      /\ PosRight(pos)
  BY DEF IInv, TypeOK, AtPos, PosHolds, SalesHolds
<1>1. SharedTypeOK' /\ BooksHold' /\ pos' \in PosStates /\ PosRightNow(pos')
  <2>1. CASE PosOther
    <3>1. SharedTypeOK' /\ BooksHold' /\ Carried
      BY <1>0, <2>1, PosShapes, OtherStep
    <3> QED
      BY <1>0, <2>1, <3>1, PosStep
  <2>2. ASSUME NEW method \in Methods, CompleteSale(method)
        PROVE  SharedTypeOK' /\ BooksHold' /\ pos' \in PosStates /\ PosRightNow(pos')
    <3>1. Asking(pos.order, pos.key, PosIntent, Sale(pos.cart, method))
      BY <1>0, <2>2, CompleteSaleAsks
    <3>2. SharedTypeOK'
      BY <1>0, <3>1, SharedTypes
    <3>3. BooksHold'
      BY <1>0, <3>1, AskingBooks
    <3> QED
      BY <1>0, <2>2, <3>2, <3>3, ChargeRight
  <2> QED
    BY <2>1, <2>2 DEF AtPos, PosNext, PosOther
<1>2. sales' \in SalesStates /\ SalesRightNow(sales') /\ sales' = FreshSales
  BY <1>0, <1>1, FreshSalesRight
<1>3. TypeOK'
  BY <1>0, <1>1, <1>2 DEF TypeOK
<1>4. PosHolds' /\ SalesHolds'
  BY <1>0, <1>1, <1>2, PosNow, SalesNow DEF PosHolds, SalesHolds, FreshSales, NoItems
<1> QED
  BY <1>1, <1>3, <1>4 DEF IInv

\* Every action of the sales page keeps the invariant.
LEMMA AtSalesKeeps ==
  ASSUME IInv, AtSales
  PROVE  IInv'
<1>0. /\ TypeOK /\ SharedTypeOK /\ BooksHold /\ PosHolds /\ SalesHolds
      /\ route = "sales" /\ route' = "sales" /\ pos' = pos /\ pos = FreshPos
      /\ SalesRight(sales)
  BY DEF IInv, TypeOK, AtSales, PosHolds, SalesHolds
<1>1. SharedTypeOK' /\ BooksHold' /\ sales' \in SalesStates /\ SalesRightNow(sales')
  <2>1. CASE SalesOther
    <3>1. SharedTypeOK' /\ BooksHold' /\ Carried
      BY <1>0, <2>1, SalesShapes, OtherStep
    <3> QED
      BY <1>0, <2>1, <3>1, SalesStep
  <2>2. CASE Submit
    <3>1. Asking(sales.dialog, sales.key, SalesIntent, SalesBody)
      BY <1>0, <2>2, SubmitAsks
    <3>2. SharedTypeOK'
      BY <1>0, <3>1, SharedTypes
    <3>3. BooksHold'
      BY <1>0, <3>1, AskingBooks
    <3> QED
      BY <1>0, <2>2, <3>2, <3>3, SubmitRight
  <2> QED
    BY <2>1, <2>2 DEF AtSales, SalesNext, SalesOther
<1>2. pos' \in PosStates /\ PosRightNow(pos') /\ pos' = FreshPos
  BY <1>0, <1>1, FreshPosRight
<1>3. TypeOK'
  BY <1>0, <1>1, <1>2 DEF TypeOK
<1>4. PosHolds' /\ SalesHolds'
  BY <1>0, <1>1, <1>2, PosNow, SalesNow DEF PosHolds, SalesHolds, FreshPos, NoItems
<1> QED
  BY <1>1, <1>3, <1>4 DEF IInv

\* Leaving a page keeps the invariant.
LEMMA NavigateKeeps ==
  ASSUME IInv, Navigate
  PROVE  IInv'
<1>0. TypeOK /\ BooksHold
  BY DEF IInv
<1>1. SharedTypeOK' /\ BooksHold' /\ Carried
  BY <1>0, RestShapes, OtherStep
<1>2. /\ pos' = FreshPos /\ sales' = FreshSales /\ route' \in {"pos", "sales"}
  BY DEF Navigate
<1>3. /\ pos' \in PosStates /\ PosRightNow(pos')
      /\ sales' \in SalesStates /\ SalesRightNow(sales')
  BY <1>1, <1>2, FreshPosRight, FreshSalesRight
<1>4. TypeOK'
  BY <1>1, <1>2, <1>3 DEF TypeOK
<1>5. PosHolds' /\ SalesHolds'
  BY <1>2, <1>3, PosNow, SalesNow
     DEF PosHolds, SalesHolds, FreshPos, FreshSales, NoItems
<1> QED
  BY <1>1, <1>4, <1>5 DEF IInv

\* Every step of the API keeps the invariant.
LEMMA ApiKeeps ==
  ASSUME IInv, Api
  PROVE  IInv'
<1>0. /\ TypeOK /\ BooksHold /\ PosHolds /\ SalesHolds
      /\ pos' = pos /\ sales' = sales /\ route' = route
      /\ PosRight(pos) /\ SalesRight(sales)
      /\ pos \in PosStates /\ sales \in SalesStates /\ route \in {"pos", "sales"}
  BY DEF IInv, Api, PosHolds, SalesHolds, TypeOK
<1>1. SharedTypeOK' /\ BooksHold' /\ Carried
  BY <1>0, RestShapes, OtherStep
<1>2. PosRightNow(pos') /\ SalesRightNow(sales')
  BY <1>0, <1>1, PosCarried, SalesCarried
<1>3. TypeOK'
  BY <1>0, <1>1 DEF TypeOK
<1>4. PosHolds' /\ SalesHolds'
  BY <1>0, <1>2, PosNow, SalesNow
     DEF PosHolds, SalesHolds, FreshPos, FreshSales, NoItems
<1> QED
  BY <1>1, <1>3, <1>4 DEF IInv

\* A step that changes nothing.
LEMMA StutterKeeps ==
  ASSUME IInv, UNCHANGED vars
  PROVE  IInv'
<1>0. /\ TypeOK /\ BooksHold /\ PosHolds /\ SalesHolds /\ SharedTypeOK
      /\ pos' = pos /\ sales' = sales /\ route' = route /\ UNCHANGED shared
      /\ PosRight(pos) /\ SalesRight(sales)
      /\ pos \in PosStates /\ sales \in SalesStates /\ route \in {"pos", "sales"}
  BY DEF IInv, PosHolds, SalesHolds, TypeOK, vars
<1>1. SharedTypeOK' /\ BooksHold' /\ Carried
  BY <1>0, SharedStays, OtherStep
<1>2. PosRightNow(pos') /\ SalesRightNow(sales')
  BY <1>0, <1>1, PosCarried, SalesCarried
<1>3. TypeOK'
  BY <1>0, <1>1 DEF TypeOK
<1>4. PosHolds' /\ SalesHolds'
  BY <1>0, <1>2, PosNow, SalesNow
     DEF PosHolds, SalesHolds, FreshPos, FreshSales, NoItems
<1> QED
  BY <1>1, <1>3, <1>4 DEF IInv

\* The invariant is inductive.
LEMMA StepInv == IInv /\ [Next]_vars => IInv'
BY AtPosKeeps, AtSalesKeeps, NavigateKeeps, ApiKeeps, StutterKeeps DEF Next

\* Keys, intents and what was meant stay together, on the pages, in the
\* requests and in the books.
THEOREM Invariant == Spec => []IInv
BY InitInv, StepInv, PTL DEF Spec

----------------------------------------------------------------------------
\* The types hold; in particular no cart exceeds the stock the page shows
\* (pos.ts add).
THEOREM TypeCorrect == Spec => []TypeOK
<1>1. IInv => TypeOK
  BY DEF IInv
<1> QED
  BY <1>1, Invariant, PTL

\* What the operator asked for once is booked at most once, for any number of
\* requests and however late they are served (pos.ts openPayment, sales.ts
\* submit).
THEOREM OnceOnly == Spec => []OneEffectPerIntent
<1>1. IInv => OneEffectPerIntent
  <2> SUFFICES ASSUME IInv, NEW i \in DOMAIN books, NEW j \in DOMAIN books,
                      books[i].intent = books[j].intent
               PROVE  i = j
    BY DEF OneEffectPerIntent
  <2>1. Asked /\ OneKeyPerIntent
    BY DEF IInv, BooksHold
  <2>2. PICK m \in DOMAIN sent : /\ books[i].key = sent[m].key
                                 /\ books[i].intent = sent[m].intent
    BY <2>1 DEF Asked
  <2>3. PICK n \in DOMAIN sent : /\ books[j].key = sent[n].key
                                 /\ books[j].intent = sent[n].intent
    BY <2>1 DEF Asked
  <2>4. sent[m].key = sent[n].key
    BY <2>1, <2>2, <2>3 DEF OneKeyPerIntent
  <2> QED
    BY <2>1, <2>2, <2>3, <2>4 DEF Asked
<1> QED
  BY <1>1, Invariant, PTL

\* The success that the POS page shows is a sale that is booked (pos.ts
\* completeSale, sales.service.ts postInvoice).
THEOREM ReceiptTrue == Spec => []ReceiptIsTrue
<1>1. IInv => ReceiptIsTrue
  <2> SUFFICES ASSUME IInv, pos.receipt # 0
               PROVE  \E d \in Range(books) : /\ d.key = sent[pos.receipt].key
                                              /\ d.body = sent[pos.receipt].body
    BY DEF ReceiptIsTrue
  <2>1. /\ pos.receipt \in DOMAIN sent
        /\ sent[pos.receipt].body.kind = "sale"
        /\ sent[pos.receipt].answer = "ok"
    BY DEF IInv, PosHolds, PosRight
  <2>2. \E i \in DOMAIN books : /\ books[i].key = sent[pos.receipt].key
                                /\ books[i].body = sent[pos.receipt].body
    BY <2>1 DEF IInv, BooksHold, AnswersHonest, Honest
  <2> QED
    BY <2>2 DEF Range
<1> QED
  BY <1>1, Invariant, PTL

\* The key of the order on the POS page names no other cart than the one the
\* page shows (pos.ts invalidateCheckout).
THEOREM KeyForCart == Spec => []KeyNamesCart
<1>1. IInv => KeyNamesCart
  <2> SUFFICES ASSUME IInv, NEW i \in DOMAIN books, books[i].key = pos.key
               PROVE  books[i].body.basket = pos.cart
    BY DEF KeyNamesCart, Range
  <2>1. books[i].key \in Keys
    BY FieldTypes DEF IInv, TypeOK
  <2>2. pos.key # None
    BY <2>1, KeysAreNumbers
  <2>3. Means(pos.key, pos.order, "sale", None, pos.cart)
    BY <2>2 DEF IInv, PosHolds, PosRight
  <2>4. PICK n \in DOMAIN sent : /\ books[i].key = sent[n].key
                                 /\ SaysTheSame(books[i].body, sent[n].body)
    BY DEF IInv, BooksHold, Asked
  <2>5. Says(sent[n].body, "sale", None, pos.cart)
    BY <2>3, <2>4 DEF Means
  <2> QED
    BY <2>4, <2>5 DEF SaysTheSame, Says
<1> QED
  BY <1>1, Invariant, PTL

=============================================================================
