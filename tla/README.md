# Webillify in TLA+

Webillify is a multi-tenant billing and inventory product for small shops: a
NestJS API over PostgreSQL (`Webillify-API`) and an Angular web application
(`Webillify-Web-App`). This directory models what the API does to stock,
money, credits and sessions when requests interleave, fail, get lost and are
repeated, and what the counter of the web application makes of it; it checks
this with TLC on small instances and proves the core of it with TLAPS.
`PROJECT.json` lists the components, runs, mutants, theorems, the source lines
of every definition, the hazards and the findings.

## 1. Inventory

| Part | State it keeps | Operations | What makes it hard | What makes it correct |
|---|---|---|---|---|
| Stock ledger (`stock_movements`, `stock_balances`) | append-only movements, a balance per warehouse and variant | written by all services below | several services write one balance; one unique slot per (key, variant, type) | balance = sum of movements, never negative, a key moves stock once |
| `StockService` | none of its own | `adjust` | SERIALIZABLE retry loop, row locks, repeated requests | the same, and answers that are true |
| `SalesService` | `pos_sessions`, `invoice_series`, `sales_invoices`, `sales_returns`, refunds, `customers.receivable_balance` | `openSession`, `postInvoice`, `createReturn`, `cancelInvoice` | part payment, partial returns and cancellation in any order; rounding; credit limit across registers | projections reconcile with payments and returns; limit and drawer hold; whole returns settle |
| `PurchasesService` | `purchase_bills`, `purchase_returns`, `supplier_payments` | `createDraft`, `postBill`, `cancelBill`, `createReturn`, `paySupplier` | payments over several bills, returns before or after payment, goods already sold | payable and credit reconcile; a used bill is never cancelled |
| `AuthService`, `AccessTokenGuard` | `login_sessions`, `refresh_tokens` | `login`, `refresh`, `logout`, guard per request | READ COMMITTED statements that interleave; reads outside the transaction; opposite lock orders | one live token per family; a revoked family is dead; revocation is final |
| `AiCreditService` | `ai_credit_ledger`, reads `ai_subscriptions` | `consume`, `refund` | repeated references, a row lock that does not order snapshots, entries that expire with a period | no period overspent, one charge and one refund per reference, answers that are true |
| `CoreEntitlementService`, plans | subscription rows (read only) | checks | none | – |
| Catalogue, access, tenant guards | master data | inserts and lookups | unique indexes only | – |
| Web: POS page | cart, checkout key, sale under way | add, change, clear, open register, pay, retry | answers that arrive late or never, edits meanwhile, another payment method | one sale per order, a receipt that is true, a key that names one cart |
| Web: sales page | list of invoices, dialog with its key | start, set quantity, submit, close | stale list, a first attempt that is still being served | one return or cancellation per dialog |
| Web: `AuthStore`, interceptor | in-memory access token | restore, refresh, sign out | single flight of refreshes | no self-inflicted reuse |
| Web: purchases page | forms | create, post, pay, return, cancel | a fresh key per attempt | the guards of `PurchasesService` |
| Other web pages, mock data, seed, bootstrap, health, documents, CI | – | – | – | – |

The services never call each other. They meet in the database: all of them
lock and overwrite `stock_balances` rows and append to `stock_movements`; sales
and returns share sessions, invoices and customers; every HTTP request passes
`AccessTokenGuard`, which reads the row that `AuthService` revokes. The web
application is a client that may repeat any request under its
`Idempotency-Key`.

## 2. Modules

```
StockLedger            what the inventory promises (abstract)
  ^  ^  ^  ^  implemented by
  |  |  |  +-- StockAdjust                            one operation, statement by statement
  |  |  +----- Sales      \
  |  +-------- Purchases   >-- Money                  one operation, one action
  +----------- Trading = Sales + Purchases + adjustments over one stock
AuthSessions                                          one login session, statement by statement
AiCredits                                             one subscription's credits, statement by statement
WebCounter = PosPage + SalesPage over WebRequests     the pages of the counter and the API they see
```

Each of `StockAdjust`, `Sales`, `Purchases`, `Trading`, `AuthSessions`,
`AiCredits` and `WebCounter` has its theorems in a module `<name>_proofs` that extends it;
`SumTheorems` has the theorems about sums that they share.

Three levels of detail are used. `StockAdjust`, `AuthSessions` and `AiCredits`
run each statement of a transaction as a step of its own, because that is where these
parts can go wrong. `Sales`, `Purchases` and `Trading` take a whole
SERIALIZABLE transaction as one action: `StockAdjust` shows for the smallest
operation, by proof, that the scheme all services share (snapshot, row lock,
retry on 40001, one commit) makes a transaction atomic. What this step of the
argument leaves open, lock order between larger transactions, is a hazard of
its own and on the plan. `WebCounter` looks at the same operations through the
eyes of a client, for whom a request is stored, answered from what is stored,
or refused.

**StockLedger.** `movements` is `stock_movements`, `stock` is
`stock_balances.quantity`. `Post` adds the rows of one document under a free
slot and moves the balances by exactly these rows, never below zero.

**StockAdjust.** `ledger` and `balance` are the committed rows, `rowLock` the
holder of each balance row, `call` the program counter, attempt, request and
snapshot of each call.

| Action | Code (`stock.service.ts`) |
|---|---|
| `Submit`, `Resend` | a client sends, or repeats, a request under its key |
| `Begin` | first statement: snapshot (77-93) |
| `LockRow`, `LockRowConflict` | upsert and `SELECT ... FOR UPDATE` (95-112); 40001 |
| `AnswerFromLedger` | `existing` and its comparison (113-138) |
| `Refuse`, `Accept` | `INSUFFICIENT_STOCK` (140-150) |
| `Commit`, `CommitConflict` | movement, balance, commit (157-197); 40001 |
| `RetryOrFail` | `serializable` (200-213) |
| `Crash`, `LoseResponse` | the process dies; the answer is lost |

PostgreSQL is external and modelled by the outcomes it allows: a statement that
waits for a row changed since the snapshot fails with 40001, and so does a
commit whose lookup by key is no longer true. False positives of its conflict
detection, which only add rollbacks and retries, are left out.

**Sales.** `sessions`, `invoices`, `returns`, `nextNumber`, `receivable`,
`movements`, `stock`. `OpenSession`, `PostInvoice`, `CreateReturn`,
`CancelInvoice` are the four operations; `RecordReturn` is `recordReturn`,
which both returns and cancellations run: portions (`Share`), round-off,
receivable first, refund for the rest, drawer, invoice projections.
`ItemsValid`, `ReturnValid` and `LinesValid` are the CHECK constraints and
triggers that make an insert fail. The value of a line (price, discount, GST)
is an input, split into the taxable value and one tax: the code computes a
line total next to its components, and the two meet in a CHECK.

**Purchases.** `bills`, `returns`, `payments`, `movements`, `stock`.
`CreateDraft`, `PostBill`, `CancelBill`, `CreateReturn`, `PaySupplier`, and
`SellElsewhere` for the sales that take the goods away. Here the line total is
the sum of its components by construction, so a line has one amount.

**Trading** instantiates both over the same `movements` and `stock` and adds
`Adjust`. Keys are shared between the services on purpose: each service looks
for a key in its own table only.

**AuthSessions.** `session` and `tokens` are committed rows, `rowLock` the row
locks, `call` the statement each request is at. `ReadForRefresh`, `Consume`,
`ConsumeLost`, `Touch`, `Rotate` are `refresh`; `ReadForLogout` starts `logout`;
`RevokeSession`, `RevokeTokens`, `LockTokens`, `Revoke` are `revokeSession`;
`ReadForAccess` and `Admit` are the guard. What is committed or read and what
the caller is told of it are two steps (`Rotate` or `Revoke` and `Answer`,
`ReadForAccess` and `Admit`), so another call may commit between them, or the
process die. `RevocationIsFinal` is about the reads and commits: no read of the
session grants a request, and no rotation commits, once a revocation has.
About answers it would not hold: a guard that read the session
before the revocation lets its request in after the logout was answered, and
a rotation that committed before may be answered after it. `Expire` stands for the expiry date and for a user who is
deactivated. A call may present any token that was ever issued: that is what
two tabs, a lost response and a stolen cookie have in common.

**AiCredits.** `ledger` is `ai_credit_ledger`, `ai` the row of
`ai_subscriptions`, `lock` who holds it, `call` the attempt, request and snapshot
of each call, `now` the clock.

| Action | Code (`ai-credit.service.ts`) |
|---|---|
| `Submit`, `Retry` | `consume`, `refund` and each attempt of `serializableTransaction` (210-225); the snapshot is taken here, before the wait |
| `LockAiSubscription`, `LockConflict` | `lockAiSubscription` (243-250); 40001 when billing changed the row |
| `DecideConsume`, `DecideRefund` | subscriptions, `existing`, `balance` (81-130, 155-190) |
| `Commit`, `CommitConflict` | `aiCreditLedger.create` and commit; 40001 |
| `Crash`, `LoseAnswer` | the process dies before or after the commit |
| `Tick`, `Renew`, `CancelAi` | external: the clock, and billing, of which the repository has only the seed |

The lock does not change the row it locks. A transaction that waited for it
therefore goes on with the balance from before the wait, and
`ReadsStillHold`, the conflict check of SERIALIZABLE, is all that keeps two
charges from spending it twice: its slip `LockIsEnough` breaks
`NoPeriodOverspent`.

**WebRequests, PosPage, SalesPage, WebCounter.** `sent` are the requests of the
pages, each waited for or given up, and answered or not; `books` the documents
that the API posted, `desks` the open registers, `drawn` the keys drawn. `pos`
and `sales` are the signals of the two pages, of which one is mounted at a time.
A request that a page gave up is still served, later and in any order: that is
how lost answers, timeouts and pages that are left look to the API. `Serve`
answers as `postInvoice`, `createReturn` and `cancelInvoice` do, with the
comparison each makes with what is stored. `intent`, which is not sent, counts
what the operator meant once: the order charged since its last edit, the dialog
that is open.

| Action | Code |
|---|---|
| `Add`, `TakeOne`, `RemoveLine`, `ClearCart` | `add`, `changeQuantity`, `remove`, `clearCart` of `pos.ts`, each with `invalidateCheckout` |
| `LoadWorkspace`, `OpenRegister` | `loadWorkspace`, `openRegister`; `getWorkspace`, `openSession` of `api.repositories.ts` |
| `OpenPayment`, `ClosePayment` | `openPayment`, `closePayment` |
| `CompleteSale`, `SaleSucceeds`, `SaleFails` | `completeSale` and its two handlers |
| `Load`, `Start`, `SetQuantity`, `Close` | `load`, `start`, `setQuantity`, `close` of `sales.ts` |
| `Submit`, `SubmitSucceeds`, `SubmitFails` | `submit`, `replace`, `operationError`; `requireRegister`, `createReturn`, `cancelInvoice` of `api.repositories.ts` |
| `Navigate` | the router destroys a page, `takeUntilDestroyed` ends its waiting |
| `Serve`, `OpenElsewhere` | `SalesService` |

## 3. Runs

| Run | Question | Bounds | Distinct states |
|---|---|---|---|
| `stock_adjust` | keys once, balance = ledger, no overselling, true answers, refinement | 3 calls, 2 keys, 2 variants, 2 attempts, 2 sends | 200,649 |
| `stock_adjust_live` | every call ends | 2 calls, 3 attempts, quantities 1 and 2 | 79,209 |
| `sales` | all projections, credit limit, drawer, refinement | 2 registers, 2 keys, 2 carts, 2 ways to pay | 66,379 |
| `sales_portions` | settling in up to three portions | 1 register, 3 keys, 1 cart, 3 ways to pay | 104,537 |
| `purchases` | payables, credit, cancellation, refinement | 2 bills, 2 suppliers, 2 keys, 2 carts | 81,682 |
| `trading` | stock against all documents | 1 bill, 1 unit sales, 2 keys | 19,419 |
| `auth_sessions` | tokens, revocation, every call answered | 3 calls, up to 4 tokens | 66,894 |
| `ai_credits` | period never overspent, charge and refund once, true answers | 3 calls, 2 references, charges 2 and 3 of 4 credits, 2 attempts, one renewal | 1,082,042 |
| `web_counter` | one document per intent, true receipts, a key names one cart | 1 item in stock twice, 2 methods, 3 requests, 3 keys, 3 documents | 2,543,449 |
| `sales_cancel_retry`, `sales_partial_return`, `auth_reuse` | the findings of section 6 | as above | counterexamples |

Why the bounds are enough for what they are meant to show. Three adjustments
are needed for a waiter behind a waiter and for a repeated request next to a
competitor; two attempts already reach the give-up branch after a retry (the
proof covers any number). A line of three units at 3 + 1 is the smallest whose
portions round unevenly and still pass the CHECK; two keys allow two documents
of each kind, each key being usable once per kind of document, and the third
key of `sales_portions` a third portion. Two bills let one payment be split
and let payments meet the wrong supplier. Three calls on a session are a
rotation, a reuse and one more rotation, the shortest way into the deadlock.
Three calls on the credits are two charges that cannot both be paid and a
refund, or a charge, its repetition and a competitor; a clock of one step is
enough for a charge in one period and its refund in the next. Three requests
are a sale, a return and its repetition or a cancellation that competes with
it, or one order sent three times under two methods; three keys leave one for
an order that was edited.
Model runs end when keys or calls are used up, so deadlock checking is off in
every configuration; that no call stays behind is what `EveryCallEnds` says.
Symmetry is used for keys, calls, registers and the like where the run has no
liveness property.

Every property has a mutant in `PROJECT.json`: an operator marked *Slip* next
to the definition it replaces, which makes the property fail.

**Fairness.** `FairSpec` of `StockAdjust` and `Spec` of `AuthSessions` assume
weak fairness of each call's own steps: Node runs the continuation of an
awaited statement, and PostgreSQL answers a statement that can run. Waiting for
a lock is not a step, so fairness does not presuppose that locks are released.
`AiCredits` and `WebCounter` state safety only: a user may stop anywhere.
No fairness is assumed for clients, crashes or the clock. `DeadlockVictim` is
a step of the database, whose deadlock detector is always on.

## 4. Proofs

Every theorem holds for all values of the constants that satisfy the named
assumptions: any number of calls, keys, variants, carts, registers, bills,
references and requests. `IInv` is in each module the inductive invariant:
`Init => IInv`, `IInv /\ [Next]_vars => IInv'`, and `IInv` implies the property.

| Module | Theorem | Statement |
|---|---|---|
| `StockAdjust_proofs` | `TypeCorrect` | `Spec => []TypeOK` |
| | `KeyApplied` | `Spec => []KeyAppliedOnce` |
| | `NoOverselling` | `Spec => []NeverNegative` |
| | `TrueAnswers` | `Spec => []AnswersAreTrue` |
| | `BalanceCorrect` | `Spec => []BalanceIsLedgerSum` |
| | `LedgerImplemented` | `Spec => ImplementsLedger` |
| `Sales_proofs` | `TypeCorrect` | `Spec => []TypeOK` |
| | `InvoicesReconcile` | `Spec => []InvoiceReconciles` |
| | `ReceivableCorrect` | `Spec => []ReceivableIsOutstanding` |
| | `LimitKept` | `Spec => []CreditLimitKept` |
| | `DrawersReconcile` | `Spec => []DrawerReconciles` |
| | `ReturnsWithinSales` | `Spec => []ReturnedWithinSold` |
| | `FullReturnsSettle` | `Spec => []FullReturnSettles` |
| | `KeysOnce` | `Spec => []KeysAppliedOnce` |
| | `LedgerImplemented` | `Spec => ImplementsLedger` |
| `Purchases_proofs` | `TypeCorrect` | `Spec => []TypeOK` |
| | `PayablesReconcile` | `Spec => []PayableReconciles` |
| | `CreditsCorrect` | `Spec => []CreditIsOverpayment` |
| | `ProjectionsCorrect` | `Spec => []ProjectionsReconcile` |
| | `FullReturnsSettle` | `Spec => []FullReturnSettles` |
| | `OnceEach` | `Spec => []AppliedOnce` |
| | `LedgerImplemented` | `Spec => ImplementsLedger` |
| `Trading_proofs` | `StockCorrect` | `Spec => []StockMatchesDocuments` |
| | `LedgerImplemented` | `Spec => ImplementsLedger` |
| | `DocumentsStayCorrect` | `Spec => []DocumentsCorrect`: all invariants of `Sales` and of `Purchases` |
| `AuthSessions_proofs` | `TypeCorrect` | `Spec => []TypeOK` |
| | `RevokedFamilyDead` | `Spec => []RevokedFamilyIsDead` |
| | `SingleSuccessor` | `Spec => []OneLiveToken` |
| | `RevocationFinal` | `Spec => RevocationIsFinal` |
| `AiCredits_proofs` | `TypeCorrect` | `Spec => []TypeOK` |
| | `PeriodsInCredit` | `Spec => []NoPeriodOverspent` |
| | `ChargedAndRefundedOnce` | `Spec => []MovedOnce` |
| | `TrueAnswers` | `Spec => []AnswersAreTrue` |
| `WebCounter_proofs` | `TypeCorrect` | `Spec => []TypeOK` |
| | `OnceOnly` | `Spec => []OneEffectPerIntent` |
| | `ReceiptTrue` | `Spec => []ReceiptIsTrue` |
| | `KeyForCart` | `Spec => []KeyNamesCart` |
| `SumTheorems` | `SumAdd`, `SumChange`, `SumPlus`, ... | sums over finite tables |

**Assumptions.** Each is an `ASSUME` of the module with the constants, and TLC
evaluates it on the instances. They say what the DTOs and column types say:
quantities and charges are positive, payments and baskets natural, an invoice
or bill has at least one line with a positive quantity, a line that is not on a
bill is worth nothing, a credit limit and an opening stock are natural, `CASH`
is a payment method, a bound is a natural number, the calls and the variants
are finitely many, and `None` is none of the values it stands beside.

**StockAdjust.** None of the safety properties is
inductive alone. `IInv` adds what the transaction scheme is for:
`Locking` (the holder of a row is exactly the call that decides or writes on its
variant), `Snapshot` (a snapshot is never ahead of the row, equals it while the
version is unchanged, and is exact from the lock to the commit; its rows by key
are still in the ledger), `Decided` (whoever writes saw no row of its key and
enough stock) and `Signed` (a movement carries the sign of its type). `TypeStep`
and `SafeStep` go through the actions; `StepRefines` shows that `Commit` is a
`Post` of the ledger and every other step a stutter, using that a commit's key
is new and that the stored quantity is the one it read.

**AuthSessions.** `Locking` ties the row locks to the statements that need
them: a rotation past `Touch` holds its token and the session, a revocation past
the session row holds it or has left the session revoked. `Committed` says what
a statement may still rely on: a rotation presents a live token, a revocation
about to lock or write has every live token among its targets, and whoever
committed a revocation finds the session revoked. The family has at most one
token more than there are calls with an answer, which bounds it, also when the
process dies between the commit and the answer. `RevocationFinal` follows from
`RotationExcludesRevocation`: a call about to commit a rotation holds the row of
a session that is not revoked.

**AiCredits.** `Snapshot` says that what a transaction saw is part of the ledger
and that nothing its answer depends on was added while `ReadsStillHold`;
`Decided` that who writes saw no row of its kind under its reference and,
for a charge, enough credits in the period it charges; `Periods` that every entry expires with a period that was granted;
`Signed` the signs. The sums per period change by the row that is written
(`SumAdd`).

**Sales.** Every operation is first brought to a shape (`InvoicePosted`,
`GoodsReturned`: which row is added, which invoice is rewritten, by what the
stock, the drawer and the receivable move), and the invariants are proved of the
shapes. `Drawers` (an invoice or refund in cash names a register that is open)
and `Documented` (a movement of a sale or return has its document, so a key that
is free among the documents is free in the ledger) make it inductive.
`FullReturnSettles` rests on `ReturnedWithinSold` and on the rule of
`recordReturn` that the last portion of a line takes what is left of it, not a
rounded share.

**Purchases.** In the same way, with `Stamped` (a bill past its draft has the key
that brought it there), `Documented`, `WithinBought` and `Rounding`: the
returned amount of a bill is the sum of its portions and round-offs, a line of
which everything is back has given back its whole amount, and a bill of which
everything is back has given back its round-off.
`ProjectionsReconcile` needs `PayableReconciles`, since a cancelled bill has
nothing to be compared with.

**Trading.** The services share the book, its slots and the stock, so what
`Sales` and `Purchases` prove of themselves does not carry over as it stands.
`OperationMoves` of each of the two modules says what an operation does to the
shared tables: it moves the stock and its own share (goods with customers, goods
on hand from bills) alike, and adds its rows under a key of its own.
`ElsewhereKeeps` says that an operation of another service, which leaves the
documents alone and adds rows of its own types only, keeps the service's
inductive invariant. `IInv` of `Trading_proofs` is then the two invariants
together with `Shares` (the stock is what bills hold, less what customers have,
plus what was adjusted), `BookBalances` (it is the sum of the movements), and that the
movements are finite and a bill with returns stays posted. The assumptions of
the two modules are met by those of `Trading` (`SalesFits`, `PurchasesFit`), and
the documents as `Trading` and as the two modules read them are the same
(the `Same...` lemmas).

**WebCounter.** `BooksHold` says that every document is that of a request that
was sent (`Asked`), that a key means one order and one order one key
(`Means`, `OneKeyPerIntent`), and that no compensation takes more than is left
of its invoice (`Left`); `PosHolds` and `SalesHolds` that the key a page holds, if any, is the
key of the order it shows. Requests under way, given up or not, keep the meaning they were
sent with; so a late one can only book what was meant, and `Serve`'s comparison
with what is stored does the rest. The steps that send nothing carry this over
in four shapes: a page does something of its own (`Quiet`), an answer
(`Told`), a document (`Booked`), a request (`Asking`).

**Refinement.** In `StockAdjust`, `Sales` and `Purchases`, `StepRefines` maps
every step to one `Post` of `StockLedger` or to a stutter. The free slot that
`Post` asks for is what `Documented` and `KeyAppliedOnce` provide; that no
balance falls below zero is the guard of the operation, read under its lock.

**Sums.** The sums of the models are folds over functions of finite sets.
`SumTheorems` unfolds them by well-founded induction on the cardinality, with
`WFMin` of the library in place of the induction theorems, whose operator
parameter the installed provers cannot instantiate: the row that is added adds
its value, the row that is changed changes the sum by the difference.

Only model-checked: liveness (`EveryCallEnds`; fairness and ENABLED are out of
the prover's reach), and the three claims of section 6, which the code does not
keep and no theorem could state.

## 5. What is abstracted or left out

One organization, company, branch and warehouse: every row carries these and
no operation crosses them. Average cost, audit rows, wording, numbering
formats, dates and reasons (they only take part in comparisons of a repeated
request, where a changed request is a request the model refuses as the code
does: no change). Tax, discount and price calculation of a line. Passwords,
JWT signatures and token hashes. Prices, search, tax choice and wording of the
web pages; the reason and the refund method of a return dialog, whose changes
the quantities stand for; the clients of other branches. Credits bought in
packs, which nothing in the repository sells yet. The purchases page, which
draws a fresh key per attempt, and `AuthStore`, which presents tokens in an order
that `AuthSessions` allows anyway. Master data (catalogue, suppliers, customers,
units, taxes), access rules, plans, configuration, HTTP plumbing, health checks,
presentation, mock data, seed, CI.

## 6. Findings

1. **A repeated cancellation may be refused** (`sales_cancel_retry`).
   `cancelInvoice` compares the request with `invoice.refunds[0]`, the first
   refund of *any* return of the invoice. After an earlier return that was
   refunded by another method or register, the retry of a successful
   cancellation gets `SALES_INVOICE_ALREADY_CANCELLED`, although
   `INVENTORY-RULES.md` promises the prior result.
2. **Some partial returns cannot be made** (`sales_partial_return`). Line total
   and components are rounded separately, the CHECK on the row compares them.
   Three units at 100.00 + 2.50 + 2.50: one unit gives 33.33 + 0.83 + 0.83 =
   34.99 against 35.00, and the insert fails.
3. **A detected reuse may leave the family alive** (`auth_reuse`). Rotation
   locks token then session, revocation session then token. When the
   revocation is the deadlock victim, the reused family keeps a live token;
   nothing retries it.

Observations, which the models show on the way to what they check and which no
run states as a property of its own:

- A return that is submitted again from the sales page after a lost answer is always
  refused with a conflict: `createReturn` of `api.repositories.ts` (558) sends the
  time of the attempt as `returnDate`, and `sameSalesReturn` compares it
  (`sales.service.ts` 1221), while `Task-Backlog.md` (15) calls these requests
  retry-stable. Were it equal, the stored answer has no `invoice` for the page to
  show (596). Nothing is taken back twice (`OneEffectPerIntent`).
- A cancellation that is submitted again after another register was opened names
  that register (`requireRegister` takes the newest) and is refused as well.
- A cart that is edited while its sale is under way is emptied by the late
  success, and what was added goes unsold (`pos.ts` 238).
- A charge that was refunded still answers the next `consume` under its reference
  as done, and nothing is charged (`ai-credit.service.ts` 112).
- A request whose guard read the session before a logout is let in after the
  logout was answered (`access-token.guard.ts` 35-49).

## 7. Plan

1. `LockOrder`: the row locks of the larger transactions (`postInvoice` in the
   order of variants, `recordReturn` in the order of lines) and which deadlocks
   the retry loop recovers from; with it the customer row that a sale reads
   before it takes any lock on it (314-322), and what a rollback between two
   writes leaves. `Sales` takes a transaction as one action and says nothing of
   these.
2. Purchase returns per component, with the residue that rounded portions
   leave.
