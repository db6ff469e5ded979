---------------------------- MODULE StockAdjust ----------------------------
(***************************************************************************)
(* StockService.adjust: the reviewed stock adjustment, with the concurrency*)
(* that its atomic form hides.  Each call runs the SERIALIZABLE transaction*)
(* of the service statement by statement against the rows other calls are  *)
(* changing, is retried by the loop of serializable(), and may lose its    *)
(* process or its response at any point, after which the client sends the  *)
(* same request again under the same Idempotency-Key.                      *)
(*                                                                         *)
(* PostgreSQL is external and modelled by the outcomes it allows this      *)
(* transaction: a snapshot taken by the first statement, a row lock held   *)
(* to the end, SQLSTATE 40001 when the locked row changed after the        *)
(* snapshot, and at commit 40001 when the rows read by key changed too.    *)
(* Average cost and the audit row ride on the same commit and are left out.*)
(***************************************************************************)
EXTENDS Integers, FiniteSets, Functions

CONSTANTS Variants,     \* product variants
          Keys,         \* Idempotency-Key values
          Quantities,   \* quantities a client may ask for
          Calls,        \* client calls in flight
          MaxAttempts,  \* attempts of serializable(): 3 in the code
          MaxSends,     \* bound: how often a client sends one request
          None          \* no call, no request, no snapshot

ASSUME QuantityAssumption == Quantities \subseteq Nat \ {0}
ASSUME NoneAssumption == None \notin Calls
ASSUME AttemptAssumption == MaxAttempts \in Nat \ {0} /\ MaxSends \in Nat \ {0}

VARIABLES ledger,   \* committed rows of stock_movements
          balance,  \* committed rows of stock_balances
          rowLock,  \* variant -> the call that holds its balance row
          call      \* what each call is doing

vars == <<ledger, balance, rowLock, call>>

Types == {"ADJUSTMENT_IN", "ADJUSTMENT_OUT"}
Requests ==
  [key : Keys, variant : Variants, type : Types, quantity : Quantities]

\* A row of stock_movements has an id of its own; here it is the sending that
\* inserted it, so a second row for the same request is a different row.
Entries == [by : Calls, send : 1..MaxSends, key : Keys, kind : Types,
            variant : Variants, quantity : Int]

RowsOfKey(key) == {m \in ledger : m.key = key}

Delta(req) ==
  IF req.type = "ADJUSTMENT_IN" THEN req.quantity ELSE -req.quantity

\* Slip: the movement type is not compared.
AnswersAnyType(m, req) ==
  m.variant = req.variant /\ m.quantity \in {req.quantity, -req.quantity}
\* The comparison that decides whether a stored movement is the answer to
\* this request: warehouse, variant, type and absolute quantity; the unit
\* cost, the source and the reason are not looked at.
Answers(m, req) ==
  /\ m.variant = req.variant
  /\ m.kind = req.type
  /\ m.quantity \in {req.quantity, -req.quantity}

Running == {"begin", "lock", "decide", "write"}
Stopped == {"idle", "applied", "replayed", "key_conflict", "insufficient",
            "failed", "lost"}
Snapshots == [rows : SUBSET Entries, version : Nat, quantity : Int]
CallStates ==
  [pc : Running \cup Stopped, sends : 0..MaxSends, attempt : 1..MaxAttempts,
   req : Requests \cup {None}, seen : Snapshots \cup {None}]

Init ==
  /\ ledger = {}
  /\ balance = [v \in Variants |-> [quantity |-> 0, version |-> 0]]
  /\ rowLock = [v \in Variants |-> None]
  /\ call = [c \in Calls |-> [pc |-> "idle", sends |-> 0, attempt |-> 1,
                              req |-> None, seen |-> None]]

----------------------------------------------------------------------------
\* A client sends a new request.
Submit(c, req) ==
  /\ call[c].pc = "idle"
  /\ call' = [call EXCEPT ![c] = [@ EXCEPT !.pc = "begin", !.req = req,
                                           !.sends = 1]]
  /\ UNCHANGED <<ledger, balance, rowLock>>

\* It sends the same request again when the answer never came or the service
\* gave up on the transaction.
Resend(c) ==
  /\ call[c].pc \in {"lost", "failed"}
  /\ call[c].sends < MaxSends
  /\ call' = [call EXCEPT ![c] = [@ EXCEPT !.pc = "begin", !.attempt = 1,
                                           !.sends = call[c].sends + 1]]
  /\ UNCHANGED <<ledger, balance, rowLock>>

\* The first statement of the transaction takes the snapshot that all of its
\* reads see.
Begin(c) ==
  /\ call[c].pc = "begin"
  /\ LET req == call[c].req
     IN  call' = [call EXCEPT ![c] =
           [@ EXCEPT !.pc = "lock",
                     !.seen = [rows |-> RowsOfKey(req.key),
                               version |-> balance[req.variant].version,
                               quantity |-> balance[req.variant].quantity]]]
  /\ UNCHANGED <<ledger, balance, rowLock>>

\* Slip: the attempts are not counted.
RetryForEver(c) ==
  [call[c] EXCEPT !.pc = "begin", !.attempt = @ + 1, !.seen = None]
\* serializable(): roll back and try again, at most MaxAttempts times.
RetryOrFail(c) ==
  IF call[c].attempt < MaxAttempts
  THEN [call[c] EXCEPT !.pc = "begin", !.attempt = @ + 1, !.seen = None]
  ELSE [call[c] EXCEPT !.pc = "failed", !.seen = None]

\* Slip: READ COMMITTED lets the transaction go on with the old quantity.
RowMayChange(c) == TRUE
RowUnchanged(c) == balance[call[c].req.variant].version = call[c].seen.version

\* upsert of the balance row and SELECT ... FOR UPDATE: wait for the holder,
\* then take the row if it is still the one in the snapshot ...
LockRow(c) ==
  /\ call[c].pc = "lock"
  /\ rowLock[call[c].req.variant] = None
  /\ RowUnchanged(c)
  /\ rowLock' = [rowLock EXCEPT ![call[c].req.variant] = c]
  /\ call' = [call EXCEPT ![c].pc = "decide"]
  /\ UNCHANGED <<ledger, balance>>

\* ... and otherwise the statement fails with 40001.
LockRowConflict(c) ==
  /\ call[c].pc = "lock"
  /\ rowLock[call[c].req.variant] = None
  /\ ~RowUnchanged(c)
  /\ call' = [call EXCEPT ![c] = RetryOrFail(c)]
  /\ UNCHANGED <<ledger, balance, rowLock>>

\* Slip: the lock outlives its transaction.
KeepLocks(c) == rowLock
Release(c) == [v \in Variants |-> IF rowLock[v] = c THEN None ELSE rowLock[v]]

Finish(c, answer) ==
  /\ call' = [call EXCEPT ![c] = [@ EXCEPT !.pc = answer, !.seen = None]]
  /\ rowLock' = Release(c)

\* findFirst by key found a movement: it is the answer, or the key belongs to
\* another request.  Nothing was written, so the transaction ends here.
AnswerFromLedger(c) ==
  /\ call[c].pc = "decide"
  /\ \E m \in call[c].seen.rows :
       Finish(c, IF Answers(m, call[c].req) THEN "replayed" ELSE "key_conflict")
  /\ UNCHANGED <<ledger, balance>>

\* Slip: the balance before the movement is tested, not the one after it.
WasEnough(c) == call[c].seen.quantity >= 0
Enough(c) == call[c].seen.quantity + Delta(call[c].req) >= 0

Refuse(c) ==
  /\ call[c].pc = "decide"
  /\ call[c].seen.rows = {}
  /\ ~Enough(c)
  /\ Finish(c, "insufficient")
  /\ UNCHANGED <<ledger, balance>>

Accept(c) ==
  /\ call[c].pc = "decide"
  /\ call[c].seen.rows = {}
  /\ Enough(c)
  /\ call' = [call EXCEPT ![c].pc = "write"]
  /\ UNCHANGED <<ledger, balance, rowLock>>

\* Slip: the row lock alone protects the lookup by key.
ReadsUnchecked(c) == TRUE
\* What SERIALIZABLE adds to the row lock: no other transaction committed a
\* row under the key after this one looked for it.
ReadsStillHold(c) == RowsOfKey(call[c].req.key) = call[c].seen.rows

\* The movement is inserted, the balance is overwritten with the sum computed
\* from the value read earlier, and both commit together.
Commit(c) ==
  /\ call[c].pc = "write"
  /\ ReadsStillHold(c)
  /\ LET req == call[c].req
     IN  /\ ledger' = ledger \cup
              {[by |-> c, send |-> call[c].sends, key |-> req.key,
                kind |-> req.type, variant |-> req.variant,
                quantity |-> Delta(req)]}
         /\ balance' = [balance EXCEPT ![req.variant] =
              [quantity |-> call[c].seen.quantity + Delta(req),
               version |-> @.version + 1]]
  /\ Finish(c, "applied")

CommitConflict(c) ==
  /\ call[c].pc = "write"
  /\ ~ReadsStillHold(c)
  /\ call' = [call EXCEPT ![c] = RetryOrFail(c)]
  /\ rowLock' = Release(c)
  /\ UNCHANGED <<ledger, balance>>

\* The process or its connection dies: PostgreSQL rolls the transaction back.
Crash(c) ==
  /\ call[c].pc \in Running
  /\ Finish(c, "lost")
  /\ UNCHANGED <<ledger, balance>>

\* The transaction ended but the response does not reach the client.
LoseResponse(c) ==
  /\ call[c].pc \in {"applied", "replayed", "key_conflict", "insufficient"}
  /\ call' = [call EXCEPT ![c].pc = "lost"]
  /\ UNCHANGED <<ledger, balance, rowLock>>

Step(c) ==
  \/ Begin(c) \/ LockRow(c) \/ LockRowConflict(c) \/ AnswerFromLedger(c)
  \/ Refuse(c) \/ Accept(c) \/ Commit(c) \/ CommitConflict(c)

Next ==
  \E c \in Calls :
    \/ \E req \in Requests : Submit(c, req)
    \/ Resend(c)
    \/ Step(c)
    \/ Crash(c)
    \/ LoseResponse(c)

Spec == Init /\ [][Next]_vars

\* The API process and the database keep running the statements of a call.
FairSpec == Spec /\ \A c \in Calls : WF_vars(Step(c))

----------------------------------------------------------------------------
TypeOK ==
  /\ ledger \subseteq Entries
  /\ balance \in [Variants -> [quantity : Int, version : Nat]]
  /\ rowLock \in [Variants -> Calls \cup {None}]
  /\ call \in [Calls -> CallStates]

\* A key moves stock at most once, however many calls carry it, concurrently
\* or again after a lost response (the lookup by key in adjust).
KeyAppliedOnce == \A m, n \in ledger : m.key = n.key => m = n

\* The stored balance is the sum of the posted movements: no update computed
\* from a stale quantity is ever written.
BalanceIsLedgerSum ==
  \A v \in Variants :
    balance[v].quantity =
      SumFunction([m \in {n \in ledger : n.variant = v} |-> m.quantity])

\* Concurrent withdrawals never take a balance below zero.
NeverNegative == \A v \in Variants : balance[v].quantity >= 0

\* A call that was told its adjustment is done can find it in the ledger: a
\* movement under its own key with its own variant, type and quantity.
AnswersAreTrue ==
  \A c \in Calls :
    call[c].pc \in {"applied", "replayed"} =>
      \E m \in ledger :
        /\ m.key = call[c].req.key /\ m.variant = call[c].req.variant
        /\ m.kind = call[c].req.type /\ m.quantity = Delta(call[c].req)

\* No call waits for ever: neither for a row lock that is never released nor
\* in the retry loop.
EveryCallEnds ==
  \A c \in Calls : call[c].pc \in Running ~> call[c].pc \in Stopped

\* The interleaved transactions implement the atomic ledger.
Abstract == INSTANCE StockLedger WITH
  movements <- {[key |-> m.key, kind |-> m.kind, variant |-> m.variant,
                 quantity |-> m.quantity] : m \in ledger},
  stock <- [v \in Variants |-> balance[v].quantity]

ImplementsLedger == Abstract!LedgerSpec
=============================================================================
