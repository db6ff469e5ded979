------------------------------ MODULE AiCredits ------------------------------
(***************************************************************************)
(* AiCreditService: the ledger of Webillify AI credits of one organization.*)
(* A charge (consume) and its refund are SERIALIZABLE transactions that    *)
(* first lock the ai_subscriptions row and are repeated after SQLSTATE     *)
(* 40001.  The row lock does not change the row, so a transaction that     *)
(* waited for it goes on with the snapshot it took before it waited; only  *)
(* the conflict detection of SERIALIZABLE keeps it from charging against a *)
(* balance that is no longer there.                                        *)
(*                                                                         *)
(* External, and modelled from how the service reads their rows: billing,  *)
(* which grants the credits of a month and moves the period once the old   *)
(* one is over; the clock; PostgreSQL; the callers, who may name any       *)
(* reference again, concurrently or after an answer was lost.              *)
(***************************************************************************)
EXTENDS Integers, FiniteSets, Functions

CONSTANTS Calls,          \* calls of consume and refund
          References,     \* capability and reference of an AI request
          Charges,        \* credits a request may cost
          MonthlyCredits, \* credits that billing grants for a period
          PeriodLength,   \* length of a billing period on the clock
          MaxTime,        \* bound: where the clock stops
          MaxAttempts,    \* attempts of serializableTransaction: 3 in the code
          None            \* no call, no request, no snapshot

ASSUME ChargeAssumption == Charges \subseteq Nat \ {0}
ASSUME GrantAssumption == MonthlyCredits \in Nat
ASSUME TimeAssumption == PeriodLength \in Nat \ {0} /\ MaxTime \in Nat
ASSUME AttemptAssumption == MaxAttempts \in Nat \ {0}
ASSUME NoneAssumption == None \notin Calls

VARIABLES now,     \* the clock
          ai,      \* the row of ai_subscriptions
          ledger,  \* committed rows of ai_credit_ledger
          lock,    \* the call that holds the ai_subscriptions row
          call     \* what each call is doing

vars == <<now, ai, ledger, lock, call>>

Times == 0..(MaxTime + PeriodLength)
Subscriptions == [active : BOOLEAN, periodEnd : Times]

\* Rows are unique by type and reference; a refund names the charge it undoes,
\* a grant the end of its period.
Entries ==
  [type : {"CONSUME", "REFUND"}, ref : References, credits : Int,
   expires : Times]
  \cup [type : {"GRANT"}, ref : Times, credits : Int, expires : Times]
Requests == [op : {"consume"}, ref : References, credits : Charges]
            \cup [op : {"refund"}, ref : References]

RowsOf(rows, type, ref) == {e \in rows : e.type = type /\ e.ref = ref}
Credits(rows) == SumFunction([e \in rows |-> e.credits])

\* balance: the entries that have not expired.
Available(rows, t) == Credits({e \in rows : e.expires > t})

\* isSubscriptionUsable.
Usable(sub, t) == sub.active /\ sub.periodEnd > t

Grant(end) ==
  [type |-> "GRANT", ref |-> end, credits |-> MonthlyCredits, expires |-> end]

Running == {"begin", "lock", "decide", "write"}
Stopped == {"idle", "done", "replayed", "reference_conflict", "exhausted",
            "inactive", "not_found", "failed", "lost"}
Snapshots == [core : BOOLEAN, ai : Subscriptions, rows : SUBSET Entries]
CallStates ==
  [pc : Running \cup Stopped, attempt : 1..MaxAttempts,
   req : Requests \cup {None}, seen : Snapshots \cup {None}, at : Times]

Init ==
  /\ now = 0
  /\ ai = [active |-> TRUE, periodEnd |-> PeriodLength]
  /\ ledger = {Grant(PeriodLength)}
  /\ lock = None
  /\ call = [c \in Calls |-> [pc |-> "idle", attempt |-> 1, req |-> None,
                              seen |-> None, at |-> 0]]

----------------------------------------------------------------------------
\* The world around the service.
Tick ==
  /\ now < MaxTime
  /\ now' = now + 1
  /\ UNCHANGED <<ai, ledger, lock, call>>

\* Billing writes the subscription row, so it waits for the row lock.
Renew ==
  /\ lock = None
  /\ now >= ai.periodEnd
  /\ ai' = [active |-> TRUE, periodEnd |-> now + PeriodLength]
  /\ ledger' = ledger \cup {Grant(now + PeriodLength)}
  /\ UNCHANGED <<now, lock, call>>

CancelAi ==
  /\ lock = None
  /\ ai.active
  /\ ai' = [ai EXCEPT !.active = FALSE]
  /\ UNCHANGED <<now, ledger, lock, call>>

----------------------------------------------------------------------------
\* An attempt starts with SELECT ... FOR UPDATE, which takes the snapshot of the
\* transaction before it waits for the row.  The core subscription is external
\* and only read: it is active in the snapshot or it is not.
Begin(c, req, attempt) ==
  \E core \in BOOLEAN :
    call' = [call EXCEPT ![c] =
      [pc |-> "lock", attempt |-> attempt, req |-> req, at |-> 0,
       seen |-> [core |-> core, ai |-> ai, rows |-> ledger]]]

Submit(c, req) ==
  /\ call[c].pc = "idle"
  /\ Begin(c, req, 1)
  /\ UNCHANGED <<now, ai, ledger, lock>>

Retry(c) ==
  /\ call[c].pc = "begin"
  /\ Begin(c, call[c].req, call[c].attempt)
  /\ UNCHANGED <<now, ai, ledger, lock>>

\* Slip: the attempts are not counted.
RetryForEver(c) ==
  [call[c] EXCEPT !.pc = "begin", !.attempt = @ + 1, !.seen = None, !.at = 0]
\* serializableTransaction: roll back and try again, at most MaxAttempts times.
RetryOrFail(c) ==
  IF call[c].attempt < MaxAttempts
  THEN [call[c] EXCEPT !.pc = "begin", !.attempt = @ + 1, !.seen = None,
                        !.at = 0]
  ELSE [call[c] EXCEPT !.pc = "failed", !.seen = None, !.at = 0]

\* The row is granted when its holder ended and nobody changed it meanwhile;
\* then the service reads the clock ...
LockAiSubscription(c) ==
  /\ call[c].pc = "lock"
  /\ lock = None
  /\ ai = call[c].seen.ai
  /\ lock' = c
  /\ call' = [call EXCEPT ![c].pc = "decide", ![c].at = now]
  /\ UNCHANGED <<now, ai, ledger>>

\* ... and if billing changed it the statement fails with 40001.
LockConflict(c) ==
  /\ call[c].pc = "lock"
  /\ lock = None
  /\ ai # call[c].seen.ai
  /\ call' = [call EXCEPT ![c] = RetryOrFail(c)]
  /\ UNCHANGED <<now, ai, ledger, lock>>

\* The transaction ends and its lock with it.
Finish(c, answer) ==
  /\ call' = [call EXCEPT ![c].pc = answer, ![c].seen = None,
                          ![c].at = 0]
  /\ lock' = None

Subscribed(c) == call[c].seen.core /\ Usable(call[c].seen.ai, call[c].at)
SeenRows(c, type) == RowsOf(call[c].seen.rows, type, call[c].req.ref)

\* Slip: any charge under the reference is taken for this one.
AnswersAnyCharge(e, req) == TRUE
\* The stored charge answers this request when it cost the same.
AnswersCharge(e, req) == e.credits = -req.credits

\* consume, decided from the snapshot: the subscriptions, then the charge that
\* already stands under the reference, then the balance.
DecideConsume(c) ==
  LET charged == SeenRows(c, "CONSUME")
      enough == Available(call[c].seen.rows, call[c].at) >= call[c].req.credits
  IN  /\ call[c].pc = "decide"
      /\ call[c].req.op = "consume"
      /\ \/ /\ ~Subscribed(c)
            /\ Finish(c, "inactive")
         \/ /\ Subscribed(c)
            /\ \E e \in charged :
                 Finish(c, IF AnswersCharge(e, call[c].req)
                           THEN "replayed" ELSE "reference_conflict")
         \/ /\ Subscribed(c) /\ charged = {} /\ ~enough
            /\ Finish(c, "exhausted")
         \/ /\ Subscribed(c) /\ charged = {} /\ enough
            /\ call' = [call EXCEPT ![c].pc = "write"]
            /\ UNCHANGED lock
      /\ UNCHANGED <<now, ai, ledger>>

\* refund looks at no subscription: a charge that was not refunded yet is.
DecideRefund(c) ==
  LET charged == SeenRows(c, "CONSUME")
      refunded == SeenRows(c, "REFUND")
  IN  /\ call[c].pc = "decide"
      /\ call[c].req.op = "refund"
      /\ \/ /\ charged = {}
            /\ Finish(c, "not_found")
         \/ /\ charged # {} /\ refunded # {}
            /\ Finish(c, "replayed")
         \/ /\ charged # {} /\ refunded = {}
            /\ call' = [call EXCEPT ![c].pc = "write"]
            /\ UNCHANGED lock
      /\ UNCHANGED <<now, ai, ledger>>

\* Slip: a refund copies the credits of the charge with their sign.
EntryUnsigned(c) ==
  LET req == call[c].req
      charge == CHOOSE e \in SeenRows(c, "CONSUME") : TRUE
  IN  [type |-> IF req.op = "consume" THEN "CONSUME" ELSE "REFUND",
       ref |-> req.ref,
       credits |-> IF req.op = "consume" THEN -req.credits ELSE charge.credits,
       expires |-> call[c].seen.ai.periodEnd]
\* The row that is inserted; both kinds expire with the period in which they
\* are written.
Entry(c) ==
  LET req == call[c].req
      charge == CHOOSE e \in SeenRows(c, "CONSUME") : TRUE
  IN  [type |-> IF req.op = "consume" THEN "CONSUME" ELSE "REFUND",
       ref |-> req.ref,
       credits |-> IF req.op = "consume" THEN -req.credits ELSE -charge.credits,
       expires |-> call[c].seen.ai.periodEnd]

\* Slip: the row lock alone is trusted to order the transactions.
LockIsEnough(c) == TRUE
\* Charges and refunds all read the balance, so one that committed after this
\* snapshot was taken conflicts with this one in both directions.
ReadsStillHold(c) ==
  \A e \in ledger \ call[c].seen.rows : e.type = "GRANT"

Commit(c) ==
  /\ call[c].pc = "write"
  /\ ReadsStillHold(c)
  /\ ledger' = ledger \cup {Entry(c)}
  /\ Finish(c, "done")
  /\ UNCHANGED <<now, ai>>

CommitConflict(c) ==
  /\ call[c].pc = "write"
  /\ ~ReadsStillHold(c)
  /\ call' = [call EXCEPT ![c] = RetryOrFail(c)]
  /\ lock' = None
  /\ UNCHANGED <<now, ai, ledger>>

\* The process dies before the commit, and PostgreSQL rolls back ...
Crash(c) ==
  /\ call[c].pc \in Running
  /\ call' = [call EXCEPT ![c].pc = "lost", ![c].seen = None,
                          ![c].at = 0]
  /\ lock' = IF lock = c THEN None ELSE lock
  /\ UNCHANGED <<now, ai, ledger>>

\* ... or after it, before the caller has its answer.
LoseAnswer(c) ==
  /\ call[c].pc = "done"
  /\ call' = [call EXCEPT ![c].pc = "lost"]
  /\ UNCHANGED <<now, ai, ledger, lock>>

Step(c) ==
  \/ Retry(c) \/ LockAiSubscription(c) \/ LockConflict(c)
  \/ DecideConsume(c) \/ DecideRefund(c) \/ Commit(c) \/ CommitConflict(c)

Next ==
  \/ Tick \/ Renew \/ CancelAi
  \/ \E c \in Calls :
       \/ \E req \in Requests : Submit(c, req)
       \/ Step(c)
       \/ Crash(c)
       \/ LoseAnswer(c)

Spec == Init /\ [][Next]_vars

----------------------------------------------------------------------------
\* The types of the rows and of the calls; in particular no call makes more
\* attempts than the service allows.
TypeOK ==
  /\ now \in 0..MaxTime
  /\ ai \in Subscriptions
  /\ ledger \subseteq Entries
  /\ lock \in Calls \cup {None}
  /\ call \in [Calls -> CallStates]

\* In no period is more charged than was granted for it and refunded in it:
\* concurrent charges do not spend one balance twice and expired credits are
\* not spent (the balance check of consume, the expiry of every entry).
NoPeriodOverspent ==
  \A end \in {e.expires : e \in ledger} :
    Credits({e \in ledger : e.expires = end}) >= 0

\* A reference is charged once and a charge refunded at most once and in full,
\* whoever repeats the call and however the calls interleave.
MovedOnce ==
  /\ \A d, e \in ledger : d.type = e.type /\ d.ref = e.ref => d = e
  /\ \A r \in ledger : r.type = "REFUND" =>
       \E e \in ledger : /\ e.type = "CONSUME" /\ e.ref = r.ref
                         /\ e.credits = -r.credits

\* Who was told that a charge or a refund is done, now or earlier, finds it in
\* the ledger, a charge with the amount of the request.
AnswersAreTrue ==
  \A c \in Calls :
    LET req == call[c].req
    IN  call[c].pc \in {"done", "replayed"} =>
          \E e \in ledger :
            /\ e.ref = req.ref
            /\ \/ /\ req.op = "consume" /\ e.type = "CONSUME"
                  /\ e.credits = -req.credits
               \/ req.op = "refund" /\ e.type = "REFUND"
=============================================================================
