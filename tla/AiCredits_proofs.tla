-------------------------- MODULE AiCredits_proofs --------------------------
(***************************************************************************)
(* What AiCredits promises for any number of calls, references, charges,   *)
(* periods and attempts.  The row lock orders the calls against billing,   *)
(* but not against each other: the holder of the lock may decide from a    *)
(* snapshot that is older than the last charge.  At its commit the         *)
(* snapshot is the ledger, because grants come with a new period, for      *)
(* which the lock fails, and charges and refunds conflict.                 *)
(***************************************************************************)
EXTENDS AiCredits, FiniteSetTheorems, SumTheorems, TLAPS

\* A call that was submitted has a request, and from its first statement to
\* the last it has a snapshot.
InCall ==
  \A c \in Calls :
    /\ call[c].pc # "idle" => call[c].req \in Requests
    /\ call[c].pc \in {"lock", "decide", "write"} => call[c].seen \in Snapshots

TypeInv == TypeOK /\ InCall /\ IsFiniteSet(ledger)

\* The holder of the row is the call that decides or writes.
Locking == \A c \in Calls : lock = c <=> call[c].pc \in {"decide", "write"}

\* What has not expired expires with the current period.
Periods == \A e \in ledger : e.expires = ai.periodEnd \/ e.expires <= now

\* A snapshot never runs ahead of the ledger, and has seen every grant while
\* the period is the same, which the row lock guarantees.
Snapshot ==
  \A c \in Calls :
    LET seen == call[c].seen
    IN  /\ call[c].pc \in {"lock", "decide", "write"} =>
             /\ seen.rows \subseteq ledger
             /\ seen.ai.periodEnd <= ai.periodEnd
             /\ seen.ai.periodEnd = ai.periodEnd =>
                  \A e \in ledger : e.type = "GRANT" => e \in seen.rows
        /\ call[c].pc \in {"decide", "write"} =>
             /\ seen.ai = ai
             /\ \A e \in seen.rows :
                  e.expires = ai.periodEnd \/ e.expires <= call[c].at

OfPeriod(rows, end) == {e \in rows : e.expires = end}

\* A call writes only what it decided on: a first charge that the period can
\* pay, or the first refund of a charge.
Decided ==
  \A c \in Calls : call[c].pc = "write" =>
    LET req == call[c].req
        seen == call[c].seen
    IN  \/ /\ req.op = "consume"
           /\ RowsOf(seen.rows, "CONSUME", req.ref) = {}
           /\ Credits(OfPeriod(seen.rows, ai.periodEnd)) >= req.credits
        \/ /\ req.op = "refund"
           /\ RowsOf(seen.rows, "REFUND", req.ref) = {}
           /\ RowsOf(seen.rows, "CONSUME", req.ref) # {}

\* A row carries the sign of its type; one grant is made for a period.
Signed ==
  \A e \in ledger :
    /\ e.type = "CONSUME" => e.credits < 0
    /\ e.type = "GRANT" => e = Grant(e.ref)

IInv == /\ TypeInv /\ Locking /\ Periods /\ Snapshot /\ Decided /\ Signed
        /\ NoPeriodOverspent /\ MovedOnce /\ AnswersAreTrue

----------------------------------------------------------------------------
\* Ending a transaction releases the lock and keeps the types.
LEMMA FinishType ==
  ASSUME TypeInv, NEW c \in Calls, NEW answer \in Stopped \ {"idle"},
         call[c].pc # "idle", Finish(c, answer)
  PROVE  call' \in [Calls -> CallStates] /\ InCall' /\ lock' = None
<1>1. call[c] \in CallStates /\ 0 \in Times
  BY TimeAssumption DEF TypeInv, TypeOK, Times
<1>2. [call[c] EXCEPT !.pc = answer, !.seen = None, !.at = 0] \in CallStates
  BY <1>1 DEF CallStates
<1>3. call' = [call EXCEPT ![c] =
                 [call[c] EXCEPT !.pc = answer, !.seen = None, !.at = 0]]
  BY DEF Finish, TypeInv, TypeOK
<1>4. call' \in [Calls -> CallStates]
  BY <1>2, <1>3 DEF TypeInv, TypeOK
<1>5. InCall'
  BY <1>1, <1>3 DEF TypeInv, TypeOK, InCall, CallStates, Stopped
<1> QED
  BY <1>4, <1>5 DEF Finish

\* So does retrying, or giving up after the last attempt.
LEMMA RetryType ==
  ASSUME TypeInv, NEW c \in Calls, call[c].pc \in Running,
         call' = [call EXCEPT ![c] = RetryOrFail(c)]
  PROVE  /\ call' \in [Calls -> CallStates] /\ InCall'
         /\ call'[c].pc \in {"begin", "failed"}
         /\ call'[c].req = call[c].req
         /\ \A d \in Calls \ {c} : call'[d] = call[d]
<1>1. call[c] \in CallStates /\ 0 \in Times
  BY TimeAssumption DEF TypeInv, TypeOK, Times
<1>2. /\ RetryOrFail(c) \in CallStates
      /\ RetryOrFail(c).req = call[c].req
      /\ RetryOrFail(c).pc \in {"begin", "failed"}
  <2>1. CASE call[c].attempt < MaxAttempts
    <3>1. call[c].attempt + 1 \in 1..MaxAttempts
      BY <1>1, <2>1, AttemptAssumption DEF CallStates
    <3> QED
      BY <1>1, <2>1, <3>1 DEF RetryOrFail, CallStates, Running, Stopped
  <2>2. CASE ~(call[c].attempt < MaxAttempts)
    BY <1>1, <2>2 DEF RetryOrFail, CallStates, Running, Stopped
  <2> QED
    BY <2>1, <2>2
<1>3. call' \in [Calls -> CallStates]
  BY <1>2 DEF TypeInv, TypeOK
<1>4. InCall'
  BY <1>1, <1>2 DEF TypeInv, TypeOK, InCall, Running
<1> QED
  BY <1>2, <1>3, <1>4 DEF TypeInv, TypeOK

\* An attempt starts with a snapshot of the tables.
LEMMA BeginType ==
  ASSUME TypeInv, NEW c \in Calls, NEW req \in Requests,
         NEW attempt \in 1..MaxAttempts, Begin(c, req, attempt)
  PROVE  /\ call' \in [Calls -> CallStates] /\ InCall'
         /\ call'[c].pc = "lock" /\ call'[c].req = req
         /\ call'[c].seen.ai = ai /\ call'[c].seen.rows = ledger
         /\ \A d \in Calls \ {c} : call'[d] = call[d]
<1>1. PICK core \in BOOLEAN :
        call' = [call EXCEPT ![c] =
          [pc |-> "lock", attempt |-> attempt, req |-> req, at |-> 0,
           seen |-> [core |-> core, ai |-> ai, rows |-> ledger]]]
  BY DEF Begin
<1>2. [core |-> core, ai |-> ai, rows |-> ledger] \in Snapshots
  BY DEF TypeInv, TypeOK, Snapshots
<1>3. 0 \in Times
  BY TimeAssumption DEF Times
<1>4. [pc |-> "lock", attempt |-> attempt, req |-> req, at |-> 0,
       seen |-> [core |-> core, ai |-> ai, rows |-> ledger]] \in CallStates
  BY <1>2, <1>3 DEF CallStates, Running
<1>5. call' \in [Calls -> CallStates]
  BY <1>1, <1>4 DEF TypeInv, TypeOK
<1>6. InCall'
  BY <1>1, <1>2 DEF TypeInv, TypeOK, InCall
<1> QED
  BY <1>1, <1>5, <1>6 DEF TypeInv, TypeOK

\* The row that is written: a charge of the request, or the refund of a charge
\* that stands in the ledger, in the period of the subscription.
LEMMA EntryShape ==
  ASSUME IInv, NEW c \in Calls, call[c].pc = "write"
  PROVE  /\ Entry(c) \in Entries
         /\ Entry(c).ref = call[c].req.ref
         /\ Entry(c).expires = ai.periodEnd
         /\ call[c].req.op = "consume" =>
              /\ Entry(c).type = "CONSUME"
              /\ Entry(c).credits = - call[c].req.credits
              /\ call[c].req.credits \in Nat \ {0}
         /\ call[c].req.op = "refund" =>
              /\ Entry(c).type = "REFUND"
              /\ \E e \in ledger : /\ e.type = "CONSUME"
                                   /\ e.ref = call[c].req.ref
                                   /\ Entry(c).credits = - e.credits
<1> DEFINE req == call[c].req
           charge == CHOOSE e \in SeenRows(c, "CONSUME") : TRUE
<1>1. req \in Requests /\ call[c].seen \in Snapshots
  BY DEF IInv, TypeInv, InCall
<1>2. call[c].seen.rows \subseteq ledger /\ call[c].seen.ai = ai
  BY DEF IInv, Snapshot
<1>3. ai.periodEnd \in Times /\ ledger \subseteq Entries
  BY DEF IInv, TypeInv, TypeOK, Subscriptions
<1>4. req.ref \in References /\ req.op \in {"consume", "refund"}
  BY <1>1 DEF Requests
<1>5. Entry(c) = [type |-> IF req.op = "consume" THEN "CONSUME" ELSE "REFUND",
                  ref |-> req.ref,
                  credits |-> IF req.op = "consume" THEN -req.credits
                              ELSE -charge.credits,
                  expires |-> ai.periodEnd]
  BY <1>2 DEF Entry
<1> HIDE DEF req, charge
<1>6. CASE req.op = "consume"
  <2>1. req.credits \in Nat \ {0}
    BY <1>1, <1>6, ChargeAssumption DEF Requests
  <2>2. Entry(c) \in Entries
    BY <1>3, <1>4, <1>5, <1>6, <2>1 DEF Entries
  <2> QED
    BY <1>5, <1>6, <2>1, <2>2 DEF req
<1>7. CASE req.op = "refund"
  <2>1. SeenRows(c, "CONSUME") # {}
    BY <1>7 DEF IInv, Decided, SeenRows, req
  <2>2. charge \in SeenRows(c, "CONSUME")
    BY <2>1 DEF charge
  <2>3. charge \in ledger /\ charge.type = "CONSUME" /\ charge.ref = req.ref
    BY <1>2, <2>2 DEF SeenRows, RowsOf, req
  <2>4. charge.credits \in Int
    BY <1>3, <2>3 DEF Entries
  <2>5. Entry(c) \in Entries
    BY <1>3, <1>4, <1>5, <1>7, <2>4 DEF Entries
  <2> QED
    BY <1>5, <1>7, <2>3, <2>5 DEF req
<1> QED
  BY <1>4, <1>6, <1>7

\* A decision either ends the call or lets it write.
LEMMA DecisionShape ==
  ASSUME NEW c \in Calls, DecideConsume(c) \/ DecideRefund(c)
  PROVE  /\ call[c].pc = "decide" /\ UNCHANGED <<now, ai, ledger>>
         /\ \/ \E answer \in {"inactive", "replayed", "reference_conflict",
                              "exhausted", "not_found"} : Finish(c, answer)
            \/ call' = [call EXCEPT ![c].pc = "write"] /\ UNCHANGED lock
BY DEF DecideConsume, DecideRefund

\* Each statement of a transaction keeps the types.
LEMMA TypeStep ==
  ASSUME IInv, [Next]_vars
  PROVE  TypeInv'
<1> USE DEF IInv, TypeInv
<1>1. CASE Tick
  <2>1. now + 1 \in 0..MaxTime
    BY <1>1, TimeAssumption DEF Tick, TypeOK
  <2> QED
    BY <1>1, <2>1 DEF Tick, TypeOK, InCall
<1>2. CASE Renew
  <2>1. now + PeriodLength \in Times
    BY TimeAssumption DEF TypeOK, Times
  <2>2. Grant(now + PeriodLength) \in Entries
    BY <2>1, GrantAssumption DEF Grant, Entries
  <2>3. IsFiniteSet(ledger')
    BY <1>2, FS_AddElement DEF Renew
  <2> QED
    BY <1>2, <2>1, <2>2, <2>3 DEF Renew, TypeOK, Subscriptions, InCall
<1>3. CASE CancelAi
  BY <1>3 DEF CancelAi, TypeOK, Subscriptions, InCall
<1>4. ASSUME NEW c \in Calls, NEW req \in Requests, Submit(c, req)
      PROVE  TypeInv'
  <2>1. 1 \in 1..MaxAttempts
    BY AttemptAssumption
  <2> QED
    BY <1>4, <2>1, BeginType DEF Submit, TypeOK
<1>5. ASSUME NEW c \in Calls, Retry(c)
      PROVE  TypeInv'
  <2>1. call[c].req \in Requests /\ call[c].attempt \in 1..MaxAttempts
    BY <1>5 DEF Retry, InCall, TypeOK, CallStates
  <2> QED
    BY <1>5, <2>1, BeginType DEF Retry, TypeOK
<1>6. ASSUME NEW c \in Calls, LockAiSubscription(c)
      PROVE  TypeInv'
  <2>1. now \in Times /\ call[c] \in CallStates
    BY TimeAssumption DEF TypeOK, Times
  <2>2. [call[c] EXCEPT !.pc = "decide", !.at = now] \in CallStates
    BY <2>1 DEF CallStates, Running
  <2>3. call' = [call EXCEPT ![c] = [call[c] EXCEPT !.pc = "decide", !.at = now]]
    BY <1>6 DEF LockAiSubscription, TypeOK
  <2> QED
    BY <1>6, <2>1, <2>2, <2>3 DEF LockAiSubscription, TypeOK, InCall, CallStates
<1>7. ASSUME NEW c \in Calls, LockConflict(c)
      PROVE  TypeInv'
  BY <1>7, RetryType DEF LockConflict, Running, TypeOK
<1>8. ASSUME NEW c \in Calls, DecideConsume(c) \/ DecideRefund(c)
      PROVE  TypeInv'
  <2>1. CASE \E answer \in {"inactive", "replayed", "reference_conflict",
                            "exhausted", "not_found"} : Finish(c, answer)
    BY <1>8, <2>1, DecisionShape, FinishType DEF TypeOK, Stopped
  <2>2. CASE call' = [call EXCEPT ![c].pc = "write"] /\ UNCHANGED lock
    BY <1>8, <2>2, DecisionShape DEF TypeOK, InCall, CallStates, Running
  <2> QED
    BY <1>8, <2>1, <2>2, DecisionShape
<1>9. ASSUME NEW c \in Calls, Commit(c)
      PROVE  TypeInv'
  <2>1. Entry(c) \in Entries
    BY <1>9, EntryShape DEF Commit
  <2>2. IsFiniteSet(ledger')
    BY <1>9, FS_AddElement DEF Commit
  <2> QED
    BY <1>9, <2>1, <2>2, FinishType DEF Commit, TypeOK, Stopped
<1>10. ASSUME NEW c \in Calls, CommitConflict(c)
       PROVE  TypeInv'
  BY <1>10, RetryType DEF CommitConflict, Running, TypeOK
<1>11. ASSUME NEW c \in Calls, Crash(c)
       PROVE  TypeInv'
  <2>1. call[c] \in CallStates /\ 0 \in Times
    BY TimeAssumption DEF TypeOK, Times
  <2>2. [call[c] EXCEPT !.pc = "lost", !.seen = None, !.at = 0] \in CallStates
    BY <2>1 DEF CallStates, Stopped
  <2>3. call' = [call EXCEPT ![c] =
                   [call[c] EXCEPT !.pc = "lost", !.seen = None, !.at = 0]]
    BY <1>11 DEF Crash, TypeOK
  <2> QED
    BY <1>11, <2>1, <2>2, <2>3 DEF Crash, TypeOK, InCall, CallStates, Running
<1>12. ASSUME NEW c \in Calls, LoseAnswer(c)
       PROVE  TypeInv'
  BY <1>12 DEF LoseAnswer, TypeOK, InCall, CallStates, Stopped
<1>13. CASE UNCHANGED vars
  BY <1>13 DEF vars, TypeOK, InCall
<1> QED
  BY <1>1, <1>2, <1>3, <1>4, <1>5, <1>6, <1>7, <1>8, <1>9, <1>10, <1>11,
     <1>12, <1>13 DEF Next, Step

\* The granted credits with which a subscription starts satisfy the invariant.
LEMMA InitInv ==
  Init => IInv
<1> SUFFICES ASSUME Init
             PROVE  IInv
  OBVIOUS
<1>1. PeriodLength \in Times /\ 0 \in Times /\ 1 \in 1..MaxAttempts
  BY TimeAssumption, AttemptAssumption DEF Times
<1>2. Grant(PeriodLength) \in Entries
  BY <1>1, GrantAssumption DEF Grant, Entries
<1>3. TypeOK
  BY <1>1, <1>2, TimeAssumption
  DEF Init, TypeOK, Subscriptions, CallStates, Stopped
<1>4. IsFiniteSet(ledger)
  BY FS_Singleton DEF Init
<1>5. InCall /\ Locking /\ Snapshot /\ Decided /\ AnswersAreTrue
  BY NoneAssumption DEF Init, InCall, Locking, Snapshot, Decided, AnswersAreTrue
<1>6. Periods /\ Signed /\ MovedOnce
  BY DEF Init, Periods, Signed, MovedOnce, Grant
<1>7. NoPeriodOverspent
  <2>1. SUFFICES ASSUME NEW end \in {e.expires : e \in ledger}
                 PROVE  Credits({e \in ledger : e.expires = end}) >= 0
    BY DEF NoPeriodOverspent
  <2> DEFINE S == {e \in ledger : e.expires = end}
             f == [e \in S |-> e.credits]
  <2>2. IsFiniteSet(S)
    BY <1>4, FS_Subset
  <2>3. f \in [S -> Int] /\ \A e \in S : f[e] >= 0
    BY GrantAssumption DEF Init, Grant
  <2> HIDE DEF S, f
  <2>4. SumFunction(f) >= 0
    BY <2>2, <2>3, SumNonNegative
  <2> QED
    BY <2>4 DEF Credits, S, f
<1> QED
  BY <1>3, <1>4, <1>5, <1>6, <1>7 DEF IInv, TypeInv

----------------------------------------------------------------------------
\* What a call leaves behind that ends its transaction without writing.
LEMMA EndShape ==
  ASSUME IInv, NEW c \in Calls,
         \/ LockConflict(c) \/ CommitConflict(c) \/ Crash(c) \/ LoseAnswer(c)
         \/ /\ DecideConsume(c) \/ DecideRefund(c)
            /\ ~(call' = [call EXCEPT ![c].pc = "write"] /\ UNCHANGED lock)
  PROVE  /\ UNCHANGED <<now, ai, ledger>>
         /\ call'[c].pc \in {"begin", "failed", "lost", "inactive", "replayed",
                             "reference_conflict", "exhausted", "not_found"}
         /\ call'[c].req = call[c].req
         /\ \A d \in Calls \ {c} : call'[d] = call[d]
         /\ lock' = IF lock = c THEN None ELSE lock
<1> USE DEF IInv, TypeInv
<1>0. call \in [Calls -> CallStates] /\ c # None
  BY NoneAssumption DEF TypeOK
<1>1. CASE LockConflict(c)
  <2>1. call[c].pc = "lock" /\ lock = None
    BY <1>1 DEF LockConflict
  <2> QED
    BY <1>0, <1>1, <2>1, RetryType DEF LockConflict, Running
<1>2. CASE CommitConflict(c)
  <2>1. call[c].pc = "write" /\ lock = c
    BY <1>2 DEF CommitConflict, Locking
  <2> QED
    BY <1>2, <2>1, RetryType DEF CommitConflict, Running
<1>3. CASE Crash(c) \/ LoseAnswer(c)
  BY <1>0, <1>3 DEF Crash, LoseAnswer, CallStates, Locking
<1>4. CASE /\ DecideConsume(c) \/ DecideRefund(c)
           /\ ~(call' = [call EXCEPT ![c].pc = "write"] /\ UNCHANGED lock)
  <2>1. PICK answer \in {"inactive", "replayed", "reference_conflict",
                         "exhausted", "not_found"} : Finish(c, answer)
    BY <1>4, DecisionShape
  <2>2. call[c].pc = "decide" /\ lock = c /\ UNCHANGED <<now, ai, ledger>>
    BY <1>4, DecisionShape DEF Locking
  <2>3. /\ call'[c].pc = answer /\ call'[c].req = call[c].req
        /\ \A d \in Calls \ {c} : call'[d] = call[d]
    BY <1>0, <2>1 DEF Finish, CallStates
  <2> QED
    BY <2>1, <2>2, <2>3 DEF Finish
<1> QED
  BY <1>1, <1>2, <1>3, <1>4

\* The call that commits holds the row, its snapshot is the ledger, and the
\* ledger has no row of its kind under its reference.
LEMMA CommitShape ==
  ASSUME IInv, NEW c \in Calls, Commit(c)
  PROVE  /\ lock = c /\ lock' = None
         /\ call[c].pc = "write" /\ call'[c].pc = "done"
         /\ call'[c].req = call[c].req
         /\ \A d \in Calls \ {c} : call'[d] = call[d]
         /\ ledger = call[c].seen.rows
         /\ ledger' = ledger \cup {Entry(c)} /\ UNCHANGED <<now, ai>>
         /\ \A e \in ledger :
              ~ (e.type = Entry(c).type /\ e.ref = Entry(c).ref)
<1> USE DEF IInv, TypeInv
<1>0. call \in [Calls -> CallStates] /\ call[c].pc = "write"
  BY DEF Commit, TypeOK
<1>1. lock = c /\ call[c].seen.rows \subseteq ledger /\ call[c].seen.ai = ai
  BY <1>0 DEF Locking, Snapshot
<1>2. \A e \in ledger : e.type = "GRANT" => e \in call[c].seen.rows
  BY <1>0, <1>1 DEF Snapshot
<1>3. ledger = call[c].seen.rows
  BY <1>1, <1>2 DEF Commit, ReadsStillHold
<1>4. \A e \in ledger : ~ (e.type = Entry(c).type /\ e.ref = Entry(c).ref)
  <2>1. \/ call[c].req.op = "consume" /\ RowsOf(ledger, "CONSUME", call[c].req.ref) = {}
        \/ call[c].req.op = "refund" /\ RowsOf(ledger, "REFUND", call[c].req.ref) = {}
    BY <1>0, <1>3 DEF Decided
  <2>2. /\ Entry(c).ref = call[c].req.ref
        /\ call[c].req.op = "consume" => Entry(c).type = "CONSUME"
        /\ call[c].req.op = "refund" => Entry(c).type = "REFUND"
    BY <1>0, EntryShape
  <2> QED
    BY <2>1, <2>2 DEF RowsOf
<1> QED
  BY <1>0, <1>1, <1>3, <1>4 DEF Commit, Finish, CallStates

\* The lock and the place of its holder move together.
LEMMA LockStep ==
  ASSUME IInv, Next
  PROVE  Locking'
<1> USE DEF IInv, TypeInv
<1>0. call \in [Calls -> CallStates] /\ None \notin Calls
  BY NoneAssumption DEF TypeOK
<1>1. CASE Tick \/ Renew \/ CancelAi
  BY <1>1 DEF Tick, Renew, CancelAi, Locking
<1>2. ASSUME NEW c \in Calls, NEW req \in Requests, Submit(c, req)
      PROVE  Locking'
  BY <1>0, <1>2, BeginType, AttemptAssumption DEF Submit, Locking
<1>3. ASSUME NEW c \in Calls, Retry(c)
      PROVE  Locking'
  BY <1>0, <1>3, BeginType DEF Retry, Locking, InCall, CallStates
<1>4. ASSUME NEW c \in Calls, LockAiSubscription(c)
      PROVE  Locking'
  BY <1>0, <1>4 DEF LockAiSubscription, Locking, CallStates
<1>5. ASSUME NEW c \in Calls, DecideConsume(c) \/ DecideRefund(c),
             call' = [call EXCEPT ![c].pc = "write"], UNCHANGED lock
      PROVE  Locking'
  BY <1>0, <1>5, DecisionShape DEF Locking, CallStates
<1>6. ASSUME NEW c \in Calls,
             \/ LockConflict(c) \/ CommitConflict(c) \/ Crash(c) \/ LoseAnswer(c)
             \/ /\ DecideConsume(c) \/ DecideRefund(c)
                /\ ~(call' = [call EXCEPT ![c].pc = "write"] /\ UNCHANGED lock)
      PROVE  Locking'
  BY <1>0, <1>6, EndShape DEF Locking
<1>7. ASSUME NEW c \in Calls, Commit(c)
      PROVE  Locking'
  BY <1>0, <1>7, CommitShape DEF Locking
<1> QED
  BY <1>1, <1>2, <1>3, <1>4, <1>5, <1>6, <1>7 DEF Next, Step

\* What a snapshot says, after every step.
LEMMA SnapshotStep ==
  ASSUME IInv, Next
  PROVE  Snapshot'
<1> USE DEF IInv, TypeInv
<1>0. /\ call \in [Calls -> CallStates] /\ None \notin Calls
      /\ ai.periodEnd \in Int /\ now \in Int
      /\ \A c \in Calls : call[c].pc \in {"lock", "decide", "write"} =>
           call[c].seen.ai.periodEnd \in Int
  BY NoneAssumption, TimeAssumption
  DEF TypeOK, Subscriptions, Times, InCall, Snapshots
<1>1. CASE Tick
  BY <1>1 DEF Tick, Snapshot
<1>2. CASE Renew
  <2>1. \A c \in Calls : call[c].pc \notin {"decide", "write"}
    BY <1>0, <1>2 DEF Renew, Locking
  <2>2. ai'.periodEnd = now + PeriodLength /\ ai.periodEnd < ai'.periodEnd
    BY <1>0, <1>2, TimeAssumption DEF Renew
  <2>3. ledger \subseteq ledger' /\ call' = call
    BY <1>2 DEF Renew
  <2>4. ai'.periodEnd \in Int
    BY <1>0, <2>2, TimeAssumption
  <2>5. \A c \in Calls : call[c].pc = "lock" =>
          /\ call[c].seen.rows \subseteq ledger'
          /\ call[c].seen.ai.periodEnd < ai'.periodEnd
    <3>1. ASSUME NEW c \in Calls, call[c].pc = "lock"
          PROVE  /\ call[c].seen.rows \subseteq ledger
                 /\ call[c].seen.ai.periodEnd <= ai.periodEnd
                 /\ call[c].seen.ai.periodEnd \in Int
      BY <1>0, <3>1 DEF Snapshot
    <3> QED
      BY <1>0, <2>2, <2>3, <2>4, <3>1
  <2> QED
    BY <1>0, <2>1, <2>3, <2>4, <2>5 DEF Snapshot
<1>3. CASE CancelAi
  <2>1. \A c \in Calls : call[c].pc \notin {"decide", "write"}
    BY <1>0, <1>3 DEF CancelAi, Locking
  <2>2. ai'.periodEnd = ai.periodEnd /\ ledger' = ledger /\ call' = call
    BY <1>3 DEF CancelAi, TypeOK, Subscriptions
  <2> QED
    BY <2>1, <2>2 DEF Snapshot
<1>4. ASSUME NEW c \in Calls, NEW req \in Requests, Submit(c, req)
      PROVE  Snapshot'
  <2>1. 1 \in 1..MaxAttempts
    BY AttemptAssumption
  <2> QED
    BY <1>0, <1>4, <2>1, BeginType DEF Submit, Snapshot
<1>5. ASSUME NEW c \in Calls, Retry(c)
      PROVE  Snapshot'
  <2>1. call[c].req \in Requests /\ call[c].attempt \in 1..MaxAttempts
    BY <1>0, <1>5 DEF Retry, InCall, CallStates
  <2> QED
    BY <1>0, <1>5, <2>1, BeginType DEF Retry, Snapshot
<1>6. ASSUME NEW c \in Calls, LockAiSubscription(c)
      PROVE  Snapshot'
  <2>1. /\ \A d \in Calls \ {c} : call'[d] = call[d]
        /\ call'[c].seen = call[c].seen /\ call'[c].at = now
        /\ UNCHANGED <<ai, ledger>> /\ call[c].seen.ai = ai
        /\ call[c].pc = "lock"
    BY <1>0, <1>6 DEF LockAiSubscription, CallStates
  <2> QED
    BY <1>0, <2>1 DEF Snapshot, Periods
<1>7. ASSUME NEW c \in Calls, DecideConsume(c) \/ DecideRefund(c),
             call' = [call EXCEPT ![c].pc = "write"], UNCHANGED lock
      PROVE  Snapshot'
  <2>1. /\ \A d \in Calls \ {c} : call'[d] = call[d]
        /\ call'[c].seen = call[c].seen /\ call'[c].at = call[c].at
        /\ UNCHANGED <<ai, ledger>> /\ call[c].pc = "decide"
    BY <1>0, <1>7, DecisionShape DEF CallStates
  <2> QED
    BY <2>1 DEF Snapshot
<1>8. ASSUME NEW c \in Calls,
             \/ LockConflict(c) \/ CommitConflict(c) \/ Crash(c) \/ LoseAnswer(c)
             \/ /\ DecideConsume(c) \/ DecideRefund(c)
                /\ ~(call' = [call EXCEPT ![c].pc = "write"] /\ UNCHANGED lock)
      PROVE  Snapshot'
  BY <1>8, EndShape DEF Snapshot
<1>9. ASSUME NEW c \in Calls, Commit(c)
      PROVE  Snapshot'
  <2>1. \A d \in Calls \ {c} : call[d].pc \notin {"decide", "write"}
    BY <1>9, CommitShape DEF Locking
  <2>2. Entry(c).type # "GRANT"
    BY <1>9, EntryShape, CommitShape DEF InCall, Requests
  <2> QED
    BY <1>9, <2>1, <2>2, CommitShape DEF Snapshot
<1> QED
  BY <1>1, <1>2, <1>3, <1>4, <1>5, <1>6, <1>7, <1>8, <1>9 DEF Next, Step

\* What a call is going to write, after every step.
LEMMA DecidedStep ==
  ASSUME IInv, Next
  PROVE  Decided'
<1> USE DEF IInv, TypeInv
<1>0. call \in [Calls -> CallStates] /\ None \notin Calls
  BY NoneAssumption DEF TypeOK
<1>1. CASE Tick
  BY <1>1 DEF Tick, Decided
<1>2. CASE Renew \/ CancelAi
  <2>1. \A c \in Calls : call[c].pc # "write"
    BY <1>0, <1>2 DEF Renew, CancelAi, Locking
  <2> QED
    BY <1>2, <2>1 DEF Renew, CancelAi, Decided
<1>3. ASSUME NEW c \in Calls, UNCHANGED ai, call'[c].pc # "write",
             \A d \in Calls \ {c} : call'[d] = call[d]
      PROVE  Decided'
  BY <1>3 DEF Decided
<1>4. ASSUME NEW c \in Calls, NEW req \in Requests, Submit(c, req)
      PROVE  Decided'
  <2>1. 1 \in 1..MaxAttempts
    BY AttemptAssumption
  <2> QED
    BY <1>3, <1>4, <2>1, BeginType DEF Submit
<1>5. ASSUME NEW c \in Calls, Retry(c)
      PROVE  Decided'
  <2>1. call[c].req \in Requests /\ call[c].attempt \in 1..MaxAttempts
    BY <1>0, <1>5 DEF Retry, InCall, CallStates
  <2> QED
    BY <1>3, <1>5, <2>1, BeginType DEF Retry
<1>6. ASSUME NEW c \in Calls, LockAiSubscription(c)
      PROVE  Decided'
  BY <1>0, <1>3, <1>6 DEF LockAiSubscription, CallStates
<1>7. ASSUME NEW c \in Calls, DecideConsume(c) \/ DecideRefund(c),
             call' = [call EXCEPT ![c].pc = "write"], UNCHANGED lock
      PROVE  Decided'
  <2> DEFINE seen == call[c].seen
             req == call[c].req
  <2>1. /\ \A d \in Calls \ {c} : call'[d] = call[d]
        /\ call'[c].seen = seen /\ call'[c].req = req /\ UNCHANGED ai
        /\ call[c].pc = "decide"
    BY <1>0, <1>7, DecisionShape DEF CallStates
  <2>2. /\ seen.ai = ai /\ seen \in Snapshots /\ req \in Requests
        /\ \A e \in seen.rows : e.expires = ai.periodEnd \/ e.expires <= call[c].at
        /\ call[c].at \in Int
    BY <1>0, <2>1, TimeAssumption DEF Snapshot, InCall, CallStates, Times
  <2>0. \A answer : Finish(c, answer) => answer = "write"
    BY <1>0, <1>7 DEF Finish, CallStates
  <2>3. CASE DecideConsume(c)
    <3>1. Subscribed(c)
      BY <2>0, <2>3 DEF DecideConsume
    <3>2. /\ RowsOf(seen.rows, "CONSUME", req.ref) = {}
          /\ Available(seen.rows, call[c].at) >= req.credits
          /\ req.op = "consume"
      <4>1. SeenRows(c, "CONSUME") = {}
        BY <2>0, <2>3, <3>1 DEF DecideConsume
      <4> QED
        BY <2>0, <2>3, <3>1, <4>1 DEF DecideConsume, SeenRows
    <3>3. ai.periodEnd > call[c].at /\ ai.periodEnd \in Int
      BY <2>2, <3>1, TimeAssumption
      DEF Subscribed, Usable, TypeOK, Subscriptions, Times
    <3>4. {e \in seen.rows : e.expires > call[c].at}
            = OfPeriod(seen.rows, ai.periodEnd)
      <4>1. \A e \in seen.rows : e.expires \in Int
        BY <2>2, TimeAssumption DEF Snapshots, Entries, Times
      <4> QED
        BY <2>2, <3>3, <4>1 DEF OfPeriod
    <3>5. Credits(OfPeriod(seen.rows, ai.periodEnd)) >= req.credits
      BY <3>2, <3>4 DEF Available
    <3> QED
      BY <2>1, <3>2, <3>5 DEF Decided
  <2>4. CASE DecideRefund(c)
    <3>1. /\ RowsOf(seen.rows, "CONSUME", req.ref) # {}
          /\ RowsOf(seen.rows, "REFUND", req.ref) = {}
          /\ req.op = "refund"
      BY <2>0, <2>4 DEF DecideRefund, SeenRows
    <3> QED
      BY <2>1, <3>1 DEF Decided
  <2> QED
    BY <1>7, <2>3, <2>4
<1>8. ASSUME NEW c \in Calls,
             \/ LockConflict(c) \/ CommitConflict(c) \/ Crash(c) \/ LoseAnswer(c)
             \/ /\ DecideConsume(c) \/ DecideRefund(c)
                /\ ~(call' = [call EXCEPT ![c].pc = "write"] /\ UNCHANGED lock)
      PROVE  Decided'
  BY <1>3, <1>8, EndShape
<1>9. ASSUME NEW c \in Calls, Commit(c)
      PROVE  Decided'
  BY <1>3, <1>9, CommitShape
<1> QED
  BY <1>1, <1>2, <1>4, <1>5, <1>6, <1>7, <1>8, <1>9 DEF Next, Step

\* What a call that does not commit does to the tables: nothing.
LEMMA OnlyCommitWrites ==
  ASSUME IInv, NEW c \in Calls,
         \/ \E req \in Requests : Submit(c, req)
         \/ Step(c) \/ Crash(c) \/ LoseAnswer(c)
  PROVE  Commit(c) \/ UNCHANGED <<now, ai, ledger>>
BY DEF Submit, Step, Retry, LockAiSubscription, LockConflict, DecideConsume,
   DecideRefund, CommitConflict, Crash, LoseAnswer

\* The rows keep their periods, their signs and their keys.
LEMMA LedgerStep ==
  ASSUME IInv, Next
  PROVE  Periods' /\ Signed' /\ MovedOnce'
<1> USE DEF IInv, TypeInv
<1>0. /\ now \in Int /\ ai.periodEnd \in Int
      /\ \A e \in ledger : e.expires \in Int
  BY TimeAssumption DEF TypeOK, Subscriptions, Times, Entries
<1>1. CASE Tick
  BY <1>0, <1>1 DEF Tick, Periods, Signed, MovedOnce
<1>2. CASE Renew
  <2> DEFINE end == now + PeriodLength
  <2>1. /\ ledger' = ledger \cup {Grant(end)} /\ now' = now
        /\ ai'.periodEnd = end /\ ai.periodEnd <= now
    BY <1>0, <1>2 DEF Renew
  <2>2. Grant(end).type = "GRANT" /\ Grant(end).ref = end /\ Grant(end).expires = end
    BY DEF Grant
  <2> HIDE DEF end
  <2>3. Periods'
    BY <1>0, <2>1, <2>2 DEF Periods
  <2>4. Signed'
    BY <2>1, <2>2 DEF Signed
  <2>5. MovedOnce'
    BY <2>1, <2>2 DEF Signed, MovedOnce
  <2> QED
    BY <2>3, <2>4, <2>5
<1>3. CASE CancelAi
  BY <1>3 DEF CancelAi, Periods, Signed, MovedOnce, TypeOK, Subscriptions
<1>4. ASSUME NEW c \in Calls, Commit(c)
      PROVE  Periods' /\ Signed' /\ MovedOnce'
  <2>1. /\ call[c].pc = "write" /\ ledger' = ledger \cup {Entry(c)}
        /\ UNCHANGED <<now, ai>>
        /\ \A e \in ledger : ~ (e.type = Entry(c).type /\ e.ref = Entry(c).ref)
    BY <1>4, CommitShape
  <2>2. call[c].req.op \in {"consume", "refund"} /\ Entry(c).expires = ai.periodEnd
    BY <2>1, EntryShape DEF InCall, Requests
  <2>3. CASE call[c].req.op = "consume"
    <3>1. Entry(c).type = "CONSUME" /\ Entry(c).credits < 0
      BY <2>1, <2>3, EntryShape
    <3> QED
      BY <2>1, <2>2, <3>1 DEF Periods, Signed, MovedOnce
  <2>4. CASE call[c].req.op = "refund"
    <3>1. /\ Entry(c).type = "REFUND"
          /\ \E e \in ledger : /\ e.type = "CONSUME" /\ e.ref = Entry(c).ref
                               /\ Entry(c).credits = - e.credits
                               /\ e.credits \in Int
      BY <2>1, <2>4, EntryShape DEF TypeOK, Entries
    <3>2. PICK e \in ledger : /\ e.type = "CONSUME" /\ e.ref = Entry(c).ref
                              /\ Entry(c).credits = - e.credits
                              /\ e.credits \in Int
      BY <3>1
    <3>3. e.credits = - Entry(c).credits
      BY <3>2
    <3>4. Periods' /\ Signed'
      BY <2>1, <2>2, <3>1 DEF Periods, Signed
    <3>5. MovedOnce'
      BY <2>1, <3>1, <3>2 DEF MovedOnce
    <3> QED
      BY <3>4, <3>5
  <2> QED
    BY <2>2, <2>3, <2>4
<1>5. CASE UNCHANGED <<now, ai, ledger>>
  BY <1>5 DEF Periods, Signed, MovedOnce
<1> QED
  BY <1>1, <1>2, <1>3, <1>4, <1>5, OnlyCommitWrites DEF Next

----------------------------------------------------------------------------
\* One more row adds its credits.
LEMMA CreditsAdd ==
  ASSUME NEW rows \in SUBSET Entries, IsFiniteSet(rows), NEW e \in Entries,
         e \notin rows
  PROVE  /\ Credits(rows) \in Int
         /\ Credits(rows \cup {e}) = Credits(rows) + e.credits
<1> DEFINE f == [d \in rows |-> d.credits]
           g == [d \in rows \cup {e} |-> d.credits]
<1>1. \A d \in Entries : d.credits \in Int
  BY DEF Entries
<1>2. f \in [rows -> Int] /\ g \in [rows \cup {e} -> Int]
  BY <1>1
<1>3. g[e] = e.credits /\ \A d \in rows : g[d] = f[d]
  OBVIOUS
<1> HIDE DEF f, g
<1>4. SumFunction(f) \in Int
  BY <1>2, SumType
<1>5. SumFunction(g) = SumFunction(f) + g[e]
  BY <1>2, <1>3, SumAdd
<1> QED
  BY <1>3, <1>4, <1>5 DEF Credits, f, g

\* No period is overspent, whether or not a row expires with it.
LEMMA EveryPeriod ==
  ASSUME IInv, NEW end
  PROVE  /\ Credits(OfPeriod(ledger, end)) >= 0
         /\ OfPeriod(ledger, end) \in SUBSET Entries
         /\ IsFiniteSet(OfPeriod(ledger, end))
<1>1. /\ OfPeriod(ledger, end) \in SUBSET Entries
      /\ IsFiniteSet(OfPeriod(ledger, end))
  BY FS_Subset DEF IInv, TypeInv, TypeOK, OfPeriod
<1>2. CASE end \in {e.expires : e \in ledger}
  <2>1. Credits(OfPeriod(ledger, end)) >= 0
    BY <1>2 DEF IInv, NoPeriodOverspent, OfPeriod
  <2> QED
    BY <1>1, <2>1
<1>3. CASE end \notin {e.expires : e \in ledger}
  <2>1. OfPeriod(ledger, end) = {}
    BY <1>3 DEF OfPeriod
  <2>2. Credits({}) = 0
    BY SumEmpty DEF Credits
  <2>3. Credits(OfPeriod(ledger, end)) = 0
    BY <2>1, <2>2
  <2> QED
    BY <1>1, <2>3
<1> QED
  BY <1>1, <1>2, <1>3

\* A row that joins the ledger is paid by its period.
LEMMA PaidRow ==
  ASSUME IInv, NEW e \in Entries, e \notin ledger, ledger' = ledger \cup {e},
         Credits(OfPeriod(ledger, e.expires)) + e.credits >= 0
  PROVE  NoPeriodOverspent'
<1> SUFFICES ASSUME NEW end
             PROVE  Credits(OfPeriod(ledger', end)) >= 0
  BY DEF NoPeriodOverspent, OfPeriod
<1>1. CASE end = e.expires
  <2>1. OfPeriod(ledger', end) = OfPeriod(ledger, end) \cup {e}
    BY <1>1 DEF OfPeriod
  <2>2. e \notin OfPeriod(ledger, end)
    BY DEF OfPeriod
  <2>3. Credits(OfPeriod(ledger, end) \cup {e})
          = Credits(OfPeriod(ledger, end)) + e.credits
    BY <2>2, EveryPeriod, CreditsAdd
  <2> QED
    BY <1>1, <2>1, <2>3
<1>2. CASE end # e.expires
  <2>1. OfPeriod(ledger', end) = OfPeriod(ledger, end)
    BY <1>2 DEF OfPeriod
  <2> QED
    BY <2>1, EveryPeriod
<1> QED
  BY <1>1, <1>2

\* Every period stays in credit: a grant opens its period, a charge was
\* decided from the rows that stand, a refund adds.
LEMMA PeriodStep ==
  ASSUME IInv, Next
  PROVE  NoPeriodOverspent'
<1> USE DEF IInv, TypeInv
<1>1. CASE Renew
  <2> DEFINE end == now + PeriodLength
  <2>1. /\ ledger' = ledger \cup {Grant(end)} /\ ai.periodEnd < end /\ now < end
        /\ end \in Times
    BY <1>1, TimeAssumption DEF Renew, TypeOK, Subscriptions, Times
  <2>2. /\ Grant(end) \in Entries /\ Grant(end).expires = end
        /\ Grant(end).credits >= 0 /\ Grant(end).credits \in Int
    BY <2>1, GrantAssumption DEF Grant, Entries
  <2> HIDE DEF end
  <2>3. \A e \in ledger : e.expires # end
    BY <2>1, TimeAssumption DEF Periods, TypeOK, Times, Entries
  <2>4. Grant(end) \notin ledger
    BY <2>2, <2>3
  <2>5. Credits(OfPeriod(ledger, end)) \in Int
    BY <2>2, <2>4, EveryPeriod, CreditsAdd DEF OfPeriod
  <2>6. Credits(OfPeriod(ledger, end)) + Grant(end).credits >= 0
    BY <2>2, <2>5, EveryPeriod
  <2> QED
    BY <2>1, <2>2, <2>4, <2>6, PaidRow
<1>2. ASSUME NEW c \in Calls, Commit(c)
      PROVE  NoPeriodOverspent'
  <2> DEFINE sum == Credits(OfPeriod(ledger, ai.periodEnd))
  <2>1. /\ call[c].pc = "write" /\ ledger' = ledger \cup {Entry(c)}
        /\ ledger = call[c].seen.rows
        /\ \A e \in ledger : ~ (e.type = Entry(c).type /\ e.ref = Entry(c).ref)
    BY <1>2, CommitShape
  <2>2. /\ call[c].req.op \in {"consume", "refund"}
        /\ Entry(c) \in Entries /\ Entry(c).expires = ai.periodEnd
    BY <2>1, EntryShape DEF InCall, Requests
  <2>3. Entry(c) \notin ledger
    BY <2>1
  <2>4. sum \in Int /\ sum >= 0
    BY <2>2, <2>3, EveryPeriod, CreditsAdd DEF OfPeriod
  <2>5. CASE call[c].req.op = "consume"
    <3>1. sum >= call[c].req.credits
      BY <2>1, <2>5 DEF Decided
    <3>2. /\ Entry(c).credits = - call[c].req.credits
          /\ call[c].req.credits \in Nat
      BY <2>1, <2>5, EntryShape
    <3>3. sum + Entry(c).credits >= 0
      BY <2>4, <3>1, <3>2
    <3> QED
      BY <2>1, <2>2, <2>3, <3>3, PaidRow
  <2>6. CASE call[c].req.op = "refund"
    <3>1. PICK e \in ledger : e.type = "CONSUME" /\ Entry(c).credits = - e.credits
      BY <2>1, <2>6, EntryShape
    <3>2. e.credits \in Int /\ e.credits < 0
      BY <3>1 DEF Signed, TypeOK, Entries
    <3>3. sum + Entry(c).credits >= 0
      BY <2>4, <3>1, <3>2
    <3> QED
      BY <2>1, <2>2, <2>3, <3>3, PaidRow
  <2> QED
    BY <2>2, <2>5, <2>6
<1>3. CASE UNCHANGED ledger
  BY <1>3 DEF NoPeriodOverspent
<1> QED
  BY <1>1, <1>2, <1>3, OnlyCommitWrites DEF Next, Tick, CancelAi

\* A call that is answered "done" or "replayed" finds its row.
LEMMA AnswerStep ==
  ASSUME IInv, Next
  PROVE  AnswersAreTrue'
<1> USE DEF IInv, TypeInv
<1> DEFINE Found(req, rows) ==
      \E e \in rows :
        /\ e.ref = req.ref
        /\ \/ /\ req.op = "consume" /\ e.type = "CONSUME"
              /\ e.credits = -req.credits
           \/ req.op = "refund" /\ e.type = "REFUND"
<1>0. call \in [Calls -> CallStates]
  BY DEF TypeOK
<1>1. ledger \subseteq ledger'
  BY OnlyCommitWrites DEF Next, Tick, Renew, CancelAi, Commit
<1>2. \A c \in Calls :
        call[c].pc \in {"done", "replayed"} => Found(call[c].req, ledger')
  BY <1>1 DEF AnswersAreTrue
<1>3. ASSUME NEW c \in Calls, \A d \in Calls \ {c} : call'[d] = call[d],
             call'[c].pc \in {"done", "replayed"} => Found(call'[c].req, ledger')
      PROVE  AnswersAreTrue'
  BY <1>2, <1>3 DEF AnswersAreTrue
<1>4. CASE Tick \/ Renew \/ CancelAi
  BY <1>2, <1>4 DEF Tick, Renew, CancelAi, AnswersAreTrue
<1>5. ASSUME NEW c \in Calls, NEW req \in Requests, Submit(c, req)
      PROVE  AnswersAreTrue'
  <2>1. 1 \in 1..MaxAttempts
    BY AttemptAssumption
  <2> QED
    BY <1>3, <1>5, <2>1, BeginType DEF Submit
<1>6. ASSUME NEW c \in Calls, Retry(c)
      PROVE  AnswersAreTrue'
  <2>1. call[c].req \in Requests /\ call[c].attempt \in 1..MaxAttempts
    BY <1>0, <1>6 DEF Retry, InCall, CallStates
  <2> QED
    BY <1>3, <1>6, <2>1, BeginType DEF Retry
<1>7. ASSUME NEW c \in Calls, LockAiSubscription(c)
      PROVE  AnswersAreTrue'
  BY <1>0, <1>3, <1>7 DEF LockAiSubscription, CallStates
<1>8. ASSUME NEW c \in Calls, DecideConsume(c) \/ DecideRefund(c),
             call' = [call EXCEPT ![c].pc = "write"], UNCHANGED lock
      PROVE  AnswersAreTrue'
  BY <1>0, <1>3, <1>8 DEF CallStates
<1>9. ASSUME NEW c \in Calls,
             \/ LockConflict(c) \/ CommitConflict(c) \/ Crash(c) \/ LoseAnswer(c)
             \/ /\ DecideConsume(c) \/ DecideRefund(c)
                /\ ~(call' = [call EXCEPT ![c].pc = "write"] /\ UNCHANGED lock)
      PROVE  AnswersAreTrue'
  <2>1. /\ \A d \in Calls \ {c} : call'[d] = call[d]
        /\ call'[c].req = call[c].req /\ call'[c].pc # "done"
    BY <1>9, EndShape
  <2>2. CASE call'[c].pc # "replayed"
    BY <1>3, <2>1, <2>2
  <2>3. CASE call'[c].pc = "replayed"
    <3>1. call[c].pc = "decide" /\ call[c].seen.rows \subseteq ledger
          /\ (DecideConsume(c) \/ DecideRefund(c))
      BY <1>0, <1>9, <2>3, RetryType, DecisionShape
      DEF LockConflict, CommitConflict, Crash, LoseAnswer, Running, Snapshot,
          CallStates
    <3>2. \A answer : Finish(c, answer) => answer = "replayed"
      BY <1>0, <2>3 DEF Finish, CallStates
    <3>3. Found(call[c].req, ledger)
      <4>1. CASE DecideConsume(c)
        <5>1. \E e \in SeenRows(c, "CONSUME") : AnswersCharge(e, call[c].req)
          BY <1>0, <2>3, <3>1, <3>2, <4>1 DEF DecideConsume, CallStates
        <5> QED
          BY <3>1, <4>1, <5>1
          DEF DecideConsume, SeenRows, RowsOf, AnswersCharge
      <4>2. CASE DecideRefund(c)
        <5>1. SeenRows(c, "REFUND") # {}
          BY <1>0, <2>3, <3>1, <3>2, <4>2 DEF DecideRefund, CallStates
        <5> QED
          BY <3>1, <4>2, <5>1 DEF DecideRefund, SeenRows, RowsOf
      <4> QED
        BY <3>1, <4>1, <4>2
    <3> QED
      BY <1>1, <1>3, <2>1, <3>3
  <2> QED
    BY <2>2, <2>3
<1>10. ASSUME NEW c \in Calls, Commit(c)
       PROVE  AnswersAreTrue'
  <2>1. /\ \A d \in Calls \ {c} : call'[d] = call[d]
        /\ call'[c].req = call[c].req /\ call[c].pc = "write"
        /\ Entry(c) \in ledger'
    BY <1>10, CommitShape
  <2>2. call[c].req.op \in {"consume", "refund"}
    BY <2>1 DEF InCall, Requests
  <2>3. Found(call[c].req, ledger')
    BY <2>1, <2>2, EntryShape
  <2> QED
    BY <1>3, <2>1, <2>3
<1> QED
  BY <1>4, <1>5, <1>6, <1>7, <1>8, <1>9, <1>10 DEF Next, Step

\* IInv is inductive.
LEMMA StepInv ==
  ASSUME IInv, [Next]_vars
  PROVE  IInv'
<1>1. CASE Next
  BY <1>1, TypeStep, LockStep, SnapshotStep, DecidedStep, LedgerStep,
     PeriodStep, AnswerStep DEF IInv
<1>2. CASE UNCHANGED vars
  <2>1. TypeInv'
    BY <1>2, TypeStep
  <2> QED
    BY <1>2, <2>1
    DEF vars, IInv, Locking, Periods, Snapshot, Decided, Signed,
        NoPeriodOverspent, MovedOnce, AnswersAreTrue
<1> QED
  BY <1>1, <1>2

\* IInv holds throughout every behaviour.
THEOREM Invariant ==
  Spec => []IInv
<1>1. Init => IInv
  BY InitInv
<1>2. IInv /\ [Next]_vars => IInv'
  BY StepInv
<1> QED
  BY <1>1, <1>2, PTL DEF Spec

----------------------------------------------------------------------------
\* The rows and calls keep their types; no call makes more than MaxAttempts
\* attempts.
THEOREM TypeCorrect ==
  Spec => []TypeOK
<1>1. IInv => TypeOK
  BY DEF IInv, TypeInv
<1> QED
  BY <1>1, Invariant, PTL

\* Nobody charges a period more than was granted and refunded in it, however
\* many calls decide at the same time.
THEOREM PeriodsInCredit ==
  Spec => []NoPeriodOverspent
<1>1. IInv => NoPeriodOverspent
  BY DEF IInv
<1> QED
  BY <1>1, Invariant, PTL

\* A reference is charged once, and refunded once and in full.
THEOREM ChargedAndRefundedOnce ==
  Spec => []MovedOnce
<1>1. IInv => MovedOnce
  BY DEF IInv
<1> QED
  BY <1>1, Invariant, PTL

\* An answer tells what the ledger says.
THEOREM TrueAnswers ==
  Spec => []AnswersAreTrue
<1>1. IInv => AnswersAreTrue
  BY DEF IInv
<1> QED
  BY <1>1, Invariant, PTL

=============================================================================
