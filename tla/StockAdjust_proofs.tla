------------------------ MODULE StockAdjust_proofs ------------------------
(***************************************************************************)
(* What StockAdjust promises for any number of calls, keys, variants and   *)
(* attempts.  The typing of the calls comes first, then the argument why   *)
(* the transactions are safe: whoever decides or writes holds the row of   *)
(* its variant, and the quantity it read is still the stored one.          *)
(***************************************************************************)
EXTENDS StockAdjust, FiniteSetTheorems, SumTheorems, TLAPS

\* A call that was submitted has a request, and from its first statement to
\* the last it has a snapshot.
InCall ==
  \A c \in Calls :
    /\ call[c].pc # "idle" => call[c].req \in Requests /\ call[c].sends \in 1..MaxSends
    /\ call[c].pc \in {"lock", "decide", "write"} => call[c].seen \in Snapshots

TypeInv == TypeOK /\ InCall

\* The holder of a row is the call that decides on it or writes it.
Locking ==
  \A c \in Calls, v \in Variants :
    rowLock[v] = c <=>
      call[c].pc \in {"decide", "write"} /\ call[c].req.variant = v

\* A snapshot never runs ahead of the row, and is exact while the version
\* is unchanged, which the row lock guarantees.
Snapshot ==
  \A c \in Calls :
    LET row == balance[call[c].req.variant]
        seen == call[c].seen
    IN  /\ call[c].pc \in {"lock", "decide", "write"} =>
             /\ seen.version <= row.version
             /\ seen.version = row.version => seen.quantity = row.quantity
             /\ seen.rows \subseteq RowsOfKey(call[c].req.key)
        /\ call[c].pc \in {"decide", "write"} => seen.version = row.version

\* A call writes only what it decided on: a new key and enough stock.
Decided ==
  \A c \in Calls : call[c].pc = "write" =>
    /\ call[c].seen.rows = {}
    /\ call[c].seen.quantity + Delta(call[c].req) >= 0

\* A row of the ledger carries the sign of its type.
Signed == \A m \in ledger : m.quantity > 0 <=> m.kind = "ADJUSTMENT_IN"

IInv == /\ TypeInv /\ Locking /\ Snapshot /\ Decided /\ Signed
        /\ KeyAppliedOnce /\ NeverNegative /\ AnswersAreTrue

----------------------------------------------------------------------------
\* Retrying and finishing keep a call's record well typed.
LEMMA RetryType ==
  ASSUME TypeInv, NEW c \in Calls, call[c].pc \in Running
  PROVE  /\ RetryOrFail(c) \in CallStates
         /\ RetryOrFail(c).req = call[c].req
         /\ RetryOrFail(c).sends = call[c].sends
         /\ RetryOrFail(c).pc \in {"begin", "failed"}
<1>1. call[c] \in CallStates
  BY DEF TypeInv, TypeOK
<1>2. CASE call[c].attempt < MaxAttempts
  <2>1. call[c].attempt + 1 \in 1..MaxAttempts
    BY <1>1, <1>2, AttemptAssumption DEF CallStates
  <2> QED
    BY <1>1, <1>2, <2>1 DEF RetryOrFail, CallStates, Running, Stopped
<1>3. CASE ~(call[c].attempt < MaxAttempts)
  BY <1>1, <1>3 DEF RetryOrFail, CallStates, Running, Stopped
<1> QED
  BY <1>2, <1>3

\* Ending a transaction releases its locks and keeps the types.
LEMMA FinishType ==
  ASSUME TypeInv, NEW c \in Calls, NEW answer \in Stopped \ {"idle"},
         call[c].pc # "idle", Finish(c, answer)
  PROVE  /\ call' \in [Calls -> CallStates]
         /\ rowLock' \in [Variants -> Calls \cup {None}]
         /\ InCall'
<1>1. call[c] \in CallStates
  BY DEF TypeInv, TypeOK
<1>2. [call[c] EXCEPT !.pc = answer, !.seen = None] \in CallStates
  BY <1>1 DEF CallStates
<1>3. call' \in [Calls -> CallStates]
  BY <1>2 DEF Finish, TypeInv, TypeOK
<1>4. rowLock' \in [Variants -> Calls \cup {None}]
  BY DEF Finish, Release, TypeInv, TypeOK
<1>5. InCall'
  BY DEF Finish, TypeInv, TypeOK, InCall, CallStates, Stopped
<1> QED
  BY <1>3, <1>4, <1>5

\* What an adjustment adds to the balance is a non-zero integer.
LEMMA DeltaType ==
  ASSUME NEW req \in Requests
  PROVE  Delta(req) \in Int \ {0}
<1>1. req.quantity \in Nat \ {0}
  BY QuantityAssumption DEF Requests
<1> QED
  BY <1>1 DEF Delta

\* Each statement of a transaction keeps the types.
LEMMA TypeStep ==
  ASSUME TypeInv, [Next]_vars
  PROVE  TypeInv'
<1> USE DEF TypeInv
<1>1. ASSUME NEW c \in Calls, NEW req \in Requests, Submit(c, req)
      PROVE  TypeInv'
  <2>1. call[c] \in CallStates /\ 1 \in 0..MaxSends /\ 1 \in 1..MaxSends
    BY AttemptAssumption DEF TypeOK
  <2>2. [call[c] EXCEPT !.pc = "begin", !.req = req, !.sends = 1] \in CallStates
    BY <2>1 DEF CallStates, Running
  <2> QED
    BY <1>1, <2>1, <2>2 DEF Submit, TypeOK, InCall, CallStates
<1>2. ASSUME NEW c \in Calls, Resend(c)
      PROVE  TypeInv'
  <2>1. /\ call[c] \in CallStates /\ call[c].sends + 1 \in 1..MaxSends
        /\ call[c].sends + 1 \in 0..MaxSends /\ 1 \in 1..MaxAttempts
    BY <1>2, AttemptAssumption DEF Resend, TypeOK, CallStates
  <2>2. [call[c] EXCEPT !.pc = "begin", !.attempt = 1, !.sends = call[c].sends + 1]
          \in CallStates
    BY <2>1 DEF CallStates, Running
  <2> QED
    BY <1>2, <2>1, <2>2 DEF Resend, TypeOK, InCall, CallStates
<1>3. ASSUME NEW c \in Calls, Begin(c)
      PROVE  TypeInv'
  <2> DEFINE snapshot == [rows |-> RowsOfKey(call[c].req.key),
                version |-> balance[call[c].req.variant].version,
                quantity |-> balance[call[c].req.variant].quantity]
  <2>1. call[c].req \in Requests
    BY <1>3 DEF Begin, InCall
  <2>2. snapshot \in Snapshots
    BY <2>1 DEF TypeOK, Requests, Snapshots, RowsOfKey
  <2>3. [call[c] EXCEPT !.pc = "lock", !.seen = snapshot] \in CallStates
    BY <2>2 DEF TypeOK, CallStates, Running
  <2> HIDE DEF snapshot
  <2>4. call' = [call EXCEPT ![c] = [@ EXCEPT !.pc = "lock", !.seen = snapshot]]
    BY <1>3 DEF Begin, snapshot
  <2> QED
    BY ZenonT(60), <1>3, <2>2, <2>3, <2>4 DEF Begin, TypeOK, InCall, CallStates
<1>4. ASSUME NEW c \in Calls, LockRow(c)
      PROVE  TypeInv'
  BY <1>4 DEF LockRow, TypeOK, InCall, CallStates, Running, Requests
<1>5. ASSUME NEW c \in Calls, LockRowConflict(c)
      PROVE  TypeInv'
  <2>1. call[c].pc \in Running
    BY <1>5 DEF LockRowConflict, Running
  <2> QED
    BY <1>5, <2>1, RetryType DEF LockRowConflict, TypeOK, InCall, Running
<1>6. ASSUME NEW c \in Calls, AnswerFromLedger(c)
      PROVE  TypeInv'
  <2>1. PICK answer \in {"replayed", "key_conflict"} : Finish(c, answer)
    BY <1>6 DEF AnswerFromLedger
  <2> QED
    BY <1>6, <2>1, FinishType DEF AnswerFromLedger, TypeOK, Stopped
<1>7. ASSUME NEW c \in Calls, Refuse(c)
      PROVE  TypeInv'
  BY <1>7, FinishType DEF Refuse, TypeOK, Stopped
<1>8. ASSUME NEW c \in Calls, Accept(c)
      PROVE  TypeInv'
  BY <1>8 DEF Accept, TypeOK, InCall, CallStates, Running
<1>9. ASSUME NEW c \in Calls, Commit(c)
      PROVE  TypeInv'
  <2> DEFINE req == call[c].req
  <2>1. /\ req \in Requests /\ call[c].sends \in 1..MaxSends
        /\ call[c].seen \in Snapshots
    BY <1>9 DEF Commit, InCall
  <2>2. Delta(req) \in Int
    BY <2>1, DeltaType
  <2>3. [by |-> c, send |-> call[c].sends, key |-> req.key, kind |-> req.type,
         variant |-> req.variant, quantity |-> Delta(req)] \in Entries
    BY <2>1, <2>2 DEF Entries, Requests
  <2>4. ledger' \subseteq Entries
    BY <1>9, <2>3 DEF Commit, TypeOK
  <2>5. balance' \in [Variants -> [quantity : Int, version : Nat]]
    BY <1>9, <2>1, <2>2 DEF Commit, TypeOK, Snapshots, Requests
  <2>6. /\ call' \in [Calls -> CallStates] /\ InCall'
        /\ rowLock' \in [Variants -> Calls \cup {None}]
    BY <1>9, FinishType DEF Commit, Stopped
  <2> QED
    BY <2>4, <2>5, <2>6 DEF TypeOK
<1>10. ASSUME NEW c \in Calls, CommitConflict(c)
       PROVE  TypeInv'
  <2>1. call[c].pc \in Running
    BY <1>10 DEF CommitConflict, Running
  <2> QED
    BY <1>10, <2>1, RetryType
    DEF CommitConflict, TypeOK, InCall, Release, Running
<1>11. ASSUME NEW c \in Calls, Crash(c)
       PROVE  TypeInv'
  BY <1>11, FinishType DEF Crash, TypeOK, Running, Stopped
<1>12. ASSUME NEW c \in Calls, LoseResponse(c)
       PROVE  TypeInv'
  BY <1>12 DEF LoseResponse, TypeOK, InCall, CallStates, Stopped
<1>13. ASSUME UNCHANGED vars
       PROVE  TypeInv'
  BY <1>13 DEF vars, TypeOK, InCall
<1> QED
  BY <1>1, <1>2, <1>3, <1>4, <1>5, <1>6, <1>7, <1>8, <1>9, <1>10, <1>11,
     <1>12, <1>13
  DEF Next, Step

\* The opening stock is well typed.
LEMMA InitType ==
  Init => TypeInv
BY AttemptAssumption
DEF Init, TypeInv, TypeOK, InCall, CallStates, Running, Stopped

\* Whatever the calls do, every variable keeps its type: adjust never
\* decides or writes without a request and a snapshot of its rows.
THEOREM TypeCorrect == Spec => []TypeOK
<1>1. Init => TypeInv
  BY InitType
<1>2. TypeInv /\ [Next]_vars => TypeInv'
  BY TypeStep
<1>3. TypeInv => TypeOK
  BY DEF TypeInv
<1> QED
  BY <1>1, <1>2, <1>3, PTL DEF Spec

----------------------------------------------------------------------------
\* The opening stock satisfies the invariant.
LEMMA InitSafe ==
  Init => IInv
<1> SUFFICES ASSUME Init PROVE IInv
  OBVIOUS
<1>1. TypeInv
  BY InitType
<1>2. Locking
  BY NoneAssumption DEF Init, Locking
<1>3. /\ Snapshot /\ Decided /\ Signed
      /\ KeyAppliedOnce /\ NeverNegative /\ AnswersAreTrue
  BY DEF Init, Snapshot, Decided, Signed, KeyAppliedOnce, NeverNegative, AnswersAreTrue
<1> QED
  BY <1>1, <1>2, <1>3 DEF IInv

\* Two calls never hold the same row.
LEMMA Exclusion ==
  ASSUME IInv, NEW c \in Calls, NEW d \in Calls,
         call[c].pc \in {"decide", "write"}, call[d].pc \in {"decide", "write"},
         call[c].req.variant = call[d].req.variant
  PROVE  c = d
<1>1. call[c].req.variant \in Variants
  BY DEF IInv, TypeInv, InCall, Requests
<1> QED
  BY <1>1 DEF IInv, Locking

\* A call that stops or rolls back gives its rows up and nobody else's.
LEMMA ReleaseLocking ==
  ASSUME IInv, NEW c \in Calls, rowLock' = Release(c),
         call'[c].pc \notin {"decide", "write"},
         \A d \in Calls \ {c} : call'[d] = call[d]
  PROVE  Locking'
<1> SUFFICES ASSUME NEW d \in Calls, NEW v \in Variants
             PROVE  rowLock'[v] = d <=> call'[d].pc \in {"decide", "write"}
                                        /\ call'[d].req.variant = v
  BY DEF Locking
<1>1. rowLock'[v] = IF rowLock[v] = c THEN None ELSE rowLock[v]
  BY DEF Release
<1>2. CASE d = c
  BY <1>1, <1>2, NoneAssumption
<1>3. CASE d # c
  BY <1>1, <1>3, NoneAssumption DEF IInv, Locking
<1> QED
  BY <1>2, <1>3

\* As long as the tables stand still, the calls that do not move keep what
\* they know.
LEMMA QuietStep ==
  ASSUME IInv, UNCHANGED <<ledger, balance>>, NEW c \in Calls,
         \A d \in Calls \ {c} : call'[d] = call[d],
         call'[c].pc \notin {"lock", "decide", "write", "applied", "replayed"}
  PROVE  Snapshot' /\ Decided' /\ KeyAppliedOnce' /\ NeverNegative'
         /\ AnswersAreTrue'
<1>1. Snapshot'
  BY DEF IInv, Snapshot, RowsOfKey
<1>2. Decided'
  BY DEF IInv, Decided
<1>3. KeyAppliedOnce' /\ NeverNegative'
  BY DEF IInv, KeyAppliedOnce, NeverNegative
<1>4. AnswersAreTrue'
  BY DEF IInv, AnswersAreTrue
<1> QED
  BY <1>1, <1>2, <1>3, <1>4

\* Each movement is written with the sign of its type.
LEMMA SignedStep ==
  ASSUME IInv, [Next]_vars
  PROVE  Signed'
<1>1. CASE \E c \in Calls : Commit(c)
  <2>1. PICK c \in Calls : Commit(c)
    BY <1>1
  <2>2. call[c].req \in Requests
    BY <2>1 DEF Commit, IInv, TypeInv, InCall
  <2>3. call[c].req.quantity \in Nat \ {0}
    BY <2>2, QuantityAssumption DEF Requests
  <2>4. Delta(call[c].req) > 0 <=> call[c].req.type = "ADJUSTMENT_IN"
    BY <2>3 DEF Delta
  <2> QED
    BY <2>1, <2>4 DEF Commit, IInv, Signed
<1>2. CASE ~\E c \in Calls : Commit(c)
  <2>1. UNCHANGED ledger
    BY <1>2 DEF Next, Step, vars, Submit, Resend, Begin, LockRow,
       LockRowConflict, AnswerFromLedger, Refuse, Accept, CommitConflict,
       Crash, LoseResponse
  <2> QED
    BY <2>1 DEF IInv, Signed
<1> QED
  BY <1>1, <1>2

\* The invariant is inductive.
LEMMA SafeStep ==
  ASSUME IInv, [Next]_vars
  PROVE  IInv'
<1>0. TypeInv'
  BY TypeStep DEF IInv
<1>t. TypeOK /\ call \in [Calls -> CallStates]
  BY DEF IInv, TypeInv, TypeOK
<1> SUFFICES Locking' /\ Snapshot' /\ Decided' /\ KeyAppliedOnce'
             /\ NeverNegative' /\ AnswersAreTrue'
  BY <1>0, SignedStep DEF IInv
<1> DEFINE Safe == Locking' /\ Snapshot' /\ Decided' /\ KeyAppliedOnce'
                   /\ NeverNegative' /\ AnswersAreTrue'
<1>1. ASSUME NEW c \in Calls, NEW req \in Requests, Submit(c, req)
      PROVE  Safe
  <2>1. call'[c].pc = "begin" /\ \A d \in Calls \ {c} : call'[d] = call[d]
    BY <1>1, <1>t DEF Submit, CallStates
  <2>2. Locking'
    BY <1>1, <2>1 DEF Submit, IInv, Locking
  <2> QED
    BY <1>1, <2>1, <2>2, QuietStep DEF Submit
<1>2. ASSUME NEW c \in Calls, Resend(c)
      PROVE  Safe
  <2>1. call'[c].pc = "begin" /\ \A d \in Calls \ {c} : call'[d] = call[d]
    BY <1>2, <1>t DEF Resend, CallStates
  <2>2. Locking'
    BY <1>2, <2>1 DEF Resend, IInv, Locking
  <2> QED
    BY <1>2, <2>1, <2>2, QuietStep DEF Resend
<1>3. ASSUME NEW c \in Calls, Begin(c)
      PROVE  Safe
  <2>1. /\ call'[c].pc = "lock" /\ call'[c].req = call[c].req
        /\ call'[c].seen = [rows |-> RowsOfKey(call[c].req.key),
                version |-> balance[call[c].req.variant].version,
                quantity |-> balance[call[c].req.variant].quantity]
        /\ \A d \in Calls \ {c} : call'[d] = call[d]
    BY <1>3, <1>t DEF Begin, CallStates
  <2>2. balance[call[c].req.variant].version \in Nat
    BY <1>3, <1>t DEF Begin, IInv, TypeInv, InCall, TypeOK, Requests
  <2>3. Locking'
    BY SMTT(60), <1>3, <2>1 DEF Begin, IInv, Locking
  <2>4. Snapshot'
    BY SMTT(60), <1>3, <2>1, <2>2 DEF Begin, IInv, Snapshot, RowsOfKey
  <2>5. Decided' /\ AnswersAreTrue'
    BY <1>3, <2>1 DEF Begin, IInv, Decided, AnswersAreTrue
  <2>6. KeyAppliedOnce' /\ NeverNegative'
    BY <1>3 DEF Begin, IInv, KeyAppliedOnce, NeverNegative
  <2> QED
    BY <2>3, <2>4, <2>5, <2>6
<1>4. ASSUME NEW c \in Calls, LockRow(c)
      PROVE  Safe
  <2> DEFINE w == call[c].req.variant
  <2>1. /\ call[c].pc = "lock" /\ w \in Variants /\ rowLock[w] = None
        /\ balance[w].version = call[c].seen.version
    BY <1>4 DEF LockRow, RowUnchanged, IInv, TypeInv, InCall, Requests
  <2>2. /\ call'[c].pc = "decide" /\ call'[c].req = call[c].req
        /\ call'[c].seen = call[c].seen
        /\ \A d \in Calls \ {c} : call'[d] = call[d]
    BY <1>4, <1>t DEF LockRow, CallStates
  <2>3. \A v \in Variants : rowLock'[v] = IF v = w THEN c ELSE rowLock[v]
    BY <1>4, <1>t DEF LockRow, TypeOK
  <2>4. Locking'
    <3> SUFFICES ASSUME NEW d \in Calls, NEW v \in Variants
                 PROVE  rowLock'[v] = d <=> call'[d].pc \in {"decide", "write"}
                                            /\ call'[d].req.variant = v
      BY DEF Locking
    <3>1. rowLock[v] = d <=> call[d].pc \in {"decide", "write"}
                             /\ call[d].req.variant = v
      BY DEF IInv, Locking
    <3>2. CASE d = c
      BY <2>1, <2>2, <2>3, <3>1, <3>2
    <3>3. CASE d # c
      BY <2>1, <2>2, <2>3, <3>1, <3>3, NoneAssumption
    <3> QED
      BY <3>2, <3>3
  <2>5. Snapshot'
    BY <1>4, <2>1, <2>2 DEF LockRow, IInv, Snapshot, RowsOfKey
  <2>6. Decided' /\ AnswersAreTrue'
    BY <1>4, <2>2 DEF LockRow, IInv, Decided, AnswersAreTrue
  <2>7. KeyAppliedOnce' /\ NeverNegative'
    BY <1>4 DEF LockRow, IInv, KeyAppliedOnce, NeverNegative
  <2> QED
    BY <2>4, <2>5, <2>6, <2>7
<1>5. ASSUME NEW c \in Calls, LockRowConflict(c)
      PROVE  Safe
  <2>1. /\ call[c].pc = "lock" /\ call'[c] = RetryOrFail(c)
        /\ \A d \in Calls \ {c} : call'[d] = call[d]
    BY <1>5, <1>t DEF LockRowConflict
  <2>2. call'[c].pc \in {"begin", "failed"}
    BY <2>1, RetryType DEF IInv, Running
  <2>3. Locking'
    BY <1>5, <2>1, <2>2 DEF LockRowConflict, IInv, Locking
  <2> QED
    BY <1>5, <2>1, <2>2, <2>3, QuietStep DEF LockRowConflict
<1>6. ASSUME NEW c \in Calls, AnswerFromLedger(c)
      PROVE  Safe
  <2>1. PICK m \in call[c].seen.rows :
          Finish(c, IF Answers(m, call[c].req) THEN "replayed" ELSE "key_conflict")
    BY <1>6 DEF AnswerFromLedger
  <2>2. /\ call'[c].pc = IF Answers(m, call[c].req) THEN "replayed" ELSE "key_conflict"
        /\ call'[c].req = call[c].req
        /\ rowLock' = Release(c)
        /\ \A d \in Calls \ {c} : call'[d] = call[d]
    BY <2>1, <1>t DEF Finish, CallStates
  <2>3. m \in ledger /\ m.key = call[c].req.key
    BY <1>6 DEF AnswerFromLedger, IInv, Snapshot, RowsOfKey
  <2>4. Locking'
    BY <2>2, ReleaseLocking
  <2>5. Snapshot' /\ Decided'
    BY <1>6, <2>2 DEF AnswerFromLedger, IInv, Snapshot, Decided, RowsOfKey
  <2>6. KeyAppliedOnce' /\ NeverNegative'
    BY <1>6 DEF AnswerFromLedger, IInv, KeyAppliedOnce, NeverNegative
  <2>7. AnswersAreTrue'
    <3> SUFFICES ASSUME NEW d \in Calls, call'[d].pc \in {"applied", "replayed"}
                 PROVE  \E n \in ledger' :
                          /\ n.key = call'[d].req.key
                          /\ n.variant = call'[d].req.variant
                          /\ n.kind = call'[d].req.type
                          /\ n.quantity = Delta(call'[d].req)
      BY DEF AnswersAreTrue
    <3>1. ledger' = ledger
      BY <1>6 DEF AnswerFromLedger
    <3>2. CASE d = c
      <4>1. /\ Answers(m, call[c].req) /\ call[c].req \in Requests
        BY <1>6, <2>2, <3>2 DEF AnswerFromLedger, IInv, TypeInv, InCall
      <4>2. call[c].req.quantity \in Nat \ {0}
        BY <4>1, QuantityAssumption DEF Requests
      <4>3. m.quantity = Delta(call[c].req)
        BY <2>3, <4>1, <4>2 DEF Answers, Delta, IInv, Signed, Requests, Types
      <4> QED
        BY <2>2, <2>3, <3>1, <3>2, <4>1, <4>3 DEF Answers
    <3>3. CASE d # c
      BY <2>2, <3>1, <3>3 DEF IInv, AnswersAreTrue
    <3> QED
      BY <3>2, <3>3
  <2> QED
    BY <2>4, <2>5, <2>6, <2>7
<1>7. ASSUME NEW c \in Calls, Refuse(c)
      PROVE  Safe
  <2>1. /\ call'[c].pc = "insufficient" /\ rowLock' = Release(c)
        /\ \A d \in Calls \ {c} : call'[d] = call[d]
    BY <1>7, <1>t DEF Refuse, Finish, CallStates
  <2> QED
    BY <1>7, <2>1, ReleaseLocking, QuietStep DEF Refuse
<1>8. ASSUME NEW c \in Calls, Accept(c)
      PROVE  Safe
  <2>1. /\ call[c].pc = "decide" /\ call'[c].pc = "write"
        /\ call'[c].req = call[c].req /\ call'[c].seen = call[c].seen
        /\ \A d \in Calls \ {c} : call'[d] = call[d]
    BY <1>8, <1>t DEF Accept, CallStates
  <2>2. Locking'
    BY <1>8, <2>1 DEF Accept, IInv, Locking
  <2>3. Snapshot'
    BY <1>8, <2>1 DEF Accept, IInv, Snapshot, RowsOfKey
  <2>4. Decided'
    BY <1>8, <2>1 DEF Accept, Enough, IInv, Decided
  <2>5. KeyAppliedOnce' /\ NeverNegative' /\ AnswersAreTrue'
    BY <1>8, <2>1 DEF Accept, IInv, KeyAppliedOnce, NeverNegative, AnswersAreTrue
  <2> QED
    BY <2>2, <2>3, <2>4, <2>5
<1>9. ASSUME NEW c \in Calls, Commit(c)
      PROVE  Safe
  <2> DEFINE req == call[c].req
             seen == call[c].seen
             entry == [by |-> c, send |-> call[c].sends, key |-> req.key,
                       kind |-> req.type, variant |-> req.variant,
                       quantity |-> Delta(req)]
  <2>1. /\ call[c].pc = "write" /\ req \in Requests /\ seen \in Snapshots
        /\ seen.rows = {} /\ seen.quantity + Delta(req) >= 0
        /\ RowsOfKey(req.key) = {}
    BY <1>9 DEF Commit, ReadsStillHold, IInv, TypeInv, InCall, Decided
  <2>2. /\ call'[c].pc = "applied" /\ call'[c].req = req
        /\ rowLock' = Release(c)
        /\ \A d \in Calls \ {c} : call'[d] = call[d]
    BY <1>9, <1>t DEF Commit, Finish, CallStates
  <2>3. ledger' = ledger \cup {entry}
    BY <1>9 DEF Commit
  <2>w. req.variant \in Variants
    BY <2>1 DEF Requests
  <2>4. /\ balance'[req.variant].quantity = seen.quantity + Delta(req)
        /\ balance'[req.variant].version = balance[req.variant].version + 1
        /\ \A v \in Variants \ {req.variant} : balance'[v] = balance[v]
    BY <1>9, <1>t, <2>w DEF Commit, TypeOK
  <2>5. /\ entry.key = req.key /\ entry.variant = req.variant
        /\ entry.kind = req.type /\ entry.quantity = Delta(req)
    OBVIOUS
  <2> HIDE DEF entry
  <2>6. Locking'
    BY <2>2, ReleaseLocking
  <2>7. Snapshot'
    <3> SUFFICES ASSUME NEW d \in Calls, d # c,
                        call[d].pc \in {"lock", "decide", "write"}
                 PROVE  /\ call[d].seen.version <= balance'[call[d].req.variant].version
                        /\ call[d].seen.version = balance'[call[d].req.variant].version
                             => call[d].seen.quantity
                                  = balance'[call[d].req.variant].quantity
                        /\ call[d].seen.rows \subseteq RowsOfKey(call[d].req.key)'
                        /\ call[d].pc \in {"decide", "write"} =>
                             call[d].seen.version
                               = balance'[call[d].req.variant].version
      BY <2>2 DEF Snapshot, RowsOfKey
    <3> DEFINE w == call[d].req.variant
    <3>1. w \in Variants /\ balance[w].version \in Nat /\ call[d].seen.version \in Nat
      BY <1>t DEF IInv, TypeInv, InCall, TypeOK, Requests, Snapshots
    <3>2. /\ call[d].seen.version <= balance[w].version
          /\ call[d].seen.version = balance[w].version =>
               call[d].seen.quantity = balance[w].quantity
          /\ call[d].seen.rows \subseteq RowsOfKey(call[d].req.key)
          /\ call[d].pc \in {"decide", "write"} =>
               call[d].seen.version = balance[w].version
      BY DEF IInv, Snapshot
    <3>3. call[d].seen.rows \subseteq RowsOfKey(call[d].req.key)'
      BY <2>2, <2>3, <3>2 DEF RowsOfKey
    <3>4. CASE w = req.variant
      <4>1. call[d].pc = "lock"
        BY <2>1, <3>4, Exclusion
      <4>2. balance'[w].version = balance[w].version + 1
        BY <2>4, <3>4
      <4>3. call[d].seen.version < balance'[w].version
        BY <3>1, <3>2, <4>2
      <4> QED
        BY <3>1, <3>3, <4>1, <4>2, <4>3
    <3>5. CASE w # req.variant
      BY <2>4, <3>1, <3>2, <3>3, <3>5
    <3> QED
      BY <3>4, <3>5
  <2>8. Decided'
    BY <2>2 DEF IInv, Decided
  <2>9. KeyAppliedOnce'
    BY <2>1, <2>3, <2>5 DEF IInv, KeyAppliedOnce, RowsOfKey
  <2>10. NeverNegative'
    <3> SUFFICES ASSUME NEW v \in Variants
                 PROVE  balance'[v].quantity >= 0
      BY DEF NeverNegative
    <3>1. CASE v = req.variant
      BY <2>1, <2>4, <3>1
    <3>2. CASE v # req.variant
      BY <2>4, <3>2 DEF IInv, NeverNegative
    <3> QED
      BY <3>1, <3>2
  <2>11. AnswersAreTrue'
    <3> SUFFICES ASSUME NEW d \in Calls, call'[d].pc \in {"applied", "replayed"}
                 PROVE  \E n \in ledger' :
                          /\ n.key = call'[d].req.key
                          /\ n.variant = call'[d].req.variant
                          /\ n.kind = call'[d].req.type
                          /\ n.quantity = Delta(call'[d].req)
      BY DEF AnswersAreTrue
    <3>1. CASE d = c
      BY <2>2, <2>3, <2>5, <3>1
    <3>2. CASE d # c
      BY <2>2, <2>3, <3>2 DEF IInv, AnswersAreTrue
    <3> QED
      BY <3>1, <3>2
  <2> QED
    BY <2>6, <2>7, <2>8, <2>9, <2>10, <2>11
<1>10. ASSUME NEW c \in Calls, CommitConflict(c)
       PROVE  Safe
  <2>1. /\ call[c].pc = "write" /\ call'[c] = RetryOrFail(c)
        /\ rowLock' = Release(c)
        /\ \A d \in Calls \ {c} : call'[d] = call[d]
    BY <1>10, <1>t DEF CommitConflict
  <2>2. call'[c].pc \in {"begin", "failed"}
    BY <2>1, RetryType DEF IInv, Running
  <2> QED
    BY <1>10, <2>1, <2>2, ReleaseLocking, QuietStep DEF CommitConflict
<1>11. ASSUME NEW c \in Calls, Crash(c)
       PROVE  Safe
  <2>1. /\ call'[c].pc = "lost" /\ rowLock' = Release(c)
        /\ \A d \in Calls \ {c} : call'[d] = call[d]
    BY <1>11, <1>t DEF Crash, Finish, CallStates
  <2> QED
    BY <1>11, <2>1, ReleaseLocking, QuietStep DEF Crash
<1>12. ASSUME NEW c \in Calls, LoseResponse(c)
       PROVE  Safe
  <2>1. /\ call'[c].pc = "lost" /\ call[c].pc \notin {"decide", "write"}
        /\ \A d \in Calls \ {c} : call'[d] = call[d]
    BY <1>12, <1>t DEF LoseResponse, CallStates
  <2>2. Locking'
    BY <1>12, <2>1 DEF LoseResponse, IInv, Locking
  <2> QED
    BY <1>12, <2>1, <2>2, QuietStep DEF LoseResponse
<1>13. ASSUME UNCHANGED vars
       PROVE  Safe
  BY <1>13 DEF vars, IInv, Locking, Snapshot, Decided, KeyAppliedOnce,
     NeverNegative, AnswersAreTrue, RowsOfKey
<1> QED
  BY <1>1, <1>2, <1>3, <1>4, <1>5, <1>6, <1>7, <1>8, <1>9, <1>10, <1>11,
     <1>12, <1>13
  DEF Next, Step

\* However many calls carry a key, concurrently, after a crash or again
\* because a response was lost, the ledger of adjust gets one row for it.
THEOREM KeyApplied == Spec => []KeyAppliedOnce
<1>1. IInv => KeyAppliedOnce
  BY DEF IInv
<1> QED
  BY <1>1, InitSafe, SafeStep, PTL DEF Spec

\* Concurrent withdrawals never oversell: the check in adjust is made on a
\* quantity that is still the stored one when the sum is written.
THEOREM NoOverselling == Spec => []NeverNegative
<1>1. IInv => NeverNegative
  BY DEF IInv
<1> QED
  BY <1>1, InitSafe, SafeStep, PTL DEF Spec

\* A caller that was told "done", at once or for a repeated request, has its
\* movement in the ledger.
THEOREM TrueAnswers == Spec => []AnswersAreTrue
<1>1. IInv => AnswersAreTrue
  BY DEF IInv
<1> QED
  BY <1>1, InitSafe, SafeStep, PTL DEF Spec

----------------------------------------------------------------------------
\* The movements of a variant.
MovementsOf(v) == {n \in ledger : n.variant = v}
SumInv == IsFiniteSet(ledger) /\ BalanceIsLedgerSum

\* A commit adds one movement, which no other row of the ledger is, and the
\* quantity it writes is the stored one with that movement.
LEMMA CommitSum ==
  ASSUME IInv, SumInv, NEW c \in Calls, Commit(c)
  PROVE  SumInv'
<1> DEFINE req == call[c].req
           entry == [by |-> c, send |-> call[c].sends, key |-> req.key,
                     kind |-> req.type, variant |-> req.variant,
                     quantity |-> Delta(req)]
<1>1. /\ req \in Requests /\ call[c].pc = "write" /\ RowsOfKey(req.key) = {}
      /\ balance \in [Variants -> [quantity : Int, version : Nat]]
      /\ \A m \in ledger : m.quantity \in Int
  BY DEF Commit, ReadsStillHold, IInv, TypeInv, TypeOK, InCall, Decided, Entries
<1>2. req.variant \in Variants /\ Delta(req) \in Int
  BY <1>1, DeltaType DEF Requests
<1>3. entry.variant = req.variant /\ entry.quantity = Delta(req) /\ entry.key = req.key
  OBVIOUS
<1>4. ledger' = ledger \cup {entry}
  BY DEF Commit
<1>5. /\ balance'[req.variant].quantity = balance[req.variant].quantity + Delta(req)
      /\ \A v \in Variants \ {req.variant} : balance'[v] = balance[v]
  BY <1>1, <1>2 DEF Commit, IInv, Snapshot
<1> HIDE DEF entry
<1>6. entry \notin ledger
  BY <1>1, <1>3 DEF RowsOfKey
<1>7. IsFiniteSet(ledger')
  BY <1>4, FS_AddElement DEF SumInv
<1>8. ASSUME NEW v \in Variants
      PROVE  balance'[v].quantity =
               SumFunction([m \in {n \in ledger' : n.variant = v} |-> m.quantity])
  <2> DEFINE f == [m \in MovementsOf(v) |-> m.quantity]
             g == [m \in MovementsOf(v) \cup {entry} |-> m.quantity]
  <2>1. balance[v].quantity = SumFunction(f)
    BY DEF SumInv, BalanceIsLedgerSum, MovementsOf
  <2>2. CASE v = req.variant
    <3>1. {n \in ledger' : n.variant = v} = MovementsOf(v) \cup {entry}
      BY <1>3, <1>4, <2>2 DEF MovementsOf
    <3>2. IsFiniteSet(MovementsOf(v)) /\ entry \notin MovementsOf(v)
      BY <1>6, FS_Subset DEF SumInv, MovementsOf
    <3>3. f \in [MovementsOf(v) -> Int] /\ g \in [MovementsOf(v) \cup {entry} -> Int]
      BY <1>1, <1>2, <1>3 DEF MovementsOf
    <3>4. g[entry] = Delta(req) /\ \A m \in MovementsOf(v) : g[m] = f[m]
      BY <1>3
    <3>5. SumFunction(g) = SumFunction(f) + g[entry]
      <4> HIDE DEF f, g
      <4> QED
        BY <3>2, <3>3, <3>4, SumAdd
    <3> QED
      BY <1>5, <2>1, <2>2, <3>1, <3>4, <3>5
  <2>3. CASE v # req.variant
    <3>1. {n \in ledger' : n.variant = v} = MovementsOf(v)
      BY <1>3, <1>4, <2>3 DEF MovementsOf
    <3> QED
      BY <1>5, <2>1, <2>3, <3>1
  <2> QED
    BY <2>2, <2>3
<1> QED
  BY <1>7, <1>8 DEF SumInv, BalanceIsLedgerSum

\* The cached balance is the sum of the ledger after any number of
\* adjustments, although each writes a quantity it computed before.
THEOREM BalanceCorrect == Spec => []BalanceIsLedgerSum
<1>1. Init => SumInv
  <2> SUFFICES ASSUME Init
               PROVE  SumInv
    OBVIOUS
  <2>1. ledger = {} /\ \A v \in Variants : balance[v].quantity = 0
    BY DEF Init
  <2>2. ASSUME NEW v \in Variants
        PROVE  SumFunction([m \in {n \in ledger : n.variant = v} |-> m.quantity]) = 0
    BY <2>1, SumEmpty
  <2> QED
    BY <2>1, <2>2, FS_EmptySet DEF SumInv, BalanceIsLedgerSum
<1>2. IInv /\ SumInv /\ [Next]_vars => SumInv'
  <2> SUFFICES ASSUME IInv, SumInv, [Next]_vars
               PROVE  SumInv'
    OBVIOUS
  <2>1. CASE \E c \in Calls : Commit(c)
    BY <2>1, CommitSum
  <2>2. CASE ~\E c \in Calls : Commit(c)
    <3>1. UNCHANGED <<ledger, balance>>
      BY <2>2 DEF Next, Step, vars, Submit, Resend, Begin, LockRow,
         LockRowConflict, AnswerFromLedger, Refuse, Accept, CommitConflict,
         Crash, LoseResponse
    <3> QED
      BY SMTT(60), <3>1 DEF SumInv, BalanceIsLedgerSum
  <2> QED
    BY <2>1, <2>2
<1>3. SumInv => BalanceIsLedgerSum
  BY DEF SumInv
<1> QED
  BY <1>1, <1>2, <1>3, InitSafe, SafeStep, PTL DEF Spec

----------------------------------------------------------------------------
\* The abstract ledger as StockAdjust shows it.
Posted == {[key |-> m.key, kind |-> m.kind, variant |-> m.variant,
            quantity |-> m.quantity] : m \in ledger}
Stock == [v \in Variants |-> balance[v].quantity]

\* A commit is a post of one row to the abstract ledger.
LEMMA CommitPosts ==
  ASSUME IInv, IInv', NEW c \in Calls, Commit(c)
  PROVE  Abstract!LedgerNext
<1> DEFINE req == call[c].req
           entry == [by |-> c, send |-> call[c].sends, key |-> req.key,
                     kind |-> req.type, variant |-> req.variant,
                     quantity |-> Delta(req)]
           row == [key |-> req.key, kind |-> req.type,
                   variant |-> req.variant, quantity |-> Delta(req)]
           delta == [v \in Variants |-> Stock'[v] - Stock[v]]
<1>1. /\ req \in Requests /\ call[c].seen \in Snapshots
      /\ call[c].pc = "write" /\ RowsOfKey(req.key) = {}
      /\ balance \in [Variants -> [quantity : Int, version : Nat]]
  BY DEF Commit, ReadsStillHold, IInv, TypeInv, TypeOK, InCall, Decided
<1>2. Delta(req) \in Int \ {0}
  BY <1>1, DeltaType
<1>3. /\ req.variant \in Variants /\ req.key \in Keys
      /\ req.type \in Abstract!Kinds
  BY <1>1 DEF Requests, Types, Abstract!Kinds
<1>4. ledger' = ledger \cup {entry}
  BY SMTT(60) DEF Commit
<1>5. /\ balance'[req.variant].quantity = balance[req.variant].quantity + Delta(req)
      /\ \A v \in Variants \ {req.variant} : balance'[v] = balance[v]
  BY <1>1, <1>3 DEF Commit, IInv, Snapshot
<1>6. \A v \in Variants : delta[v] = IF v = req.variant THEN Delta(req) ELSE 0
  <2> SUFFICES ASSUME NEW v \in Variants
               PROVE  delta[v] = IF v = req.variant THEN Delta(req) ELSE 0
    OBVIOUS
  <2>1. Stock[v] = balance[v].quantity /\ Stock'[v] = balance'[v].quantity
    BY DEF Stock
  <2>2. balance[v].quantity \in Int
    BY <1>1
  <2> QED
    BY <1>2, <1>5, <2>1, <2>2
<1>7. Abstract!Rows(req.key, req.type, delta) = {row}
  <2>1. {w \in Variants : delta[w] # 0} = {req.variant}
    BY <1>2, <1>3, <1>6
  <2>2. delta[req.variant] = Delta(req)
    BY <1>3, <1>6
  <2> HIDE DEF delta
  <2> QED
    BY <2>1, <2>2 DEF Abstract!Rows
<1> HIDE DEF delta
<1>8. \A n \in Posted : ~Abstract!SameSlot(row, n)
  BY <1>1 DEF Posted, RowsOfKey, Abstract!SameSlot
<1>9. \A v \in Variants : Stock[v] + delta[v] = Stock'[v] /\ Stock'[v] >= 0
  <2> SUFFICES ASSUME NEW v \in Variants
               PROVE  Stock[v] + delta[v] = Stock'[v] /\ Stock'[v] >= 0
    OBVIOUS
  <2>1. Stock[v] \in Int /\ Stock'[v] \in Int /\ Stock'[v] >= 0
    BY DEF Stock, IInv, TypeInv, TypeOK, NeverNegative
  <2> QED
    BY <2>1 DEF delta
<1>10. Posted' = Posted \cup {row}
  <2>1. row = [key |-> entry.key, kind |-> entry.kind,
               variant |-> entry.variant, quantity |-> entry.quantity]
    OBVIOUS
  <2> HIDE DEF entry, row
  <2> QED
    BY <1>4, <2>1 DEF Posted
<1>11. Stock' = [v \in Variants |-> Stock[v] + delta[v]]
  <2>1. Stock' = [v \in Variants |-> Stock'[v]]
    BY DEF Stock
  <2> QED
    BY <1>9, <2>1
<1>12. Abstract!Post(req.key, req.type, delta)
  BY <1>7, <1>8, <1>9, <1>10, <1>11 DEF Abstract!Post, Posted, Stock
<1> QED
  BY <1>3, <1>12 DEF Abstract!LedgerNext, delta, Stock

\* Every statement is one posting of the stock ledger or leaves it alone.
LEMMA StepRefines ==
  ASSUME IInv, IInv', [Next]_vars
  PROVE  [Abstract!LedgerNext]_(Abstract!ledgerVars)
<1>1. CASE \E c \in Calls : Commit(c)
  BY <1>1, CommitPosts
<1>2. CASE ~\E c \in Calls : Commit(c)
  <2>1. UNCHANGED <<ledger, balance>>
    BY <1>2 DEF Next, Step, vars, Submit, Resend, Begin, LockRow,
       LockRowConflict, AnswerFromLedger, Refuse, Accept, CommitConflict,
       Crash, LoseResponse
  <2> QED
    BY SMTT(60), <2>1 DEF Abstract!ledgerVars
<1> QED
  BY <1>1, <1>2

\* The interleaved, retried and crashing transactions of adjust are
\* indistinguishable, in the rows they leave, from an atomic ledger that
\* posts one document at a time.
THEOREM LedgerImplemented == Spec => ImplementsLedger
<1>1. Init => Abstract!LedgerInit
  <2> SUFFICES ASSUME Init PROVE Abstract!LedgerInit
    OBVIOUS
  <2>1. Posted = {} /\ Stock \in [Variants -> Nat]
    BY DEF Init, Posted, Stock
  <2> QED
    BY <2>1 DEF Abstract!LedgerInit, Posted, Stock
<1>2. IInv /\ IInv' /\ [Next]_vars => [Abstract!LedgerNext]_(Abstract!ledgerVars)
  BY StepRefines
<1> QED
  BY <1>1, <1>2, InitSafe, SafeStep, PTL
  DEF Spec, ImplementsLedger, Abstract!LedgerSpec
=============================================================================
