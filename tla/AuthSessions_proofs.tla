------------------------ MODULE AuthSessions_proofs ------------------------
(***************************************************************************)
(* What AuthSessions promises for any finite number of calls.  A token is  *)
(* replaced or revoked only by the call that holds its row, a rotation     *)
(* commits only while it holds the row of the session, and a revocation    *)
(* holds that row too unless the session is revoked already.  So no token  *)
(* can be issued between the statement that lists the family and the       *)
(* commit that revokes it.                                                 *)
(***************************************************************************)
EXTENDS AuthSessions, FiniteSetTheorems, SequenceTheorems, TLAPS

\* A token is issued by a call that then has its answer, or was lost with it.
Done == {c \in Calls : call[c].pc \in Answering \cup Ended}
Counted == Len(tokens) <= 1 + Cardinality(Done)

\* A call presents a token that was issued.
Presented == \A c \in Calls : call[c].token \in DOMAIN tokens

CallStates == [pc : {"idle"} \cup Running \cup Ended, kind : Kinds,
               token : 1..MaxTokens, targets : SUBSET (1..MaxTokens)]
\* A row is held by a call in the middle of a transaction.
HoldersWrite == \A r \in Rows : rowLock[r] # None => call[rowLock[r]].pc \in Writing

TypeInv == TypeOK /\ Counted /\ Presented

\* The rows a call has locked by its place in the transaction.
Locking ==
  \A c \in Calls :
    /\ call[c].pc \in {"touch", "rotate"} => rowLock[call[c].token] = c
    /\ call[c].pc = "rotate" => rowLock[SessionRow] = c
    /\ call[c].pc \in {"revoke_tokens", "lock_tokens", "revoke"} =>
         session.revoked \/ rowLock[SessionRow] = c
    /\ call[c].pc = "revoke" => \A t \in call[c].targets : rowLock[t] = c

\* What a call is about to write still is true of the tokens.
Committed ==
  \A c \in Calls :
    /\ call[c].pc \in {"touch", "rotate"} => Live(tokens[call[c].token])
    /\ call[c].pc \in {"lock_tokens", "revoke"} =>
         \A t \in DOMAIN tokens : Live(tokens[t]) => t \in call[c].targets
    /\ call[c].pc \in {"revoked", "logged_out", "reuse"} => session.revoked

IInv == /\ TypeInv /\ Locking /\ Committed
        /\ RevokedFamilyIsDead /\ OneLiveToken

----------------------------------------------------------------------------
\* A step that issues no token and takes no answer back keeps the count.
LEMMA SameCount ==
  ASSUME Counted, Len(tokens) \in Nat, Len(tokens') = Len(tokens),
         \A c \in Calls : call[c].pc \in Answering \cup Ended =>
                            call'[c].pc \in Answering \cup Ended
  PROVE  Counted'
<1>1. Done \subseteq Done' /\ Done' \subseteq Calls
  BY DEF Done
<1>2. IsFiniteSet(Done') /\ IsFiniteSet(Done)
  BY <1>1, CallsAssumption, FS_Subset
<1>3. /\ Cardinality(Done) \in Nat /\ Cardinality(Done') \in Nat
      /\ Cardinality(Done) <= Cardinality(Done')
  BY <1>1, <1>2, FS_Subset, FS_CardinalityType
<1> QED
  BY <1>3 DEF Counted

\* There is room for the token of a call that has no answer yet.
LEMMA RoomForToken ==
  ASSUME TypeInv, NEW c \in Calls, call[c].pc \notin Answering \cup Ended,
         NEW S, S = Done \cup {c}
  PROVE  /\ Len(tokens) + 1 <= 1 + Cardinality(S)
         /\ Len(tokens) + 1 \in 1..MaxTokens
<1>1. IsFiniteSet(Done) /\ Cardinality(Done) \in Nat
  BY CallsAssumption, FS_Subset, FS_CardinalityType DEF Done
<1>2. c \notin Done
  BY DEF Done
<1>3. Cardinality(S) = Cardinality(Done) + 1
  BY <1>1, <1>2, FS_AddElement
<1>4. S \in SUBSET Calls
  BY DEF Done
<1>5. Cardinality(S) <= Cardinality(Calls) /\ Cardinality(Calls) \in Nat
  BY <1>4, CallsAssumption, FS_Subset, FS_CardinalityType
<1>6. Len(tokens) \in Nat
  BY DEF TypeInv, TypeOK
<1> QED
  BY <1>1, <1>3, <1>5, <1>6 DEF TypeInv, Counted, MaxTokens

\* A session fresh from the login satisfies the invariant.
LEMMA InitInv ==
  Init => IInv
<1> SUFFICES ASSUME Init
             PROVE  IInv
  OBVIOUS
<1>1. Cardinality(Calls) \in Nat
  BY CallsAssumption, FS_CardinalityType
<1>2. Done = {}
  BY DEF Init, Done, Answering, Ended
<1>3. Counted
  BY <1>2, FS_EmptySet DEF Init, Counted
<1>4. 1 \in 1..MaxTokens
  BY <1>1 DEF MaxTokens
<1>5. TypeOK
  BY <1>4 DEF Init, TypeOK, Fresh, Kinds
<1> QED
  BY <1>3, <1>5
  DEF Init, IInv, TypeInv, Presented, Locking, Committed, RevokedFamilyIsDead,
      OneLiveToken

\* A call that moves on keeps the types of calls and locks, if it holds rows
\* afterwards only in the middle of a transaction.
LEMMA MoveLocks ==
  ASSUME TypeOK, NEW c \in Calls, NEW pc \in Running \cup Ended, Goto(c, pc),
         rowLock' \in [Rows -> Calls \cup {None}],
         \A r \in Rows : \/ rowLock'[r] \in {None, c} /\ pc \in Writing
                         \/ rowLock'[r] = None
                         \/ rowLock'[r] = rowLock[r] /\ rowLock[r] # c
                         \/ rowLock'[r] = rowLock[r] /\ call[c].pc \notin Writing
  PROVE  call' \in [Calls -> CallStates] /\ HoldersWrite'
<1>1. call[c] \in CallStates
  BY DEF TypeOK, CallStates
<1>2. [call[c] EXCEPT !.pc = pc] \in CallStates
  BY <1>1 DEF CallStates
<1>3. call' \in [Calls -> CallStates]
  BY <1>2 DEF TypeOK, CallStates, Goto
<1>4. HoldersWrite'
  BY SMTT(60), CallsAssumption DEF TypeOK, Goto, HoldersWrite
<1> QED
  BY <1>3, <1>4

\* Such a move keeps all the types when it leaves session and tokens alone.
LEMMA MoveType ==
  ASSUME TypeInv, NEW c \in Calls, NEW pc \in Running \cup Ended, Goto(c, pc),
         call[c].pc \in Answering \cup Ended => pc \in Answering \cup Ended,
         UNCHANGED <<session, tokens>>, rowLock' \in [Rows -> Calls \cup {None}],
         \A r \in Rows : \/ rowLock'[r] \in {None, c} /\ pc \in Writing
                         \/ rowLock'[r] = None
                         \/ rowLock'[r] = rowLock[r] /\ rowLock[r] # c
                         \/ rowLock'[r] = rowLock[r] /\ call[c].pc \notin Writing
  PROVE  TypeInv'
<1>1. Counted'
  BY SameCount DEF TypeInv, TypeOK, Goto
<1>2. call' \in [Calls -> CallStates] /\ HoldersWrite'
  BY MoveLocks DEF TypeInv
<1>3. Presented'
  BY DEF TypeInv, TypeOK, Presented, Goto
<1> QED
  BY <1>1, <1>2, <1>3 DEF TypeInv, TypeOK, CallStates, HoldersWrite

\* A rotation changes one token and adds a fresh one.
LEMMA RotatedTokens ==
  ASSUME TypeInv, NEW c \in Calls, Rotate(c)
  PROVE  /\ tokens' \in Seq([consumed : BOOLEAN, revoked : BOOLEAN])
         /\ Len(tokens') = Len(tokens) + 1
         /\ tokens'[Len(tokens) + 1] = Fresh
         /\ ~Live(tokens'[call[c].token])
         /\ \A t \in DOMAIN tokens :
              t # call[c].token => tokens'[t] = tokens[t]
<1> DEFINE i == call[c].token
           s == [tokens EXCEPT ![i].consumed = TRUE]
           Token == [consumed : BOOLEAN, revoked : BOOLEAN]
<1>1. i \in DOMAIN tokens /\ tokens \in Seq(Token)
  BY DEF TypeInv, TypeOK, Presented
<1>2. tokens[i] \in Token
  <2>1. i \in 1..Len(tokens)
    BY <1>1, LenProperties
  <2> HIDE DEF i, Token
  <2> QED
    BY <1>1, <2>1, ElementOfSeq
<1>3. [tokens[i] EXCEPT !.consumed = TRUE] \in Token
  BY <1>2
<1>4. s = [tokens EXCEPT ![i] = [tokens[i] EXCEPT !.consumed = TRUE]]
  OBVIOUS
<1>5. s \in Seq(Token) /\ Len(s) = Len(tokens)
  BY <1>1, <1>3, <1>4
<1>6. /\ ~Live(s[i])
      /\ \A t \in DOMAIN tokens : t # i => s[t] = tokens[t]
  BY <1>1, <1>2 DEF Live
<1>7. Fresh \in Token /\ tokens' = Append(s, Fresh)
  BY DEF Rotate, Fresh
<1> HIDE DEF s, i
<1>8. DOMAIN tokens = 1..Len(s) /\ Len(tokens) = Len(s) /\ Len(s) \in Nat
  BY <1>1, <1>5
<1>9. \A t \in 1..Len(s) : tokens'[t] = s[t]
  BY <1>5, <1>7
<1>10. /\ tokens' \in Seq(Token)
       /\ Len(tokens') = Len(s) + 1
       /\ tokens'[Len(s) + 1] = Fresh
  BY <1>5, <1>7
<1> QED
  BY <1>1, <1>6, <1>8, <1>9, <1>10 DEF i

\* A revocation changes the tokens it has locked and no other.
LEMMA RevokedTokens ==
  ASSUME TypeInv, NEW c \in Calls, Revoke(c)
  PROVE  /\ tokens' \in Seq([consumed : BOOLEAN, revoked : BOOLEAN])
         /\ Len(tokens') = Len(tokens)
         /\ DOMAIN tokens' = DOMAIN tokens
         /\ \A t \in DOMAIN tokens :
              /\ t \in call[c].targets => ~Live(tokens'[t])
              /\ t \notin call[c].targets => tokens'[t] = tokens[t]
<1> DEFINE Token == [consumed : BOOLEAN, revoked : BOOLEAN]
           Next1(t) == IF t \in call[c].targets
                       THEN [tokens[t] EXCEPT !.revoked = TRUE] ELSE tokens[t]
<1>1. tokens \in Seq(Token)
  BY DEF TypeInv, TypeOK
<1>2. /\ DOMAIN tokens = 1..Len(tokens) /\ Len(tokens) \in Nat
      /\ \A t \in 1..Len(tokens) : tokens[t] \in Token
  BY <1>1, ElementOfSeq, LenProperties
<1>3. \A t \in 1..Len(tokens) :
        /\ Next1(t) \in Token
        /\ t \in call[c].targets => ~Live(Next1(t))
        /\ t \notin call[c].targets => Next1(t) = tokens[t]
  BY <1>2 DEF Live
<1>4. tokens' = [t \in 1..Len(tokens) |-> Next1(t)]
  BY <1>2 DEF Revoke
<1> HIDE DEF Next1, Token
<1>5. tokens' \in Seq(Token) /\ Len(tokens') = Len(tokens)
  BY <1>2, <1>3, <1>4, IsASeq, LenProperties
<1> QED
  BY <1>2, <1>3, <1>4, <1>5 DEF Token

\* The types, with the count of the tokens, are kept by every step.
LEMMA TypeStep ==
  ASSUME TypeInv, [Next]_vars
  PROVE  TypeInv'
<1> USE DEF TypeInv
<1>0. Cardinality(Calls) \in Nat /\ MaxTokens \in Nat
  BY CallsAssumption, FS_CardinalityType DEF MaxTokens
<1>1. CASE Expire
  <2>1. Counted'
    BY <1>1, SameCount DEF Expire, TypeOK
  <2> QED
    BY <1>1, <2>1 DEF Expire, TypeOK, Presented
<1>2. ASSUME NEW c \in Calls, NEW kind \in Kinds, NEW t \in DOMAIN tokens,
             Send(c, kind, t)
      PROVE  TypeInv'
  <2>1. t \in 1..MaxTokens
    BY <1>0 DEF TypeOK
  <2>2. [call[c] EXCEPT !.pc = "read", !.kind = kind, !.token = t] \in
          [pc : {"idle"} \cup Running \cup Ended, kind : Kinds,
           token : 1..MaxTokens, targets : SUBSET (1..MaxTokens)]
    BY <2>1 DEF TypeOK, Running
  <2>3. Counted'
    BY <1>2, SameCount DEF Send, TypeOK, Answering, Ended
  <2> QED
    BY <1>2, <2>2, <2>3 DEF Send, TypeOK, Presented, Writing, Answering
<1>3. ASSUME NEW c \in Calls, ReadForAccess(c)
      PROVE  TypeInv'
  <2>1. PICK pc \in {"granted", "denied"} : Goto(c, pc)
    BY <1>3 DEF ReadForAccess
  <2> QED
    BY <1>3, <2>1, MoveType
    DEF ReadForAccess, TypeOK, Running, Answering, Ended, Writing
<1>4. ASSUME NEW c \in Calls, ReadForRefresh(c)
      PROVE  TypeInv'
  <2>1. PICK pc \in {"revoke_session", "invalid", "consume"} : Goto(c, pc)
    BY <1>4 DEF ReadForRefresh
  <2> QED
    BY <1>4, <2>1, MoveType
    DEF ReadForRefresh, TypeOK, Running, Answering, Ended, Writing
<1>5. ASSUME NEW c \in Calls, Consume(c)
      PROVE  TypeInv'
  <2>1. /\ Goto(c, "touch") /\ "touch" \in Writing /\ "touch" \in Running
        /\ call[c].pc \notin Answering \cup Ended
    BY <1>5 DEF Consume, Writing, Running, Answering, Ended
  <2>2. /\ rowLock' \in [Rows -> Calls \cup {None}]
        /\ \A r \in Rows : rowLock'[r] \in {c, rowLock[r]}
    BY <1>5 DEF Consume, Lock, TypeOK
  <2>3. UNCHANGED <<session, tokens>>
    BY <1>5 DEF Consume
  <2> QED
    BY <2>1, <2>2, <2>3, MoveType
<1>6. ASSUME NEW c \in Calls, ConsumeLost(c)
      PROVE  TypeInv'
  <2>1. /\ Goto(c, "revoke_session") /\ "revoke_session" \in Running
        /\ call[c].pc \notin Writing /\ call[c].pc \notin Answering \cup Ended
        /\ UNCHANGED <<session, tokens, rowLock>>
    BY <1>6 DEF ConsumeLost, Writing, Running, Answering, Ended
  <2> QED
    BY <2>1, MoveType DEF TypeOK
<1>7. ASSUME NEW c \in Calls, Touch(c)
      PROVE  TypeInv'
  <2>1. /\ Goto(c, "rotate") /\ "rotate" \in Writing /\ "rotate" \in Running
        /\ call[c].pc \notin Answering \cup Ended
    BY <1>7 DEF Touch, Writing, Running, Answering, Ended
  <2>2. /\ rowLock' \in [Rows -> Calls \cup {None}]
        /\ \A r \in Rows : rowLock'[r] \in {c, rowLock[r]}
    BY <1>7 DEF Touch, Lock, TypeOK
  <2>3. UNCHANGED <<session, tokens>>
    BY <1>7 DEF Touch
  <2> QED
    BY <2>1, <2>2, <2>3, MoveType
<1>8. ASSUME NEW c \in Calls, Rotate(c)
      PROVE  TypeInv'
  <2>1. Done' = Done \cup {c} /\ call[c].pc \notin Answering \cup Ended
    BY <1>8 DEF Rotate, Goto, Done, TypeOK, Answering, Ended
  <2>2. /\ tokens' \in Seq([consumed : BOOLEAN, revoked : BOOLEAN])
        /\ Len(tokens') = Len(tokens) + 1
    BY <1>8, RotatedTokens
  <2>3. Counted' /\ Len(tokens') \in 1..MaxTokens
    BY <2>1, <2>2, RoomForToken DEF Counted
  <2>4. /\ rowLock' \in [Rows -> Calls \cup {None}]
        /\ call' \in [Calls -> CallStates] /\ HoldersWrite'
    BY <1>8, MoveLocks DEF Rotate, Release, TypeOK, Running, Answering
  <2>5. Presented'
    <3>1. DOMAIN tokens = 1..Len(tokens) /\ DOMAIN tokens' = 1..(Len(tokens) + 1)
      BY <2>2, LenProperties DEF TypeOK
    <3> QED
      BY <1>8, <3>1 DEF Rotate, Goto, TypeOK, Presented
  <2> QED
    BY <1>8, <2>2, <2>3, <2>4, <2>5
    DEF Rotate, TypeOK, CallStates, HoldersWrite
<1>9. ASSUME NEW c \in Calls, ReadForLogout(c)
      PROVE  TypeInv'
  <2>1. /\ Goto(c, "revoke_session") /\ "revoke_session" \in Running
        /\ call[c].pc \notin Writing /\ call[c].pc \notin Answering \cup Ended
        /\ UNCHANGED <<session, tokens, rowLock>>
    BY <1>9 DEF ReadForLogout, Writing, Running, Answering, Ended
  <2> QED
    BY <2>1, MoveType DEF TypeOK
<1>10. ASSUME NEW c \in Calls, RevokeSession(c)
       PROVE  TypeInv'
  <2>1. /\ Goto(c, "revoke_tokens") /\ "revoke_tokens" \in Writing /\ "revoke_tokens" \in Running
        /\ call[c].pc \notin Answering \cup Ended
    BY <1>10 DEF RevokeSession, Writing, Running, Answering, Ended
  <2>2. /\ rowLock' \in [Rows -> Calls \cup {None}]
        /\ \A r \in Rows : rowLock'[r] \in {c, rowLock[r]}
    BY <1>10 DEF RevokeSession, Lock, TypeOK
  <2>3. UNCHANGED <<session, tokens>>
    BY <1>10 DEF RevokeSession
  <2> QED
    BY <2>1, <2>2, <2>3, MoveType
<1>11. ASSUME NEW c \in Calls, RevokeTokens(c)
       PROVE  TypeInv'
  <2>1. FamilyToRevoke(c) \in SUBSET (1..MaxTokens)
    BY <1>0 DEF FamilyToRevoke, TypeOK
  <2>2. Counted'
    BY <1>11, SameCount DEF RevokeTokens, TypeOK, Answering, Ended
  <2>3. [call[c] EXCEPT !.pc = "lock_tokens", !.targets = FamilyToRevoke(c)]
          \in CallStates
    BY <2>1 DEF TypeOK, CallStates, Running, Writing
  <2>4. call' \in [Calls -> CallStates] /\ Presented' /\ HoldersWrite'
    BY <1>11, <2>3
    DEF RevokeTokens, TypeOK, CallStates, Presented, HoldersWrite, Writing
  <2> QED
    BY <1>11, <2>2, <2>4 DEF RevokeTokens, TypeOK, CallStates, HoldersWrite
<1>12. ASSUME NEW c \in Calls, LockTokens(c)
       PROVE  TypeInv'
  <2>1. /\ Goto(c, "revoke") /\ "revoke" \in Writing /\ "revoke" \in Running
        /\ call[c].pc \notin Answering \cup Ended
    BY <1>12 DEF LockTokens, Writing, Running, Answering, Ended
  <2>2. /\ rowLock' \in [Rows -> Calls \cup {None}]
        /\ \A r \in Rows : rowLock'[r] \in {c, rowLock[r]}
    BY <1>12 DEF LockTokens, Lock, TypeOK
  <2>3. UNCHANGED <<session, tokens>>
    BY <1>12 DEF LockTokens
  <2> QED
    BY <2>1, <2>2, <2>3, MoveType
<1>13. ASSUME NEW c \in Calls, Revoke(c)
       PROVE  TypeInv'
  <2>1. /\ tokens' \in Seq([consumed : BOOLEAN, revoked : BOOLEAN])
        /\ Len(tokens') = Len(tokens) /\ DOMAIN tokens' = DOMAIN tokens
    BY <1>13, RevokedTokens
  <2>2. Goto(c, "revoked")
    BY <1>13 DEF Revoke
  <2>3. Counted'
    BY <1>13, <2>1, <2>2, SameCount DEF Revoke, Goto, TypeOK, Answering
  <2>4. /\ rowLock' \in [Rows -> Calls \cup {None}]
        /\ call' \in [Calls -> CallStates] /\ HoldersWrite'
    BY <1>13, <2>2, MoveLocks DEF Revoke, Release, TypeOK, Running, Answering
  <2>5. Presented' /\ session' \in [revoked : BOOLEAN, expired : BOOLEAN]
    BY ZenonT(60), <1>13, <2>1, <2>2 DEF Revoke, Goto, TypeOK, Presented
  <2> QED
    BY <2>1, <2>3, <2>4, <2>5 DEF TypeOK, CallStates, HoldersWrite
<1>14. ASSUME NEW c \in Calls, call[c].pc \in Running, NEW answer \in {"failed", "lost"},
              rowLock' = Release(c), Goto(c, answer), UNCHANGED <<session, tokens>>
       PROVE  TypeInv'
  BY <1>14, MoveType DEF Release, TypeOK, Ended
<1>15. CASE UNCHANGED vars
  BY <1>15, SameCount DEF vars, TypeOK, Presented
<1>16. ASSUME NEW c \in Calls, DeadlockVictim(c)
       PROVE  call[c].pc \in Running
  BY <1>16 DEF DeadlockVictim, Deadlocked, Blockers, Wanted, Running, Writing
<1>17. ASSUME NEW c \in Calls, NEW answer \in Ended, call[c].pc \in Answering,
              Goto(c, answer), UNCHANGED <<session, tokens, rowLock>>
       PROVE  TypeInv'
  <2>1. call[c].pc \notin Writing
    BY <1>17 DEF Answering, Writing
  <2> QED
    BY <1>17, <2>1, MoveType DEF TypeOK
<1>18. ASSUME NEW c \in Calls, Admit(c) \/ Answer(c)
       PROVE  TypeInv'
  BY <1>17, <1>18 DEF Admit, Answer, Answering, Ended
<1> QED
  BY <1>1, <1>2, <1>3, <1>4, <1>5, <1>6, <1>7, <1>8, <1>9, <1>10, <1>11,
     <1>12, <1>13, <1>14, <1>15, <1>16, <1>18
  DEF Next, Step, DeadlockVictim, Crash

----------------------------------------------------------------------------
\* A call that rotates holds the row of a session that is not revoked, so no
\* revocation is past its first statement.
LEMMA RotationExcludesRevocation ==
  ASSUME IInv, NEW c \in Calls, call[c].pc = "rotate"
  PROVE  /\ ~session.revoked
         /\ Live(tokens[call[c].token])
         /\ \A d \in Calls \ {c} :
              /\ call[d].pc \notin {"rotate", "revoke_tokens", "lock_tokens",
                                    "revoke", "revoked", "logged_out", "reuse"}
              /\ call[d].pc = "touch" => call[d].token # call[c].token
<1>1. Live(tokens[call[c].token]) /\ call[c].token \in DOMAIN tokens
  BY DEF IInv, TypeInv, Presented, Committed
<1>2. ~session.revoked
  BY <1>1 DEF IInv, RevokedFamilyIsDead
<1>3. rowLock[SessionRow] = c /\ rowLock[call[c].token] = c
  BY DEF IInv, Locking
<1> QED
  BY <1>1, <1>2, <1>3 DEF IInv, Locking, Committed

\* Who holds which row, after every step.
LEMMA LockStep ==
  ASSUME IInv, Next
  PROVE  Locking'
<1> USE DEF IInv
<1>0. /\ call \in [Calls -> CallStates] /\ SessionRow \in Rows
      /\ \A t \in 1..MaxTokens : t \in Rows /\ t # SessionRow
  BY DEF TypeInv, TypeOK, CallStates, Rows, SessionRow
<1>1. CASE Expire
  BY <1>1 DEF Expire, Locking, TypeInv, TypeOK
<1>2. ASSUME NEW c \in Calls, NEW kind \in Kinds, NEW t \in DOMAIN tokens,
             Send(c, kind, t)
      PROVE  Locking'
  BY <1>2, <1>0 DEF Send, Locking
<1>3. ASSUME NEW c \in Calls,
             NEW pc \in Answering \cup Ended \cup {"revoke_session", "consume"},
             Goto(c, pc), UNCHANGED <<session, tokens, rowLock>>
      PROVE  Locking'
  BY <1>3, <1>0 DEF Goto, Locking, Answering, Ended
<1>4. ASSUME NEW c \in Calls, Consume(c)
      PROVE  Locking'
  BY <1>4, <1>0, CallsAssumption
  DEF Consume, Goto, Lock, Free, Locking, CallStates
<1>5. ASSUME NEW c \in Calls, Touch(c)
      PROVE  Locking'
  BY <1>5, <1>0, CallsAssumption
  DEF Touch, Goto, Lock, Free, Locking, CallStates
<1>6. ASSUME NEW c \in Calls, Rotate(c)
      PROVE  Locking'
  BY <1>6, <1>0, RotationExcludesRevocation
  DEF Rotate, Goto, Release, Locking, CallStates
<1>7. ASSUME NEW c \in Calls, RevokeSession(c)
      PROVE  Locking'
  BY <1>7, <1>0, CallsAssumption
  DEF RevokeSession, Goto, Lock, Free, Locking, CallStates
<1>8. ASSUME NEW c \in Calls, RevokeTokens(c)
      PROVE  Locking'
  BY <1>8, <1>0 DEF RevokeTokens, Locking
<1>9. ASSUME NEW c \in Calls, LockTokens(c)
      PROVE  Locking'
  BY <1>9, <1>0, CallsAssumption
  DEF LockTokens, Goto, Lock, Free, Locking, CallStates
<1>10. ASSUME NEW c \in Calls, Revoke(c)
       PROVE  Locking'
  <2>1. Goto(c, "revoked")
    BY <1>10 DEF Revoke
  <2>2. session'.revoked
    BY <1>10 DEF Revoke, TypeInv, TypeOK
  <2> QED
    BY <1>10, <1>0, <2>1, <2>2 DEF Revoke, Goto, Release, Locking, CallStates
<1>11. ASSUME NEW c \in Calls, NEW answer \in {"failed", "lost"},
              rowLock' = Release(c), Goto(c, answer), UNCHANGED <<session, tokens>>
       PROVE  Locking'
  BY <1>11, <1>0 DEF Goto, Release, Locking, CallStates
<1> QED
  BY <1>1, <1>2, <1>3, <1>4, <1>5, <1>6, <1>7, <1>8, <1>9, <1>10, <1>11
  DEF Next, Step, ReadForAccess, Admit, ReadForRefresh, ReadForLogout,
      ConsumeLost, Answer, DeadlockVictim, Crash, Answering, Ended

\* What a call in a transaction relies on, after every step.
LEMMA CommittedStep ==
  ASSUME IInv, Next
  PROVE  Committed'
<1> USE DEF IInv
<1>0. call \in [Calls -> CallStates] /\ Presented
  BY DEF TypeInv, TypeOK, CallStates
<1>1. CASE Expire
  BY <1>1 DEF Expire, Committed, TypeInv, TypeOK
<1>2. ASSUME NEW c \in Calls, NEW kind \in Kinds, NEW t \in DOMAIN tokens,
             Send(c, kind, t)
      PROVE  Committed'
  BY <1>2, <1>0 DEF Send, Committed
<1>3. ASSUME NEW c \in Calls,
             NEW pc \in {"granted", "allowed", "denied", "revoke_session",
                         "invalid", "consume", "revoke_tokens", "refreshed",
                         "failed", "lost"},
             Goto(c, pc), UNCHANGED <<session, tokens>>
      PROVE  Committed'
  BY <1>3, <1>0 DEF Goto, Committed
<1>4. ASSUME NEW c \in Calls, Consume(c)
      PROVE  Committed'
  BY <1>4, <1>0 DEF Consume, StillLive, Goto, Committed
<1>5. ASSUME NEW c \in Calls, Touch(c)
      PROVE  Committed'
  BY <1>5, <1>0 DEF Touch, Goto, Committed
<1>6. ASSUME NEW c \in Calls, Rotate(c)
      PROVE  Committed'
  <2>1. call[c].pc = "rotate" /\ session' = session
    BY <1>6 DEF Rotate
  <2>2. \A t \in DOMAIN tokens : t # call[c].token => tokens'[t] = tokens[t]
    BY <1>6, RotatedTokens
  <2> QED
    BY <1>6, <1>0, <2>1, <2>2, RotationExcludesRevocation
    DEF Rotate, Goto, Committed, Presented
<1>7. ASSUME NEW c \in Calls, RevokeTokens(c)
      PROVE  Committed'
  BY <1>7, <1>0 DEF RevokeTokens, FamilyToRevoke, Live, Committed
<1>8. ASSUME NEW c \in Calls, LockTokens(c)
      PROVE  Committed'
  BY <1>8, <1>0 DEF LockTokens, Goto, Committed
<1>9. ASSUME NEW c \in Calls, Revoke(c)
      PROVE  Committed'
  <2>1. Goto(c, "revoked")
    BY <1>9 DEF Revoke
  <2>2. session'.revoked
    BY <1>9 DEF Revoke, TypeInv, TypeOK
  <2>3. /\ DOMAIN tokens' = DOMAIN tokens
        /\ \A t \in DOMAIN tokens :
             /\ t \in call[c].targets => ~Live(tokens'[t])
             /\ t \notin call[c].targets => tokens'[t] = tokens[t]
    BY <1>9, RevokedTokens
  <2>4. \A d \in Calls : call[d].pc \in {"touch", "rotate"} =>
          call[d].token \notin call[c].targets
    BY <1>9 DEF Revoke, Locking
  <2> QED
    BY <1>0, <2>1, <2>2, <2>3, <2>4 DEF Goto, Committed, Presented
<1>10. ASSUME NEW c \in Calls, Answer(c)
       PROVE  Committed'
  <2>1. CASE call[c].pc = "rotated"
    BY <1>3, <1>10, <2>1 DEF Answer
  <2>2. CASE call[c].pc = "revoked"
    BY <1>10, <1>0, <2>2 DEF Answer, Goto, Committed
  <2> QED
    BY <1>10, <2>1, <2>2 DEF Answer
<1> QED
  BY <1>1, <1>2, <1>3, <1>4, <1>5, <1>6, <1>7, <1>8, <1>9, <1>10
  DEF Next, Step, ReadForAccess, Admit, ReadForRefresh, ReadForLogout,
      ConsumeLost, RevokeSession, DeadlockVictim, Crash

\* The family after every step: one live token, none once it is revoked.
LEMMA FamilyStep ==
  ASSUME IInv, Next
  PROVE  RevokedFamilyIsDead' /\ OneLiveToken'
<1> USE DEF IInv
<1>1. CASE Expire
  BY <1>1 DEF Expire, RevokedFamilyIsDead, OneLiveToken, TypeInv, TypeOK
<1>2. CASE UNCHANGED <<session, tokens>>
  BY <1>2 DEF RevokedFamilyIsDead, OneLiveToken
<1>3. ASSUME NEW c \in Calls, Rotate(c)
      PROVE  RevokedFamilyIsDead' /\ OneLiveToken'
  <2>1. call[c].pc = "rotate" /\ session' = session
    BY <1>3 DEF Rotate
  <2>2. ~session.revoked /\ Live(tokens[call[c].token])
    BY <2>1, RotationExcludesRevocation
  <2>3. /\ Len(tokens') = Len(tokens) + 1
        /\ ~Live(tokens'[call[c].token])
        /\ \A t \in DOMAIN tokens : t # call[c].token => tokens'[t] = tokens[t]
        /\ DOMAIN tokens' = DOMAIN tokens \cup {Len(tokens) + 1}
    <3>1. /\ tokens \in Seq([consumed : BOOLEAN, revoked : BOOLEAN])
          /\ tokens' \in Seq([consumed : BOOLEAN, revoked : BOOLEAN])
      BY <1>3, RotatedTokens DEF TypeInv, TypeOK
    <3>2. /\ DOMAIN tokens = 1..Len(tokens) /\ Len(tokens) \in Nat
          /\ DOMAIN tokens' = 1..Len(tokens')
      BY <3>1, LenProperties
    <3>3. /\ Len(tokens') = Len(tokens) + 1
          /\ ~Live(tokens'[call[c].token])
          /\ \A t \in DOMAIN tokens : t # call[c].token => tokens'[t] = tokens[t]
      BY <1>3, RotatedTokens
    <3>4. DOMAIN tokens' = DOMAIN tokens \cup {Len(tokens) + 1}
      BY <3>2, <3>3
    <3> QED
      BY <3>3, <3>4
  <2>4. \A t \in DOMAIN tokens : ~Live(tokens'[t])
    BY <2>2, <2>3 DEF OneLiveToken, TypeInv, Presented
  <2> QED
    BY <2>1, <2>2, <2>3, <2>4 DEF RevokedFamilyIsDead, OneLiveToken
<1>4. ASSUME NEW c \in Calls, Revoke(c)
      PROVE  RevokedFamilyIsDead' /\ OneLiveToken'
  <2>1. /\ DOMAIN tokens' = DOMAIN tokens
        /\ \A t \in DOMAIN tokens :
             /\ t \in call[c].targets => ~Live(tokens'[t])
             /\ t \notin call[c].targets => tokens'[t] = tokens[t]
    BY <1>4, RevokedTokens
  <2>2. \A t \in DOMAIN tokens : Live(tokens[t]) => t \in call[c].targets
    BY <1>4 DEF Revoke, Committed
  <2> QED
    BY <2>1, <2>2 DEF RevokedFamilyIsDead, OneLiveToken
<1> QED
  BY <1>1, <1>2, <1>3, <1>4
  DEF Next, Step, Send, ReadForAccess, Admit, ReadForRefresh, ReadForLogout,
      Consume, ConsumeLost, Touch, RevokeSession, RevokeTokens, LockTokens,
      Answer, DeadlockVictim, Crash

\* IInv is inductive.
LEMMA StepInv ==
  ASSUME IInv, [Next]_vars
  PROVE  IInv'
<1>1. CASE Next
  BY <1>1, TypeStep, LockStep, CommittedStep, FamilyStep DEF IInv
<1>2. CASE UNCHANGED vars
  BY <1>2
  DEF vars, IInv, TypeInv, TypeOK, Counted, Done, Presented, Locking,
      Committed, RevokedFamilyIsDead, OneLiveToken
<1> QED
  BY <1>1, <1>2

\* IInv holds throughout every behaviour.
THEOREM Invariant ==
  Spec => []IInv
<1>1. Init => IInv
  BY InitInv
<1>2. IInv /\ [Next]_vars => IInv'
  BY StepInv
<1> QED
  BY <1>1, <1>2, PTL DEF Spec

----------------------------------------------------------------------------
\* The tables and calls keep their types, no more tokens are issued than calls
\* have an answer, and only a transaction in progress holds a row.
THEOREM TypeCorrect ==
  Spec => []TypeOK
<1>1. IInv => TypeOK
  BY DEF IInv, TypeInv
<1> QED
  BY <1>1, Invariant, PTL

\* refresh would accept no token of a session that is revoked.
THEOREM RevokedFamilyDead ==
  Spec => []RevokedFamilyIsDead
<1>1. IInv => RevokedFamilyIsDead
  BY DEF IInv
<1> QED
  BY <1>1, Invariant, PTL

\* The calls that present one token race, and one successor is issued.
THEOREM SingleSuccessor ==
  Spec => []OneLiveToken
<1>1. IInv => OneLiveToken
  BY DEF IInv
<1> QED
  BY <1>1, Invariant, PTL

\* Once a revocation has committed, no session read grants a request and no
\* rotation commits: whoever rotates holds the row of a session in force.
THEOREM RevocationFinal ==
  Spec => RevocationIsFinal
<1> DEFINE Final == /\ session'.revoked
                    /\ Len(tokens') = Len(tokens)
                    /\ \A c \in Calls :
                         call'[c].pc = "granted" => call[c].pc = "granted"
<1>1. ASSUME IInv, Next, session.revoked
      PROVE  Final
  <2>0. call \in [Calls -> CallStates] /\ session \in [revoked : BOOLEAN, expired : BOOLEAN]
    BY <1>1 DEF IInv, TypeInv, TypeOK, CallStates
  <2>1. \A d \in Calls : ~Rotate(d)
    BY <1>1, RotationExcludesRevocation DEF Rotate
  <2>2. CASE Expire
    BY <1>1, <2>0, <2>2 DEF Expire
  <2>3. ASSUME NEW d \in Calls, NEW pc, pc # "granted", Goto(d, pc),
               session' = session, Len(tokens') = Len(tokens)
        PROVE  Final
    BY <1>1, <2>0, <2>3 DEF Goto
  <2>4. ASSUME NEW d \in Calls, NEW kind \in Kinds, NEW t \in DOMAIN tokens,
               Send(d, kind, t)
        PROVE  Final
    BY <1>1, <2>0, <2>4 DEF Send
  <2>5. ASSUME NEW d \in Calls, ReadForAccess(d)
        PROVE  Final
    BY <1>1, <2>3, <2>5 DEF ReadForAccess, Usable
  <2>6. ASSUME NEW d \in Calls, RevokeTokens(d)
        PROVE  Final
    BY <1>1, <2>0, <2>6 DEF RevokeTokens
  <2>7. ASSUME NEW d \in Calls, Revoke(d)
        PROVE  Final
    <3>1. Len(tokens') = Len(tokens)
      BY <1>1, <2>7, RevokedTokens DEF IInv
    <3>2. session'.revoked /\ Goto(d, "revoked")
      BY <2>0, <2>7 DEF Revoke
    <3> QED
      BY <2>0, <3>1, <3>2 DEF Goto
  <2>8. ASSUME NEW d \in Calls,
               \/ Admit(d) \/ ReadForRefresh(d) \/ ReadForLogout(d)
               \/ Consume(d) \/ ConsumeLost(d) \/ Touch(d)
               \/ RevokeSession(d) \/ LockTokens(d) \/ Answer(d)
               \/ DeadlockVictim(d) \/ Crash(d)
        PROVE  Final
    <3>1. PICK pc : pc # "granted" /\ Goto(d, pc)
      BY <2>8
      DEF Admit, ReadForRefresh, ReadForLogout, Consume, ConsumeLost, Touch,
          RevokeSession, LockTokens, Answer, DeadlockVictim, Crash
    <3>2. UNCHANGED <<session, tokens>>
      BY <2>8
      DEF Admit, ReadForRefresh, ReadForLogout, Consume, ConsumeLost, Touch,
          RevokeSession, LockTokens, Answer, DeadlockVictim, Crash
    <3> QED
      BY <2>3, <3>1, <3>2
  <2> QED
    BY <1>1, <2>1, <2>2, <2>4, <2>5, <2>6, <2>7, <2>8 DEF Next, Step
<1>2. IInv /\ [Next]_vars => [session.revoked => Final]_vars
  BY <1>1
<1> QED
  BY <1>2, Invariant, PTL DEF Spec, RevocationIsFinal

=============================================================================
