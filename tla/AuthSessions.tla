---------------------------- MODULE AuthSessions ----------------------------
(***************************************************************************)
(* One login session: its row in login_sessions, its family of refresh     *)
(* tokens, and the calls of AuthService.refresh, AuthService.logout and    *)
(* AccessTokenGuard that arrive together.  Several tabs share the cookie,  *)
(* a response gets lost, a request is repeated: so a call may present any  *)
(* token of the family that was ever issued.                               *)
(*                                                                         *)
(* These transactions run READ COMMITTED.  PostgreSQL is external and      *)
(* modelled by what it does with their statements: an UPDATE waits for the *)
(* holder of a row and then looks at the committed row again, a row stays  *)
(* locked to the end of the transaction, and of two transactions that wait *)
(* for each other one is aborted with 40P01, which the service does not    *)
(* retry.                                                                  *)
(***************************************************************************)
EXTENDS Integers, Sequences, FiniteSets

CONSTANTS Calls,   \* calls, each made once
          None     \* no holder of a row

ASSUME CallsAssumption == None \notin Calls /\ IsFiniteSet(Calls)

VARIABLES session,  \* the row of login_sessions
          tokens,   \* refresh_tokens of the session in the order of issue
          rowLock,  \* row -> the call whose transaction holds it
          call      \* what each call is doing

vars == <<session, tokens, rowLock, call>>

SessionRow == 0   \* a token has the number of its issue
MaxTokens == 1 + Cardinality(Calls)
Rows == {SessionRow} \cup (1..MaxTokens)

Fresh == [consumed |-> FALSE, revoked |-> FALSE]
Live(token) == ~token.consumed /\ ~token.revoked

Kinds == {"refresh", "logout", "access"}
\* A call that is in the middle of a transaction that has written something.
Writing == {"touch", "rotate", "revoke_tokens", "lock_tokens", "revoke"}
\* A call that knows its answer and has not given it yet.
Answering == {"granted", "rotated", "revoked"}
Running == {"read", "consume", "revoke_session"} \cup Writing \cup Answering
Ended == {"refreshed", "reuse", "invalid", "logged_out", "allowed", "denied",
          "failed", "lost"}

\* login: the session with the first token of its family.
Init ==
  /\ session = [revoked |-> FALSE, expired |-> FALSE]
  /\ tokens = <<Fresh>>
  /\ rowLock = [r \in Rows |-> None]
  /\ call = [c \in Calls |->
               [pc |-> "idle", kind |-> "access", token |-> 1, targets |-> {}]]

Goto(c, pc) == call' = [call EXCEPT ![c].pc = pc]
Free(row) == rowLock[row] = None
Lock(c, rows) ==
  rowLock' = [r \in Rows |-> IF r \in rows THEN c ELSE rowLock[r]]
\* Slip: the rows stay locked.
KeepLocks(c) == rowLock
\* The transaction of a call ends.
Release(c) == [r \in Rows |-> IF rowLock[r] = c THEN None ELSE rowLock[r]]

----------------------------------------------------------------------------
\* A client calls with a token of the family, or with an access token.
Send(c, kind, t) ==
  /\ call[c].pc = "idle"
  /\ kind = "access" => t = 1
  /\ call' = [call EXCEPT ![c] = [@ EXCEPT !.pc = "read", !.kind = kind,
                                           !.token = t]]
  /\ UNCHANGED <<session, tokens, rowLock>>

\* The session reaches its expiry date, or its user is deactivated.
Expire ==
  /\ ~session.expired
  /\ session' = [session EXCEPT !.expired = TRUE]
  /\ UNCHANGED <<tokens, rowLock, call>>

\* Slip: the revocation of the session is not looked at.
UsableUntilExpiry == ~session.expired
Usable == ~session.revoked /\ ~session.expired

\* AccessTokenGuard.canActivate reads the session for every request ...
ReadForAccess(c) ==
  /\ call[c].pc = "read" /\ call[c].kind = "access"
  /\ Goto(c, IF Usable THEN "granted" ELSE "denied")
  /\ UNCHANGED <<session, tokens, rowLock>>

\* ... and lets it in on what it read, whatever was committed meanwhile.
Admit(c) ==
  /\ call[c].pc = "granted"
  /\ Goto(c, "allowed")
  /\ UNCHANGED <<session, tokens, rowLock>>

\* refresh() reads the token outside any transaction: a used one revokes the
\* family, and a session that is over is refused.
ReadForRefresh(c) ==
  /\ call[c].pc = "read" /\ call[c].kind = "refresh"
  /\ Goto(c, IF ~Live(tokens[call[c].token]) THEN "revoke_session"
             ELSE IF ~Usable THEN "invalid" ELSE "consume")
  /\ UNCHANGED <<session, tokens, rowLock>>

\* Slip: the update has no condition on consumed_at and revoked_at.
AnyRow(t) == TRUE
StillLive(t) == Live(tokens[t])

\* First statement of the rotation: the token is consumed if it still is what
\* the earlier read saw.  The replacement is inserted, unseen by others.
Consume(c) ==
  /\ call[c].pc = "consume"
  /\ Free(call[c].token)
  /\ StillLive(call[c].token)
  /\ Lock(c, {call[c].token})
  /\ Goto(c, "touch")
  /\ UNCHANGED <<session, tokens>>

\* Another call was faster: RefreshReuseError rolls back, then the family is
\* revoked.
ConsumeLost(c) ==
  /\ call[c].pc = "consume"
  /\ Free(call[c].token)
  /\ ~StillLive(call[c].token)
  /\ Goto(c, "revoke_session")
  /\ UNCHANGED <<session, tokens, rowLock>>

\* lastSeenAt of the session is set, whatever the session's state.
Touch(c) ==
  /\ call[c].pc = "touch"
  /\ Free(SessionRow)
  /\ Lock(c, {SessionRow})
  /\ Goto(c, "rotate")
  /\ UNCHANGED <<session, tokens>>

\* The rotation commits.
Rotate(c) ==
  /\ call[c].pc = "rotate"
  /\ tokens' = Append([tokens EXCEPT ![call[c].token].consumed = TRUE], Fresh)
  /\ rowLock' = Release(c)
  /\ Goto(c, "rotated")
  /\ UNCHANGED session

\* logout() looks the token up; a token that was issued is always found.
ReadForLogout(c) ==
  /\ call[c].pc = "read" /\ call[c].kind = "logout"
  /\ Goto(c, "revoke_session")
  /\ UNCHANGED <<session, tokens, rowLock>>

\* revokeSession: the session first; a session revoked already matches no row.
RevokeSession(c) ==
  /\ call[c].pc = "revoke_session"
  /\ Free(SessionRow)
  /\ Lock(c, IF session.revoked THEN {} ELSE {SessionRow})
  /\ Goto(c, "revoke_tokens")
  /\ UNCHANGED <<session, tokens>>

\* Slip: only the token that was presented is revoked.
PresentedToken(c) ==
  {call[c].token} \cap {t \in DOMAIN tokens : ~tokens[t].revoked}
\* The statement sees the tokens that are committed when it starts ...
FamilyToRevoke(c) == {t \in DOMAIN tokens : ~tokens[t].revoked}

RevokeTokens(c) ==
  /\ call[c].pc = "revoke_tokens"
  /\ call' = [call EXCEPT ![c] = [@ EXCEPT !.pc = "lock_tokens",
                                           !.targets = FamilyToRevoke(c)]]
  /\ UNCHANGED <<session, tokens, rowLock>>

\* ... and waits for the one that a rotation may hold.  Only the newest token
\* is ever contended, so taking all the rows in one step loses no behaviour.
LockTokens(c) ==
  /\ call[c].pc = "lock_tokens"
  /\ \A t \in call[c].targets : Free(t)
  /\ Lock(c, call[c].targets)
  /\ Goto(c, "revoke")
  /\ UNCHANGED <<session, tokens>>

Revoke(c) ==
  /\ call[c].pc = "revoke"
  /\ session' = [session EXCEPT !.revoked = TRUE]
  /\ tokens' = [t \in DOMAIN tokens |->
                  IF t \in call[c].targets
                  THEN [tokens[t] EXCEPT !.revoked = TRUE] ELSE tokens[t]]
  /\ rowLock' = Release(c)
  /\ Goto(c, "revoked")

\* After the commit: a refresh signs an access token and returns both tokens,
\* or reports the reuse; a logout is done.
Answer(c) ==
  /\ call[c].pc \in {"rotated", "revoked"}
  /\ Goto(c, IF call[c].pc = "rotated" THEN "refreshed"
             ELSE IF call[c].kind = "logout" THEN "logged_out" ELSE "reuse")
  /\ UNCHANGED <<session, tokens, rowLock>>

----------------------------------------------------------------------------
\* The rows whose holder a call waits for.
Wanted(c) ==
  CASE call[c].pc = "consume" -> {call[c].token}
    [] call[c].pc \in {"touch", "revoke_session"} -> {SessionRow}
    [] call[c].pc = "lock_tokens" -> call[c].targets
    [] OTHER -> {}
Blockers(c) == {rowLock[r] : r \in Wanted(c)} \ {None, c}
Deadlocked(c) == \E d \in Blockers(c) : c \in Blockers(d)

\* One of two transactions that wait for each other is aborted; the service
\* passes the error on.
DeadlockVictim(c) ==
  /\ Deadlocked(c)
  /\ rowLock' = Release(c)
  /\ Goto(c, "failed")
  /\ UNCHANGED <<session, tokens>>

\* The process dies: an open transaction is rolled back, a committed one stays
\* without an answer.
Crash(c) ==
  /\ call[c].pc \in Running
  /\ rowLock' = Release(c)
  /\ Goto(c, "lost")
  /\ UNCHANGED <<session, tokens>>

Step(c) ==
  \/ ReadForAccess(c) \/ Admit(c) \/ ReadForRefresh(c) \/ ReadForLogout(c)
  \/ Consume(c) \/ ConsumeLost(c) \/ Touch(c) \/ Rotate(c)
  \/ RevokeSession(c) \/ RevokeTokens(c) \/ LockTokens(c) \/ Revoke(c)
  \/ Answer(c)
  \/ DeadlockVictim(c)

Next ==
  \/ Expire
  \/ \E c \in Calls :
       \/ \E kind \in Kinds, t \in DOMAIN tokens : Send(c, kind, t)
       \/ Step(c)
       \/ Crash(c)

\* The server and the database keep running the statements of every call.
Spec == Init /\ [][Next]_vars /\ \A c \in Calls : WF_vars(Step(c))

----------------------------------------------------------------------------
\* Besides the types: a row is held by a call in the middle of a transaction.
TypeOK ==
  /\ session \in [revoked : BOOLEAN, expired : BOOLEAN]
  /\ tokens \in Seq([consumed : BOOLEAN, revoked : BOOLEAN])
  /\ Len(tokens) \in 1..MaxTokens
  /\ rowLock \in [Rows -> Calls \cup {None}]
  /\ call \in [Calls -> [pc : {"idle"} \cup Running \cup Ended, kind : Kinds,
                         token : 1..MaxTokens, targets : SUBSET (1..MaxTokens)]]
  /\ \A r \in Rows : rowLock[r] # None => call[rowLock[r]].pc \in Writing

\* A revoked session has no token left that refresh would accept, not even one
\* that was issued while the revocation was on its way.
RevokedFamilyIsDead ==
  session.revoked => \A t \in DOMAIN tokens : ~Live(tokens[t])

\* However many calls present the same token, rotation issues one successor:
\* no two tokens of the family are accepted at a time.
OneLiveToken ==
  \A t, u \in DOMAIN tokens : Live(tokens[t]) /\ Live(tokens[u]) => t = u

\* A committed revocation is final: from then on no read of the session grants
\* a request (access-token.guard.ts) and no rotation commits (auth.service.ts
\* refresh), whatever token it read or consumed before.  It says nothing about
\* answers: a guard that read the session earlier still lets its request in.
RevocationIsFinal ==
  [][session.revoked =>
       /\ session'.revoked
       /\ Len(tokens') = Len(tokens)
       /\ \A c \in Calls :
            call'[c].pc = "granted" => call[c].pc = "granted"]_vars

\* A refresh that found its token used ends, if its process lives, with the
\* family revoked: what SECURITY-MODEL.md says of token-family reuse.  The
\* revocation can be the victim of a deadlock with a rotation.
ReuseRevokesFamily ==
  [][\A c \in Calls :
       /\ call[c].kind = "refresh"
       /\ call[c].pc \in {"revoke_session", "lock_tokens", "revoke", "revoked"}
       /\ call'[c].pc \in Ended \ {"lost"}
       => session'.revoked]_vars

\* Rotation locks token then session, revocation session then tokens: still
\* every call is answered.
EveryCallEnds == \A c \in Calls : call[c].pc \in Running ~> call[c].pc \in Ended
=============================================================================
