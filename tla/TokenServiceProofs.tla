-------------------------- MODULE TokenServiceProofs --------------------------
(***************************************************************************)
(* The safety properties of TokenService for any users, sessions, tokens   *)
(* and calls.  The inductive invariant adds to them what each stage of a   *)
(* call knows about the rows it read and locked.                           *)
(***************************************************************************)
EXTENDS TokenService, TLAPS

Issued == {t \in Tokens : tokenStatus[t] # "ABSENT"}
Opened == {s \in Sessions : sessionStatus[s] # "ABSENT"}
Over(t) == sessionStatus[tokenSession[t]] = "REVOKED"
OwnerActive(t) == userActive[sessionUser[tokenSession[t]]]

\* Stages of a call that was given a token.
Holding == {"readSession", "checked", "rotated", "family", "revokeSession", "throwing",
            "throwExpired", "logoutToken", "logoutSession", "logoutCommit"}

\* No token row is locked by two transactions.
LocksExclusive == \A q, r \in Requests : q # r => revT[q] \cap revT[r] = {}

\* What a call has locked: rows that exist, none before its first update or
\* after its end, and the live token it is about to replace.
LocksOK(r) ==
  /\ revT[r] \subseteq Issued /\ revS[r] \subseteq Opened
  /\ pc[r] \in {"idle", "readSession", "checked", "family", "logoutToken", "allTokens"} \cup Ends
       => revT[r] = {}
  /\ pc[r] = "rotated" => revT[r] = {tok[r]} /\ Live(tok[r])
  /\ pc[r] \in Holding => tok[r] \in Issued

\* A logout locks its own token at most, then closes the session of that token.
LogoutOK(r) ==
  /\ pc[r] \in {"logoutSession", "logoutCommit"} => revT[r] \subseteq {tok[r]}
  /\ pc[r] = "logoutCommit" => tokenSession[tok[r]] \in revS[r]
  /\ pc[r] = "loggedOut" /\ ~saw[r] => tok[r] \in Issued /\ Over(tok[r])

\* Every token a logout-all selected is of its user until the sessions are
\* selected; from then on its session is selected too, or was closed by another.
LogoutAllOK(r) ==
  /\ pc[r] \in {"allSelect", "allSessions", "allCommit"} => revT[r] \subseteq rowsT[r]
  /\ pc[r] \in {"allTokens", "allSelect", "allSessions", "allCommit", "loggedOutAll"}
       => rowsT[r] \subseteq Issued
  /\ pc[r] \in {"allTokens", "allSelect"} =>
       \A t \in rowsT[r] : sessionUser[tokenSession[t]] = who[r]
  /\ pc[r] = "allSessions" => \A t \in rowsT[r] : tokenSession[t] \in rowsS[r] \/ Over(t)
  /\ pc[r] = "allCommit" => \A t \in rowsT[r] : tokenSession[t] \in revS[r] \/ Over(t)
  /\ pc[r] = "loggedOutAll" => \A t \in rowsT[r] : Over(t)

\* A refresh that began on a dead token still finds the reason at each stage.
LateOK(r) ==
  r \in late =>
    /\ pc[r] \notin {"idle", "refreshed"}
    /\ pc[r] = "readSession" => Dead(tok[r])
    /\ pc[r] = "checked" => ~Live(tok[r]) \/ tok[r] \in expired \/ ~OwnerActive(tok[r])
    /\ pc[r] = "rotated" => ~OwnerActive(tok[r])

CallOK(r) == LocksOK(r) /\ LogoutOK(r) /\ LogoutAllOK(r) /\ LateOK(r)

IInv == /\ TypeOK
        /\ LocksExclusive
        /\ \A r \in Requests : CallOK(r)
        /\ ActiveSessionHasOneLiveToken

-----------------------------------------------------------------------------
\* The identifier a new row gets was not in use.
LEMMA NewTokenFresh == NewTokens # {} => NewToken \in Tokens /\ tokenStatus[NewToken] = "ABSENT"
  BY DEF NewTokens, NewToken

LEMMA NewSessionFresh ==
  NewSessions # {} => NewSession \in Sessions /\ sessionStatus[NewSession] = "ABSENT"
  BY DEF NewSessions, NewSession

\* Committing a revocation makes no row appear or disappear.
LEMMA CommitKeepsRows ==
  ASSUME TypeOK, NEW r \in Requests, CommitRevocations(r),
         revT[r] \subseteq Issued, revS[r] \subseteq Opened
  PROVE  /\ tokenStatus' \in [Tokens -> {"ABSENT", "LIVE", "REVOKED"}]
         /\ sessionStatus' \in [Sessions -> {"ABSENT", "ACTIVE", "REVOKED"}]
         /\ \A t \in Tokens : (tokenStatus'[t] # "ABSENT") <=> (tokenStatus[t] # "ABSENT")
         /\ \A s \in Sessions : (sessionStatus'[s] # "ABSENT") <=> (sessionStatus[s] # "ABSENT")
         /\ revT' \in [Requests -> SUBSET Tokens] /\ revS' \in [Requests -> SUBSET Sessions]
  BY DEF TypeOK, CommitRevocations, Unlock, Issued, Opened

-----------------------------------------------------------------------------
\* Steps keep the types and the foreign keys.
LEMMA TypeStep ==
  ASSUME TypeOK, \A r \in Requests : LocksOK(r), [Next]_vars
  PROVE  TypeOK'
<1> USE DEF TypeOK, LocksOK, Holding, Issued, Opened, Ends, Stages, rows
<1>1. ASSUME NEW u \in Users, CreateSessionTokens(u) PROVE TypeOK'
  BY <1>1, NewTokenFresh, NewSessionFresh DEF CreateSessionTokens, calls
<1>2. ASSUME NEW r \in Requests, Begin(r) PROVE TypeOK'
  <2>1. CASE RefreshUnknown(r)
    BY <2>1 DEF RefreshUnknown, Go
  <2>2. CASE LogoutUnknown(r)
    BY <2>2 DEF LogoutUnknown, Go
  <2>3. ASSUME NEW t \in Tokens, RefreshReadToken(r, t) PROVE TypeOK'
    BY <2>3 DEF RefreshReadToken, Go, Live
  <2>4. ASSUME NEW t \in Tokens, LogoutRevoked(r, t) PROVE TypeOK'
    BY <2>4 DEF LogoutRevoked, Go
  <2>5. ASSUME NEW t \in Tokens, LogoutReadToken(r, t) PROVE TypeOK'
    BY <2>5 DEF LogoutReadToken, Go
  <2>6. ASSUME NEW u \in Users, RevokeAllSelectTokens(r, u) PROVE TypeOK'
    BY <2>6 DEF RevokeAllSelectTokens, Go, LiveTokensOf
  <2> QED
    BY <1>2, <2>1, <2>2, <2>3, <2>4, <2>5, <2>6 DEF Begin
<1>3. ASSUME NEW r \in Requests, Continue(r) PROVE TypeOK'
  <2>1. CASE RefreshReadSession(r)
    BY <2>1 DEF RefreshReadSession, Go
  <2>2. CASE RefreshSessionOver(r)
    BY <2>2 DEF RefreshSessionOver, Go, Fail, Rollback, Forget, Unlock
  <2>3. CASE RefreshReuse(r)
    BY <2>3 DEF RefreshReuse, Go, SelectFamily, Family
  <2>4. CASE RefreshExpired(r)
    BY <2>4 DEF RefreshExpired, Go, RevokeToken
  <2>5. CASE RefreshRotate(r)
    BY <2>5 DEF RefreshRotate, Go, RevokeLiveTokens
  <2>6. CASE RefreshClash(r)
    BY <2>6 DEF RefreshClash, Go, SelectFamily, Family
  <2>7. CASE RefreshRevokeFamily(r)
    BY <2>7 DEF RefreshRevokeFamily, Go, RevokeLiveTokens
  <2>8. CASE RefreshRevokeSession(r)
    BY <2>8 DEF RefreshRevokeSession, Go, RevokeSession, SessionOf
  <2>9. CASE RefreshThrowReuse(r)
    BY <2>9 DEF RefreshThrowReuse, Go, Rollback, Unlock
  <2>10. CASE RefreshThrowExpired(r)
    BY <2>10 DEF RefreshThrowExpired, Go, Fail, Rollback, Forget, Unlock
  <2>11. CASE RefreshUserInactive(r)
    BY <2>11 DEF RefreshUserInactive, Go, Fail, Rollback, Forget, Unlock
  <2>12. CASE RefreshCommit(r)
    BY <2>12, NewTokenFresh DEF RefreshCommit, Go, Forget, Unlock, SessionOf
  <2>13. CASE LogoutRevokeToken(r)
    BY <2>13 DEF LogoutRevokeToken, Go, RevokeLiveTokens
  <2>14. CASE LogoutRevokeSession(r)
    BY <2>14 DEF LogoutRevokeSession, Go, RevokeSession, SessionOf
  <2>15. CASE LogoutCommit(r)
    BY <2>15, CommitKeepsRows DEF LogoutCommit, Go, CommitRevocations, Unlock
  <2>16. CASE RevokeAllTokens(r)
    BY <2>16 DEF RevokeAllTokens, Go, RevokeLiveTokens
  <2>17. CASE RevokeAllSelectSessions(r)
    BY <2>17 DEF RevokeAllSelectSessions, Go, ActiveSessionsOf
  <2>18. CASE RevokeAllSessions(r)
    BY <2>18 DEF RevokeAllSessions, Go, RevokeActiveSessions
  <2>19. CASE RevokeAllCommit(r)
    BY <2>19, CommitKeepsRows DEF RevokeAllCommit, Go, CommitRevocations, Unlock
  <2> QED
    BY <1>3, <2>1, <2>2, <2>3, <2>4, <2>5, <2>6, <2>7, <2>8, <2>9, <2>10, <2>11, <2>12, <2>13, <2>14, <2>15, <2>16, <2>17, <2>18, <2>19 DEF Continue
<1>4. ASSUME NEW r \in Requests, Abort(r) PROVE TypeOK'
  BY <1>4 DEF Abort, Fail, Rollback, Forget, Unlock
<1>5. ASSUME NEW t \in Tokens, Expire(t) PROVE TypeOK'
  BY <1>5 DEF Expire, calls
<1>6. ASSUME NEW u \in Users, Deactivate(u) PROVE TypeOK'
  BY <1>6 DEF Deactivate, calls
<1>7. CASE UNCHANGED vars
  BY <1>7 DEF vars
<1> QED
  BY <1>1, <1>2, <1>3, <1>4, <1>5, <1>6, <1>7 DEF Next

-----------------------------------------------------------------------------
\* Rows are never deleted, a token keeps its session and a session its user,
\* and revocation, closing, expiry and deactivation are never undone.
Grows ==
  /\ \A t \in Issued : /\ t \in Issued'
                       /\ tokenSession'[t] = tokenSession[t]
                       /\ Live(t)' => Live(t)
  /\ \A s \in Opened : /\ s \in Opened'
                       /\ sessionUser'[s] = sessionUser[s]
                       /\ sessionStatus[s] = "REVOKED" => sessionStatus'[s] = "REVOKED"
  /\ \A t \in expired : t \in expired'
  /\ \A u \in Users : userActive'[u] => userActive[u]

LEMMA RowsGrow ==
  ASSUME TypeOK, \A r \in Requests : LocksOK(r), [Next]_vars
  PROVE  Grows
<1> USE DEF TypeOK, LocksOK, Holding, Issued, Opened, Grows, Live, Active, Ends, Stages, rows
<1>1. ASSUME NEW u \in Users, CreateSessionTokens(u) PROVE Grows
  BY <1>1, NewTokenFresh, NewSessionFresh DEF CreateSessionTokens, calls
<1>2. ASSUME NEW r \in Requests, Begin(r) PROVE Grows
  <2>1. CASE RefreshUnknown(r)
    BY <2>1 DEF RefreshUnknown, Go
  <2>2. CASE LogoutUnknown(r)
    BY <2>2 DEF LogoutUnknown, Go
  <2>3. ASSUME NEW t \in Tokens, RefreshReadToken(r, t) PROVE Grows
    BY <2>3 DEF RefreshReadToken, Go, Live
  <2>4. ASSUME NEW t \in Tokens, LogoutRevoked(r, t) PROVE Grows
    BY <2>4 DEF LogoutRevoked, Go
  <2>5. ASSUME NEW t \in Tokens, LogoutReadToken(r, t) PROVE Grows
    BY <2>5 DEF LogoutReadToken, Go
  <2>6. ASSUME NEW u \in Users, RevokeAllSelectTokens(r, u) PROVE Grows
    BY <2>6 DEF RevokeAllSelectTokens, Go, LiveTokensOf
  <2> QED
    BY <1>2, <2>1, <2>2, <2>3, <2>4, <2>5, <2>6 DEF Begin
<1>3. ASSUME NEW r \in Requests, Continue(r) PROVE Grows
  <2>1. CASE RefreshReadSession(r)
    BY <2>1 DEF RefreshReadSession, Go
  <2>2. CASE RefreshSessionOver(r)
    BY <2>2 DEF RefreshSessionOver, Go, Fail, Rollback, Forget, Unlock
  <2>3. CASE RefreshReuse(r)
    BY <2>3 DEF RefreshReuse, Go, SelectFamily, Family
  <2>4. CASE RefreshExpired(r)
    BY <2>4 DEF RefreshExpired, Go, RevokeToken
  <2>5. CASE RefreshRotate(r)
    BY <2>5 DEF RefreshRotate, Go, RevokeLiveTokens
  <2>6. CASE RefreshClash(r)
    BY <2>6 DEF RefreshClash, Go, SelectFamily, Family
  <2>7. CASE RefreshRevokeFamily(r)
    BY <2>7 DEF RefreshRevokeFamily, Go, RevokeLiveTokens
  <2>8. CASE RefreshRevokeSession(r)
    BY <2>8 DEF RefreshRevokeSession, Go, RevokeSession, SessionOf
  <2>9. CASE RefreshThrowReuse(r)
    BY <2>9 DEF RefreshThrowReuse, Go, Rollback, Unlock
  <2>10. CASE RefreshThrowExpired(r)
    BY <2>10 DEF RefreshThrowExpired, Go, Fail, Rollback, Forget, Unlock
  <2>11. CASE RefreshUserInactive(r)
    BY <2>11 DEF RefreshUserInactive, Go, Fail, Rollback, Forget, Unlock
  <2>12. CASE RefreshCommit(r)
    BY <2>12, NewTokenFresh DEF RefreshCommit, Go, Forget, Unlock, SessionOf
  <2>13. CASE LogoutRevokeToken(r)
    BY <2>13 DEF LogoutRevokeToken, Go, RevokeLiveTokens
  <2>14. CASE LogoutRevokeSession(r)
    BY <2>14 DEF LogoutRevokeSession, Go, RevokeSession, SessionOf
  <2>15. CASE LogoutCommit(r)
    BY <2>15, CommitKeepsRows DEF LogoutCommit, Go, CommitRevocations, Unlock
  <2>16. CASE RevokeAllTokens(r)
    BY <2>16 DEF RevokeAllTokens, Go, RevokeLiveTokens
  <2>17. CASE RevokeAllSelectSessions(r)
    BY <2>17 DEF RevokeAllSelectSessions, Go, ActiveSessionsOf
  <2>18. CASE RevokeAllSessions(r)
    BY <2>18 DEF RevokeAllSessions, Go, RevokeActiveSessions
  <2>19. CASE RevokeAllCommit(r)
    BY <2>19, CommitKeepsRows DEF RevokeAllCommit, Go, CommitRevocations, Unlock
  <2> QED
    BY <1>3, <2>1, <2>2, <2>3, <2>4, <2>5, <2>6, <2>7, <2>8, <2>9, <2>10, <2>11, <2>12, <2>13, <2>14, <2>15, <2>16, <2>17, <2>18, <2>19 DEF Continue
<1>4. ASSUME NEW r \in Requests, Abort(r) PROVE Grows
  BY <1>4 DEF Abort, Fail, Rollback, Forget, Unlock
<1>5. ASSUME NEW t \in Tokens, Expire(t) PROVE Grows
  BY <1>5 DEF Expire, calls
<1>6. ASSUME NEW u \in Users, Deactivate(u) PROVE Grows
  BY <1>6 DEF Deactivate, calls
<1>7. CASE UNCHANGED vars
  BY <1>7 DEF vars
<1> QED
  BY <1>1, <1>2, <1>3, <1>4, <1>5, <1>6, <1>7 DEF Next

\* A call does not touch what another call remembers.
SameCall(q) ==
  /\ pc'[q] = pc[q] /\ who'[q] = who[q] /\ tok'[q] = tok[q] /\ saw'[q] = saw[q]
  /\ rowsT'[q] = rowsT[q] /\ rowsS'[q] = rowsS[q]
  /\ revT'[q] = revT[q] /\ revS'[q] = revS[q]
  /\ (q \in late') <=> (q \in late)

\* A token another call has locked stays live.
Undisturbed(q) == SameCall(q) /\ \A t \in revT[q] : Live(t) => Live(t)'

LEMMA OthersUndisturbed ==
  ASSUME TypeOK, LocksExclusive, \A r \in Requests : LocksOK(r),
         NEW a \in Requests, Begin(a) \/ Continue(a) \/ Abort(a),
         NEW q \in Requests, q # a
  PROVE  Undisturbed(q)
<1> USE DEF TypeOK, LocksOK, LocksExclusive, Holding, Issued, Opened, Ends, Stages, rows,
            Undisturbed, SameCall, Live
<1>1. CASE Begin(a)
  <2>1. CASE RefreshUnknown(a)
    BY <2>1 DEF RefreshUnknown, Go
  <2>2. CASE LogoutUnknown(a)
    BY <2>2 DEF LogoutUnknown, Go
  <2>3. ASSUME NEW t \in Tokens, RefreshReadToken(a, t) PROVE Undisturbed(q)
    BY <2>3 DEF RefreshReadToken, Go, Live
  <2>4. ASSUME NEW t \in Tokens, LogoutRevoked(a, t) PROVE Undisturbed(q)
    BY <2>4 DEF LogoutRevoked, Go
  <2>5. ASSUME NEW t \in Tokens, LogoutReadToken(a, t) PROVE Undisturbed(q)
    BY <2>5 DEF LogoutReadToken, Go
  <2>6. ASSUME NEW u \in Users, RevokeAllSelectTokens(a, u) PROVE Undisturbed(q)
    BY <2>6 DEF RevokeAllSelectTokens, Go, LiveTokensOf
  <2> QED
    BY <1>1, <2>1, <2>2, <2>3, <2>4, <2>5, <2>6 DEF Begin
<1>2. CASE Continue(a)
  <2>1. CASE RefreshReadSession(a)
    BY <2>1 DEF RefreshReadSession, Go
  <2>2. CASE RefreshSessionOver(a)
    BY <2>2 DEF RefreshSessionOver, Go, Fail, Rollback, Forget, Unlock
  <2>3. CASE RefreshReuse(a)
    BY <2>3 DEF RefreshReuse, Go, SelectFamily, Family
  <2>4. CASE RefreshExpired(a)
    BY <2>4 DEF RefreshExpired, Go, RevokeToken
  <2>5. CASE RefreshRotate(a)
    BY <2>5 DEF RefreshRotate, Go, RevokeLiveTokens
  <2>6. CASE RefreshClash(a)
    BY <2>6 DEF RefreshClash, Go, SelectFamily, Family
  <2>7. CASE RefreshRevokeFamily(a)
    BY <2>7 DEF RefreshRevokeFamily, Go, RevokeLiveTokens
  <2>8. CASE RefreshRevokeSession(a)
    BY <2>8 DEF RefreshRevokeSession, Go, RevokeSession, SessionOf
  <2>9. CASE RefreshThrowReuse(a)
    BY <2>9 DEF RefreshThrowReuse, Go, Rollback, Unlock
  <2>10. CASE RefreshThrowExpired(a)
    BY <2>10 DEF RefreshThrowExpired, Go, Fail, Rollback, Forget, Unlock
  <2>11. CASE RefreshUserInactive(a)
    BY <2>11 DEF RefreshUserInactive, Go, Fail, Rollback, Forget, Unlock
  <2>12. CASE RefreshCommit(a)
    BY <2>12, NewTokenFresh DEF RefreshCommit, Go, Forget, Unlock, SessionOf
  <2>13. CASE LogoutRevokeToken(a)
    BY <2>13 DEF LogoutRevokeToken, Go, RevokeLiveTokens
  <2>14. CASE LogoutRevokeSession(a)
    BY <2>14 DEF LogoutRevokeSession, Go, RevokeSession, SessionOf
  <2>15. CASE LogoutCommit(a)
    BY <2>15, CommitKeepsRows DEF LogoutCommit, Go, CommitRevocations, Unlock
  <2>16. CASE RevokeAllTokens(a)
    BY <2>16 DEF RevokeAllTokens, Go, RevokeLiveTokens
  <2>17. CASE RevokeAllSelectSessions(a)
    BY <2>17 DEF RevokeAllSelectSessions, Go, ActiveSessionsOf
  <2>18. CASE RevokeAllSessions(a)
    BY <2>18 DEF RevokeAllSessions, Go, RevokeActiveSessions
  <2>19. CASE RevokeAllCommit(a)
    BY <2>19, CommitKeepsRows DEF RevokeAllCommit, Go, CommitRevocations, Unlock
  <2> QED
    BY <1>2, <2>1, <2>2, <2>3, <2>4, <2>5, <2>6, <2>7, <2>8, <2>9, <2>10, <2>11, <2>12, <2>13, <2>14, <2>15, <2>16, <2>17, <2>18, <2>19 DEF Continue
<1>3. CASE Abort(a)
  BY <1>3 DEF Abort, Fail, Rollback, Forget, Unlock
<1> QED
  BY <1>1, <1>2, <1>3

LEMMA CallsUndisturbedByWorld ==
  ASSUME TypeOK, \A r \in Requests : LocksOK(r), NEW q \in Requests,
         \/ \E u \in Users : CreateSessionTokens(u) \/ Deactivate(u)
         \/ \E t \in Tokens : Expire(t)
         \/ UNCHANGED vars
  PROVE  Undisturbed(q)
<1> USE DEF TypeOK, LocksOK, Issued, Undisturbed, SameCall, Live, calls
<1>1. ASSUME NEW u \in Users, CreateSessionTokens(u) PROVE Undisturbed(q)
  BY <1>1, NewTokenFresh DEF CreateSessionTokens
<1>2. ASSUME NEW u \in Users, Deactivate(u) PROVE Undisturbed(q)
  BY <1>2 DEF Deactivate
<1>3. ASSUME NEW t \in Tokens, Expire(t) PROVE Undisturbed(q)
  BY <1>3 DEF Expire
<1>4. CASE UNCHANGED vars
  BY <1>4 DEF vars
<1> QED
  BY <1>1, <1>2, <1>3, <1>4

\* What a call knows about its rows survives the steps of the others.
LEMMA CallKept ==
  ASSUME TypeOK, Grows, NEW q \in Requests, CallOK(q), Undisturbed(q)
  PROVE  CallOK(q)'
<1> USE DEF TypeOK, Grows, Undisturbed, SameCall, Issued, Opened, Live, Active, Over, OwnerActive,
            Ends, Stages, Holding, CallOK, LocksOK
<1>1. LocksOK(q)'
  OBVIOUS
<1>2. LogoutOK(q)'
  BY DEF LogoutOK
<1>3. LogoutAllOK(q)'
  <2>1. \A t \in Issued : /\ Over(t) => Over(t)'
                         /\ sessionUser'[tokenSession'[t]] = sessionUser[tokenSession[t]]
    OBVIOUS
  <2> QED
    BY <2>1 DEF LogoutAllOK
<1>4. LateOK(q)'
  <2>1. \A t \in Issued : /\ Dead(t) => Dead(t)'
                         /\ ~OwnerActive(t) => ~OwnerActive(t)'
    BY DEF Dead
  <2> QED
    BY <2>1 DEF LateOK, Dead
<1> QED
  BY <1>1, <1>2, <1>3, <1>4

\* A step of a call establishes what its next stage knows.
LEMMA OwnCall ==
  ASSUME TypeOK, Grows, NEW a \in Requests, CallOK(a), Begin(a) \/ Continue(a) \/ Abort(a)
  PROVE  CallOK(a)'
<1> USE DEF TypeOK, Grows, Issued, Opened, Live, Active, Over, OwnerActive, SessionOf, Dead,
            Ends, Stages, Holding, CallOK, LocksOK, LogoutOK, LogoutAllOK, LateOK, rows
<1>1. CASE Begin(a)
  <2>1. CASE RefreshUnknown(a)
    BY <2>1 DEF RefreshUnknown, Go
  <2>2. CASE LogoutUnknown(a)
    BY <2>2 DEF LogoutUnknown, Go
  <2>3. ASSUME NEW t \in Tokens, RefreshReadToken(a, t) PROVE CallOK(a)'
    BY <2>3 DEF RefreshReadToken, Go, Live
  <2>4. ASSUME NEW t \in Tokens, LogoutRevoked(a, t) PROVE CallOK(a)'
    BY <2>4 DEF LogoutRevoked, Go
  <2>5. ASSUME NEW t \in Tokens, LogoutReadToken(a, t) PROVE CallOK(a)'
    BY <2>5 DEF LogoutReadToken, Go
  <2>6. ASSUME NEW u \in Users, RevokeAllSelectTokens(a, u) PROVE CallOK(a)'
    BY <2>6 DEF RevokeAllSelectTokens, Go, LiveTokensOf
  <2> QED
    BY <1>1, <2>1, <2>2, <2>3, <2>4, <2>5, <2>6 DEF Begin
<1>2. CASE Continue(a)
  <2>1. CASE RefreshReadSession(a)
    BY <2>1 DEF RefreshReadSession, Go
  <2>2. CASE RefreshSessionOver(a)
    BY <2>2 DEF RefreshSessionOver, Go, Fail, Rollback, Forget, Unlock
  <2>3. CASE RefreshReuse(a)
    BY <2>3 DEF RefreshReuse, Go, SelectFamily, Family
  <2>4. CASE RefreshExpired(a)
    BY <2>4 DEF RefreshExpired, Go, RevokeToken
  <2>5. CASE RefreshRotate(a)
    BY <2>5 DEF RefreshRotate, Go, RevokeLiveTokens
  <2>6. CASE RefreshClash(a)
    BY <2>6 DEF RefreshClash, Go, SelectFamily, Family
  <2>7. CASE RefreshRevokeFamily(a)
    BY <2>7 DEF RefreshRevokeFamily, Go, RevokeLiveTokens
  <2>8. CASE RefreshRevokeSession(a)
    BY <2>8 DEF RefreshRevokeSession, Go, RevokeSession, SessionOf
  <2>9. CASE RefreshThrowReuse(a)
    BY <2>9 DEF RefreshThrowReuse, Go, Rollback, Unlock
  <2>10. CASE RefreshThrowExpired(a)
    BY <2>10 DEF RefreshThrowExpired, Go, Fail, Rollback, Forget, Unlock
  <2>11. CASE RefreshUserInactive(a)
    BY <2>11 DEF RefreshUserInactive, Go, Fail, Rollback, Forget, Unlock
  <2>12. CASE RefreshCommit(a)
    BY <2>12, NewTokenFresh DEF RefreshCommit, Go, Forget, Unlock, SessionOf
  <2>13. CASE LogoutRevokeToken(a)
    BY <2>13 DEF LogoutRevokeToken, Go, RevokeLiveTokens
  <2>14. CASE LogoutRevokeSession(a)
    BY <2>14 DEF LogoutRevokeSession, Go, RevokeSession, SessionOf
  <2>15. CASE LogoutCommit(a)
    BY <2>15, CommitKeepsRows DEF LogoutCommit, Go, CommitRevocations, Unlock
  <2>16. CASE RevokeAllTokens(a)
    BY <2>16 DEF RevokeAllTokens, Go, RevokeLiveTokens
  <2>17. CASE RevokeAllSelectSessions(a)
    BY <2>17 DEF RevokeAllSelectSessions, Go, ActiveSessionsOf
  <2>18. CASE RevokeAllSessions(a)
    BY <2>18 DEF RevokeAllSessions, Go, RevokeActiveSessions
  <2>19. CASE RevokeAllCommit(a)
    BY <2>19, CommitKeepsRows DEF RevokeAllCommit, Go, CommitRevocations, Unlock
  <2> QED
    BY <1>2, <2>1, <2>2, <2>3, <2>4, <2>5, <2>6, <2>7, <2>8, <2>9, <2>10, <2>11, <2>12, <2>13, <2>14, <2>15, <2>16, <2>17, <2>18, <2>19 DEF Continue
<1>3. CASE Abort(a)
  BY <1>3 DEF Abort, Fail, Rollback, Forget, Unlock
<1> QED
  BY <1>1, <1>2, <1>3

\* An update only takes rows that no other transaction holds.
LEMMA LocksStep ==
  ASSUME TypeOK, LocksExclusive, \A r \in Requests : LocksOK(r), [Next]_vars
  PROVE  LocksExclusive'
<1> USE DEF TypeOK, LocksExclusive, LocksOK, TokensLockedFor, Ends, Stages, Holding, rows
<1>1. ASSUME NEW u \in Users, CreateSessionTokens(u) PROVE LocksExclusive'
  BY <1>1, NewTokenFresh, NewSessionFresh DEF CreateSessionTokens, calls
<1>2. ASSUME NEW r \in Requests, Begin(r) PROVE LocksExclusive'
  <2>1. CASE RefreshUnknown(r)
    BY <2>1 DEF RefreshUnknown, Go
  <2>2. CASE LogoutUnknown(r)
    BY <2>2 DEF LogoutUnknown, Go
  <2>3. ASSUME NEW t \in Tokens, RefreshReadToken(r, t) PROVE LocksExclusive'
    BY <2>3 DEF RefreshReadToken, Go, Live
  <2>4. ASSUME NEW t \in Tokens, LogoutRevoked(r, t) PROVE LocksExclusive'
    BY <2>4 DEF LogoutRevoked, Go
  <2>5. ASSUME NEW t \in Tokens, LogoutReadToken(r, t) PROVE LocksExclusive'
    BY <2>5 DEF LogoutReadToken, Go
  <2>6. ASSUME NEW u \in Users, RevokeAllSelectTokens(r, u) PROVE LocksExclusive'
    BY <2>6 DEF RevokeAllSelectTokens, Go, LiveTokensOf
  <2> QED
    BY <1>2, <2>1, <2>2, <2>3, <2>4, <2>5, <2>6 DEF Begin
<1>3. ASSUME NEW r \in Requests, Continue(r) PROVE LocksExclusive'
  <2>1. CASE RefreshReadSession(r)
    BY <2>1 DEF RefreshReadSession, Go
  <2>2. CASE RefreshSessionOver(r)
    BY <2>2 DEF RefreshSessionOver, Go, Fail, Rollback, Forget, Unlock
  <2>3. CASE RefreshReuse(r)
    BY <2>3 DEF RefreshReuse, Go, SelectFamily, Family
  <2>4. CASE RefreshExpired(r)
    BY <2>4 DEF RefreshExpired, Go, RevokeToken
  <2>5. CASE RefreshRotate(r)
    BY <2>5 DEF RefreshRotate, Go, RevokeLiveTokens
  <2>6. CASE RefreshClash(r)
    BY <2>6 DEF RefreshClash, Go, SelectFamily, Family
  <2>7. CASE RefreshRevokeFamily(r)
    BY <2>7 DEF RefreshRevokeFamily, Go, RevokeLiveTokens
  <2>8. CASE RefreshRevokeSession(r)
    BY <2>8 DEF RefreshRevokeSession, Go, RevokeSession, SessionOf
  <2>9. CASE RefreshThrowReuse(r)
    BY <2>9 DEF RefreshThrowReuse, Go, Rollback, Unlock
  <2>10. CASE RefreshThrowExpired(r)
    BY <2>10 DEF RefreshThrowExpired, Go, Fail, Rollback, Forget, Unlock
  <2>11. CASE RefreshUserInactive(r)
    BY <2>11 DEF RefreshUserInactive, Go, Fail, Rollback, Forget, Unlock
  <2>12. CASE RefreshCommit(r)
    BY <2>12, NewTokenFresh DEF RefreshCommit, Go, Forget, Unlock, SessionOf
  <2>13. CASE LogoutRevokeToken(r)
    BY <2>13 DEF LogoutRevokeToken, Go, RevokeLiveTokens
  <2>14. CASE LogoutRevokeSession(r)
    BY <2>14 DEF LogoutRevokeSession, Go, RevokeSession, SessionOf
  <2>15. CASE LogoutCommit(r)
    BY <2>15, CommitKeepsRows DEF LogoutCommit, Go, CommitRevocations, Unlock
  <2>16. CASE RevokeAllTokens(r)
    BY <2>16 DEF RevokeAllTokens, Go, RevokeLiveTokens
  <2>17. CASE RevokeAllSelectSessions(r)
    BY <2>17 DEF RevokeAllSelectSessions, Go, ActiveSessionsOf
  <2>18. CASE RevokeAllSessions(r)
    BY <2>18 DEF RevokeAllSessions, Go, RevokeActiveSessions
  <2>19. CASE RevokeAllCommit(r)
    BY <2>19, CommitKeepsRows DEF RevokeAllCommit, Go, CommitRevocations, Unlock
  <2> QED
    BY <1>3, <2>1, <2>2, <2>3, <2>4, <2>5, <2>6, <2>7, <2>8, <2>9, <2>10, <2>11, <2>12, <2>13, <2>14, <2>15, <2>16, <2>17, <2>18, <2>19 DEF Continue
<1>4. ASSUME NEW r \in Requests, Abort(r) PROVE LocksExclusive'
  BY <1>4 DEF Abort, Fail, Rollback, Forget, Unlock
<1>5. ASSUME NEW t \in Tokens, Expire(t) PROVE LocksExclusive'
  BY <1>5 DEF Expire, calls
<1>6. ASSUME NEW u \in Users, Deactivate(u) PROVE LocksExclusive'
  BY <1>6 DEF Deactivate, calls
<1>7. CASE UNCHANGED vars
  BY <1>7 DEF vars
<1> QED
  BY <1>1, <1>2, <1>3, <1>4, <1>5, <1>6, <1>7 DEF Next

\* A commit of revocations takes the live token of no session it leaves open.
CommitReady(r) == \A t \in revT[r] : tokenSession[t] \in revS[r] \/ Over(t)

LEMMA CommitKeepsOneLive ==
  ASSUME TypeOK, NEW r \in Requests, CommitReady(r), CommitRevocations(r),
         ActiveSessionHasOneLiveToken
  PROVE  ActiveSessionHasOneLiveToken'
<1> SUFFICES ASSUME NEW s \in Sessions, Active(s)' PROVE \E t \in Tokens : (Family(s) = {t})'
  BY DEF ActiveSessionHasOneLiveToken
<1>1. Active(s) /\ s \notin revS[r]
  BY DEF Active, CommitRevocations, TypeOK
<1>2. PICK t \in Tokens : Family(s) = {t}
  BY <1>1 DEF ActiveSessionHasOneLiveToken
<1>3. \A u \in revT[r] : tokenSession[u] # s
  BY <1>1 DEF CommitReady, Over, Active
<1>4. Family(s)' = Family(s)
  BY <1>3 DEF Family, Live, CommitRevocations, TypeOK
<1> QED
  BY <1>2, <1>4

\* Only a login, a refresh that ends well and a logout change these rows.
LEMMA OtherStepsKeepTokens ==
  ASSUME [Next]_vars,
         ~\E u \in Users : CreateSessionTokens(u),
         ~\E r \in Requests : RefreshCommit(r) \/ LogoutCommit(r) \/ RevokeAllCommit(r)
  PROVE  UNCHANGED <<sessionStatus, tokenStatus, tokenSession>>
<1>1. ASSUME NEW r \in Requests, Begin(r)
      PROVE  UNCHANGED <<sessionStatus, tokenStatus, tokenSession>>
  BY <1>1 DEF Begin, RefreshUnknown, LogoutUnknown, RefreshReadToken, LogoutRevoked,
                LogoutReadToken, RevokeAllSelectTokens, rows
<1>2. ASSUME NEW r \in Requests, Continue(r)
      PROVE  UNCHANGED <<sessionStatus, tokenStatus, tokenSession>>
  BY <1>2 DEF Continue, RefreshReadSession, RefreshSessionOver, RefreshReuse, RefreshExpired,
       RefreshRotate, RefreshClash, RefreshRevokeFamily, RefreshRevokeSession, RefreshThrowReuse,
       RefreshThrowExpired, RefreshUserInactive, LogoutRevokeToken, LogoutRevokeSession,
       RevokeAllTokens, RevokeAllSelectSessions, RevokeAllSessions, Fail, Rollback, rows
<1>3. ASSUME NEW r \in Requests, Abort(r)
      PROVE  UNCHANGED <<sessionStatus, tokenStatus, tokenSession>>
  BY <1>3 DEF Abort, Fail, Rollback, rows
<1> QED
  BY <1>1, <1>2, <1>3 DEF Next, Expire, Deactivate, vars

\* No step loses the live token of an open session or gives it a second one.
LEMMA OneLiveStep ==
  ASSUME TypeOK, \A r \in Requests : CallOK(r), ActiveSessionHasOneLiveToken, [Next]_vars
  PROVE  ActiveSessionHasOneLiveToken'
<1>1. ASSUME NEW u \in Users, CreateSessionTokens(u) PROVE ActiveSessionHasOneLiveToken'
  <2> SUFFICES ASSUME NEW s \in Sessions, Active(s)'
               PROVE  \E t \in Tokens : (Family(s) = {t})'
    BY DEF ActiveSessionHasOneLiveToken
  <2> USE <1>1, NewTokenFresh, NewSessionFresh
          DEF CreateSessionTokens, TypeOK, Family, Live, Active
  <2>1. CASE s = NewSession
    <3>1. Family(s)' = {NewToken}
      BY <2>1
    <3> QED
      BY <3>1
  <2>2. CASE s # NewSession
    <3>1. PICK t \in Tokens : Family(s) = {t}
      BY <2>2 DEF ActiveSessionHasOneLiveToken
    <3>2. Family(s)' = Family(s)
      BY <2>2
    <3> QED
      BY <3>1, <3>2
  <2> QED
    BY <2>1, <2>2
<1>2. ASSUME NEW r \in Requests, RefreshCommit(r) PROVE ActiveSessionHasOneLiveToken'
  <2> SUFFICES ASSUME NEW s \in Sessions, Active(s)'
               PROVE  \E t \in Tokens : (Family(s) = {t})'
    BY DEF ActiveSessionHasOneLiveToken
  <2>1. revT[r] = {tok[r]} /\ Live(tok[r]) /\ tok[r] \in Tokens
    BY <1>2 DEF CallOK, LocksOK, RefreshCommit, Go, Holding, Issued
  <2> USE <1>2, NewTokenFresh DEF RefreshCommit, SessionOf, TypeOK, Family, Live, Active
  <2>2. PICK t \in Tokens : Family(s) = {t}
    BY DEF ActiveSessionHasOneLiveToken
  <2>3. CASE s = SessionOf(r)
    <3>1. tok[r] = t
      BY <2>1, <2>2, <2>3
    <3>2. Family(s)' = {NewToken}
      BY <2>1, <2>2, <2>3, <3>1
    <3> QED
      BY <3>2
  <2>4. CASE s # SessionOf(r)
    <3>1. Family(s)' = Family(s)
      BY <2>1, <2>4
    <3> QED
      BY <2>2, <3>1
  <2> QED
    BY <2>3, <2>4
<1>3. ASSUME NEW r \in Requests, LogoutCommit(r) PROVE ActiveSessionHasOneLiveToken'
  <2>1. CommitReady(r)
    BY <1>3 DEF CommitReady, CallOK, LogoutOK, LogoutCommit, Go
  <2> QED
    BY <1>3, <2>1, CommitKeepsOneLive DEF LogoutCommit
<1>4. ASSUME NEW r \in Requests, RevokeAllCommit(r) PROVE ActiveSessionHasOneLiveToken'
  <2>1. CommitReady(r)
    BY <1>4 DEF CommitReady, CallOK, LogoutAllOK, RevokeAllCommit, Go
  <2> QED
    BY <1>4, <2>1, CommitKeepsOneLive DEF RevokeAllCommit
<1>5. CASE UNCHANGED <<sessionStatus, tokenStatus, tokenSession>>
  BY <1>5 DEF ActiveSessionHasOneLiveToken, Family, Live, Active
<1> QED
  BY <1>1, <1>2, <1>3, <1>4, <1>5, OtherStepsKeepTokens

-----------------------------------------------------------------------------
LEMMA InitInductive == Init => IInv
<1> SUFFICES ASSUME Init PROVE IInv
  OBVIOUS
<1> USE DEF Init, CallsInit
<1>1. TypeOK
  BY DEF TypeOK
<1>2. LocksExclusive
  BY DEF LocksExclusive
<1>3. \A r \in Requests : CallOK(r)
  BY DEF CallOK, LocksOK, LogoutOK, LogoutAllOK, LateOK, Holding
<1>4. ActiveSessionHasOneLiveToken
  BY DEF ActiveSessionHasOneLiveToken, Active
<1> QED
  BY <1>1, <1>2, <1>3, <1>4 DEF IInv

LEMMA NextInductive == IInv /\ [Next]_vars => IInv'
<1> SUFFICES ASSUME IInv, [Next]_vars PROVE IInv'
  OBVIOUS
<1>1. TypeOK /\ LocksExclusive /\ \A r \in Requests : CallOK(r) /\ LocksOK(r)
  BY DEF IInv, CallOK
<1>2. TypeOK' /\ LocksExclusive' /\ Grows
  BY <1>1, TypeStep, LocksStep, RowsGrow
<1>3. ASSUME NEW q \in Requests PROVE CallOK(q)'
  <2>1. ASSUME NEW a \in Requests, Begin(a) \/ Continue(a) \/ Abort(a) PROVE CallOK(q)'
    <3>1. CASE q = a
      BY <1>1, <1>2, <2>1, <3>1, OwnCall
    <3>2. CASE q # a
      BY <1>1, <1>2, <2>1, <3>2, OthersUndisturbed, CallKept
    <3> QED
      BY <3>1, <3>2
  <2>2. ASSUME \/ \E u \in Users : CreateSessionTokens(u) \/ Deactivate(u)
               \/ \E t \in Tokens : Expire(t)
               \/ UNCHANGED vars
        PROVE  CallOK(q)'
    BY <1>1, <1>2, <2>2, CallsUndisturbedByWorld, CallKept
  <2> QED
    BY <2>1, <2>2 DEF Next
<1>4. ActiveSessionHasOneLiveToken'
  BY <1>1, OneLiveStep DEF IInv
<1> QED
  BY <1>2, <1>3, <1>4 DEF IInv

LEMMA Inductive == Spec => []IInv
  BY InitInductive, NextInductive, PTL DEF Spec

\* Types and foreign keys hold in every state, whatever the number of users,
\* sessions, tokens and calls.
THEOREM TypeCorrect == Spec => []TypeOK
<1>1. IInv => TypeOK
  BY DEF IInv
<1> QED
  BY <1>1, Inductive, PTL

\* Rotation neither loses nor forks a session: the rows an update finds are
\* tested again under their lock, and what a failed call revoked is rolled back.
THEOREM RotationKeepsOneLiveToken == Spec => []ActiveSessionHasOneLiveToken
<1>1. IInv => ActiveSessionHasOneLiveToken
  BY DEF IInv
<1> QED
  BY <1>1, Inductive, PTL

\* A refresh that began on a dead token is never granted.
THEOREM DeadTokensAreRefused == Spec => []DeadTokenNeverRefreshes
<1>1. IInv => DeadTokenNeverRefreshes
  BY DEF IInv, TypeOK, CallOK, LateOK, DeadTokenNeverRefreshes
<1> QED
  BY <1>1, Inductive, PTL

\* A logout that found a live token closed its session.
THEOREM LogoutCloses == Spec => []LogoutEndsSession
<1>1. IInv => LogoutEndsSession
  BY DEF IInv, CallOK, LogoutOK, Over, Active, SessionOf, LogoutEndsSession
<1> QED
  BY <1>1, Inductive, PTL

\* A logout-all closed every session that had a live token when it began.
THEOREM LogoutAllCloses == Spec => []LogoutAllEndsSessions
<1>1. IInv => LogoutAllEndsSessions
  BY DEF IInv, CallOK, LogoutAllOK, Over, Active, LogoutAllEndsSessions
<1> QED
  BY <1>1, Inductive, PTL

-----------------------------------------------------------------------------
\* Waits for locks

\* The rows of the next UPDATE of a call.
TokensWanted(r) == IF pc[r] \in {"family", "allTokens"} THEN rowsT[r]
                   ELSE IF pc[r] \in {"checked", "logoutToken"} THEN {tok[r]}
                   ELSE {}
SessionsWanted(r) == IF pc[r] = "allSessions" THEN rowsS[r]
                     ELSE IF pc[r] \in {"revokeSession", "logoutSession"} THEN {SessionOf(r)}
                     ELSE {}

WaitsFor(r, q) == /\ q # r
                  /\ \/ TokensWanted(r) \cap revT[q] # {}
                     \/ SessionsWanted(r) \cap revS[q] # {}

NoCircleOfWaits == \A S \in SUBSET Requests : S # {} => \E r \in S : \A q \in S : ~WaitsFor(r, q)

\* A call at an UPDATE waits exactly while another holds one of its rows.
LEMMA WaitsAreTheLocks ==
  ASSUME TypeOK, NEW r \in Requests
  PROVE  /\ pc[r] \in {"family", "allTokens"} =>
              (rowsT[r] \cap TokensLockedFor(r) = {} <=> \A q \in Requests : ~WaitsFor(r, q))
         /\ pc[r] \in {"checked", "logoutToken"} =>
              (tok[r] \notin TokensLockedFor(r) <=> \A q \in Requests : ~WaitsFor(r, q))
         /\ pc[r] = "allSessions" =>
              (rowsS[r] \cap SessionsLockedFor(r) = {} <=> \A q \in Requests : ~WaitsFor(r, q))
         /\ pc[r] \in {"revokeSession", "logoutSession"} =>
              (SessionOf(r) \notin SessionsLockedFor(r) <=> \A q \in Requests : ~WaitsFor(r, q))
BY DEF WaitsFor, TokensWanted, SessionsWanted, TokensLockedFor, SessionsLockedFor

\* The update of the sessions is the last of every transaction that has one.
SessionsLast ==
  \A r \in Requests : pc[r] \notin {"throwing", "logoutCommit", "allCommit"} => revS[r] = {}

LEMMA SessionsLastStep == TypeOK /\ SessionsLast /\ [Next]_vars => SessionsLast'
<1> SUFFICES ASSUME TypeOK, SessionsLast, [Next]_vars PROVE SessionsLast'
  OBVIOUS
<1> USE DEF SessionsLast
<1>1. ASSUME UNCHANGED <<pc, revS>> PROVE SessionsLast'
  BY <1>1
<1>2. ASSUME NEW r \in Requests, \A q \in Requests \ {r} : pc'[q] = pc[q] /\ revS'[q] = revS[q],
             pc'[r] \notin {"throwing", "logoutCommit", "allCommit"} => revS'[r] = {}
      PROVE  SessionsLast'
  BY <1>2
<1> HIDE DEF SessionsLast
<1>3. ASSUME NEW r \in Requests, revS' = revS, NEW a, NEW b, Go(r, a, b), revS[r] = {} PROVE SessionsLast'
  BY <1>2, <1>3 DEF Go, TypeOK
<1>4. ASSUME NEW r \in Requests, NEW a, NEW b, Go(r, a, b), Unlock(r) PROVE SessionsLast'
  BY <1>2, <1>4 DEF Go, Unlock, TypeOK
<1>5. ASSUME NEW r \in Requests, Begin(r) PROVE SessionsLast'
  <2>1. pc[r] = "idle"
    BY <1>5 DEF Begin, RefreshUnknown, LogoutUnknown, RefreshReadToken, LogoutRevoked, LogoutReadToken,
                RevokeAllSelectTokens, Go
  <2>2. revS[r] = {}
    BY <2>1 DEF SessionsLast
  <2> QED
    BY <1>3, <1>5, <2>2
    DEF Begin, RefreshUnknown, LogoutUnknown, RefreshReadToken, LogoutRevoked, LogoutReadToken,
        RevokeAllSelectTokens
<1>6. ASSUME NEW r \in Requests,
             \/ RefreshReadSession(r) \/ RefreshReuse(r) \/ RefreshExpired(r) \/ RefreshRotate(r)
             \/ RefreshClash(r) \/ RefreshRevokeFamily(r) \/ LogoutRevokeToken(r)
             \/ RevokeAllTokens(r) \/ RevokeAllSelectSessions(r)
      PROVE  SessionsLast'
  <2> USE DEF RefreshReadSession, RefreshReuse, RefreshExpired, RefreshRotate, RefreshClash,
              RefreshRevokeFamily, LogoutRevokeToken, RevokeAllTokens, RevokeAllSelectSessions
  <2>1. pc[r] \notin {"throwing", "logoutCommit", "allCommit"}
    BY <1>6 DEF Go
  <2>2. revS[r] = {}
    BY <2>1 DEF SessionsLast
  <2> QED
    BY <1>3, <1>6, <2>2
<1>7. ASSUME NEW r \in Requests,
             RefreshRevokeSession(r) \/ LogoutRevokeSession(r) \/ RevokeAllSessions(r)
      PROVE  SessionsLast'
  BY <1>2, <1>7
  DEF RefreshRevokeSession, LogoutRevokeSession, RevokeAllSessions, RevokeSession,
      RevokeActiveSessions, Go, TypeOK
<1>8. ASSUME NEW r \in Requests,
             \/ RefreshSessionOver(r) \/ RefreshThrowReuse(r) \/ RefreshThrowExpired(r)
             \/ RefreshUserInactive(r) \/ RefreshCommit(r) \/ LogoutCommit(r) \/ RevokeAllCommit(r)
      PROVE  SessionsLast'
  BY <1>4, <1>8
  DEF RefreshSessionOver, RefreshThrowReuse, RefreshThrowExpired, RefreshUserInactive, RefreshCommit,
      LogoutCommit, RevokeAllCommit, Fail, Rollback, CommitRevocations
<1>9. ASSUME NEW r \in Requests, Abort(r) PROVE SessionsLast'
  BY <1>2, <1>9 DEF Abort, Fail, Rollback, Unlock, TypeOK
<1>10. ASSUME NEW u \in Users, CreateSessionTokens(u) \/ Deactivate(u) PROVE SessionsLast'
  BY <1>1, <1>10 DEF CreateSessionTokens, Deactivate, calls
<1>11. ASSUME NEW t \in Tokens, Expire(t) PROVE SessionsLast'
  BY <1>1, <1>11 DEF Expire, calls
<1>12. CASE UNCHANGED vars
  BY <1>1, <1>12 DEF vars
<1> QED
  BY <1>5, <1>6, <1>7, <1>8, <1>9, <1>10, <1>11, <1>12 DEF Next, Continue

\* Refreshes, logouts and logouts of all sessions never wait in a circle for each other's
\* rows: a call that is to lock tokens has locked nothing, and one that has locked
\* sessions locks nothing more.  This is about the order of the statements: the rows of
\* one statement are taken in one step.
THEOREM TokenServiceNeverDeadlocks == Spec => []NoCircleOfWaits
<1>1. ASSUME IInv, SessionsLast, NEW S \in SUBSET Requests, S # {},
             \A r \in S : \E q \in S : WaitsFor(r, q)
      PROVE  FALSE
  <2>1. ASSUME NEW r \in S PROVE revS[r] = {}
    <3>1. TokensWanted(r) # {} \/ SessionsWanted(r) # {}
      BY <1>1 DEF WaitsFor
    <3> QED
      BY <3>1, <1>1 DEF TokensWanted, SessionsWanted, SessionsLast
  <2>2. ASSUME NEW r \in S PROVE TokensWanted(r) # {}
    BY <1>1, <2>1 DEF WaitsFor
  <2>3. ASSUME NEW r \in S PROVE revT[r] = {}
    BY <1>1, <2>2 DEF TokensWanted, IInv, CallOK, LocksOK
  <2> QED
    BY <1>1, <2>1, <2>3 DEF WaitsFor
<1>2. IInv /\ SessionsLast => NoCircleOfWaits
  BY <1>1 DEF NoCircleOfWaits
<1>3. Init => SessionsLast
  BY DEF Init, CallsInit, SessionsLast
<1>4. IInv => TypeOK
  BY DEF IInv
<1> QED
  BY <1>2, <1>3, <1>4, SessionsLastStep, Inductive, PTL DEF Spec
=============================================================================
