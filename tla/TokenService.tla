---------------------------- MODULE TokenService ----------------------------
(***************************************************************************)
(* Sessions and refresh tokens: modules/auth/services/token.service.ts     *)
(* over its two repositories, on PostgreSQL at READ COMMITTED, the level   *)
(* every $transaction of the code runs at.                                 *)
(*                                                                         *)
(* A request r is one call of the service.  Its transaction reads the      *)
(* committed rows; what it has updated so far is kept in revT[r] and       *)
(* revS[r], invisible to the others and locked against them until the      *)
(* transaction commits or rolls back.  An UPDATE waits for the locks of    *)
(* its rows and tests its WHERE clause again on the row it then finds.  A  *)
(* statement over several rows has two steps: it selects its rows, then,   *)
(* when no one else holds any of them, it updates those that still         *)
(* qualify.  (Taking them one by one, as the server does, has the same     *)
(* results: a row that changes before the last lock is taken is a row the  *)
(* statement had not reached yet.)  Rows inserted by a transaction appear  *)
(* when it commits, and inserting conflicts with none of these updates.    *)
(***************************************************************************)
CONSTANTS Users, Sessions, Tokens, Requests, NoUser, NoSession, NoToken

ASSUME NoneAssumption == /\ NoUser \notin Users
                         /\ NoSession \notin Sessions
                         /\ NoToken \notin Tokens

VARIABLES
  \* committed rows
  userActive,     \* User.isActive and no deletedAt
  sessionStatus,  \* Session.status, or "ABSENT" while the row does not exist
  sessionUser,    \* Session.userId, and RefreshToken.userId, always its copy
  tokenStatus,    \* "LIVE" is revokedAt = null
  tokenSession,   \* RefreshToken.sessionId
  expired,        \* tokens whose expiresAt has passed
  \* requests
  pc,             \* where the call is, or how it ended
  who,            \* the user of a revokeAllUserSessions call
  tok,            \* the refresh token presented
  saw,            \* the token row was revoked when the call read it
  rowsT, rowsS,   \* rows the last many-row statement selected
  revT, revS,     \* rows this transaction has updated: written and locked
  late            \* refresh calls whose token was dead when they began (history)

rows == <<userActive, sessionStatus, sessionUser, tokenStatus, tokenSession, expired>>
calls == <<pc, who, tok, saw, rowsT, rowsS, revT, revS, late>>
vars == <<userActive, sessionStatus, sessionUser, tokenStatus, tokenSession, expired,
          pc, who, tok, saw, rowsT, rowsS, revT, revS, late>>

Ends == {"refreshed", "loggedOut", "loggedOutAll", "rejected", "reuse", "aborted"}
Stages == {"readSession", "checked", "rotated", "family", "revokeSession", "throwing",
           "throwExpired", "logoutToken", "logoutSession", "logoutCommit",
           "allTokens", "allSelect", "allSessions", "allCommit"}
Answered(r) == pc[r] \in Ends
Running(r) == pc[r] \in Stages

-----------------------------------------------------------------------------
\* The rows

Live(t) == tokenStatus[t] = "LIVE"
Active(s) == sessionStatus[s] = "ACTIVE"
Family(s) == {t \in Tokens : Live(t) /\ tokenSession[t] = s}
LiveTokensOf(u) == {t \in Tokens : Live(t) /\ sessionUser[tokenSession[t]] = u}
ActiveSessionsOf(u) == {s \in Sessions : Active(s) /\ sessionUser[s] = u}

\* A token no refresh may be granted on.
Dead(t) == \/ ~Live(t)
           \/ t \in expired
           \/ ~Active(tokenSession[t])
           \/ ~userActive[sessionUser[tokenSession[t]]]

\* Identifiers are random: which unused one a row gets makes no difference.
NewTokens == {t \in Tokens : tokenStatus[t] = "ABSENT"}
NewSessions == {s \in Sessions : sessionStatus[s] = "ABSENT"}
NewToken == CHOOSE t \in Tokens : tokenStatus[t] = "ABSENT"
NewSession == CHOOSE s \in Sessions : sessionStatus[s] = "ABSENT"

\* No call has been made.
CallsInit ==
  /\ pc = [r \in Requests |-> "idle"]
  /\ who = [r \in Requests |-> NoUser]
  /\ tok = [r \in Requests |-> NoToken]
  /\ saw = [r \in Requests |-> FALSE]
  /\ rowsT = [r \in Requests |-> {}]
  /\ rowsS = [r \in Requests |-> {}]
  /\ revT = [r \in Requests |-> {}]
  /\ revS = [r \in Requests |-> {}]
  /\ late = {}

\* No one has logged in.
Init ==
  /\ userActive = [u \in Users |-> TRUE]
  /\ sessionStatus = [s \in Sessions |-> "ABSENT"]
  /\ sessionUser = [s \in Sessions |-> NoUser]
  /\ tokenStatus = [t \in Tokens |-> "ABSENT"]
  /\ tokenSession = [t \in Tokens |-> NoSession]
  /\ expired = {}
  /\ CallsInit

-----------------------------------------------------------------------------
\* Transactions

Go(r, from, to) == pc[r] = from /\ pc' = [pc EXCEPT ![r] = to]

TokensLockedFor(r) == UNION {revT[q] : q \in Requests \ {r}}
SessionsLockedFor(r) == UNION {revS[q] : q \in Requests \ {r}}

\* UPDATE refresh_tokens SET revokedAt WHERE <rows T> AND revokedAt IS NULL
RevokeLiveTokens(r, T) ==
  /\ T \cap TokensLockedFor(r) = {}
  /\ revT' = [revT EXCEPT ![r] = @ \cup {t \in T : Live(t)}]

\* UPDATE refresh_tokens SET revokedAt WHERE id = t
RevokeToken(r, t) ==
  /\ t \notin TokensLockedFor(r)
  /\ revT' = [revT EXCEPT ![r] = @ \cup {t}]

\* UPDATE sessions SET status = REVOKED WHERE id = s
RevokeSession(r, s) ==
  /\ s \notin SessionsLockedFor(r)
  /\ revS' = [revS EXCEPT ![r] = @ \cup {s}]

\* UPDATE sessions SET status = REVOKED WHERE <rows S> AND status = ACTIVE
RevokeActiveSessions(r, S) ==
  /\ S \cap SessionsLockedFor(r) = {}
  /\ revS' = [revS EXCEPT ![r] = @ \cup {s \in S : Active(s)}]

Unlock(r) == /\ revT' = [revT EXCEPT ![r] = {}]
             /\ revS' = [revS EXCEPT ![r] = {}]

CommitRevocations(r) ==
  /\ tokenStatus' = [t \in Tokens |-> IF t \in revT[r] THEN "REVOKED" ELSE tokenStatus[t]]
  /\ sessionStatus' = [s \in Sessions |-> IF s \in revS[r] THEN "REVOKED" ELSE sessionStatus[s]]
  /\ Unlock(r)
  /\ UNCHANGED <<userActive, sessionUser, tokenSession, expired>>

\* An exception thrown in the callback of $transaction, or a lost connection,
\* undoes everything the transaction wrote.
Rollback(r) == Unlock(r) /\ UNCHANGED rows

\* Nothing remembers what the call was about.
Forget(r) == /\ who' = [who EXCEPT ![r] = NoUser]
             /\ tok' = [tok EXCEPT ![r] = NoToken]
             /\ saw' = [saw EXCEPT ![r] = FALSE]
             /\ rowsT' = [rowsT EXCEPT ![r] = {}]
             /\ rowsS' = [rowsS EXCEPT ![r] = {}]

\* A failed call leaves nothing behind.
Fail(r) == /\ Rollback(r)
           /\ Forget(r)
           /\ late' = late \ {r}

\* The transaction fails at any point: the server or the process goes away, or
\* the time limit of an interactive transaction passes, also while it waits.
Abort(r) ==
  /\ Running(r)
  /\ pc' = [pc EXCEPT ![r] = "aborted"]
  /\ Fail(r)

-----------------------------------------------------------------------------
\* Variant: the session insert is missing from the transaction.
CreateTokenOnly(u) ==
  /\ NewSessions # {} /\ NewTokens # {}
  /\ tokenStatus' = [tokenStatus EXCEPT ![NewToken] = "LIVE"]
  /\ tokenSession' = [tokenSession EXCEPT ![NewToken] = NewSession]
  /\ UNCHANGED <<userActive, sessionStatus, sessionUser, expired, calls>>

\* createSessionTokens: the two inserts appear together at the commit, and the
\* transaction holds nothing that others wait for: the call is one step.
CreateSessionTokens(u) ==
  /\ NewSessions # {} /\ NewTokens # {}
  /\ sessionStatus' = [sessionStatus EXCEPT ![NewSession] = "ACTIVE"]
  /\ sessionUser' = [sessionUser EXCEPT ![NewSession] = u]
  /\ tokenStatus' = [tokenStatus EXCEPT ![NewToken] = "LIVE"]
  /\ tokenSession' = [tokenSession EXCEPT ![NewToken] = NewSession]
  /\ UNCHANGED <<userActive, expired, calls>>

-----------------------------------------------------------------------------
\* refreshTokens

\* findByTokenHash: an unknown token is rejected.
RefreshUnknown(r) ==
  /\ Go(r, "idle", "rejected")
  /\ UNCHANGED <<rows, who, tok, saw, rowsT, rowsS, revT, revS, late>>

RefreshReadToken(r, t) ==
  /\ tokenStatus[t] # "ABSENT"
  /\ Go(r, "idle", "readSession")
  /\ tok' = [tok EXCEPT ![r] = t]
  /\ saw' = [saw EXCEPT ![r] = ~Live(t)]
  /\ late' = IF Dead(t) THEN late \cup {r} ELSE late
  /\ UNCHANGED <<rows, who, rowsT, rowsS, revT, revS>>

SessionOf(r) == tokenSession[tok[r]]

\* Variant: the status of the session is not tested.
RefreshAnySession(r) ==
  /\ Go(r, "readSession", "checked")
  /\ UNCHANGED <<rows, who, tok, saw, rowsT, rowsS, revT, revS, late>>

RefreshReadSession(r) ==
  /\ Go(r, "readSession", "checked")
  /\ Active(SessionOf(r))
  /\ UNCHANGED <<rows, who, tok, saw, rowsT, rowsS, revT, revS, late>>

RefreshSessionOver(r) ==
  /\ Go(r, "readSession", "rejected")
  /\ ~Active(SessionOf(r))
  /\ Fail(r)

\* revokeFamily selects the rows of its statement.
SelectFamily(r) == rowsT' = [rowsT EXCEPT ![r] = Family(SessionOf(r))]

\* The row read was revoked already: the token is presented a second time.
RefreshReuse(r) ==
  /\ Go(r, "checked", "family")
  /\ saw[r]
  /\ SelectFamily(r)
  /\ UNCHANGED <<rows, who, tok, saw, rowsS, revT, revS, late>>

RefreshExpired(r) ==
  /\ Go(r, "checked", "throwExpired")
  /\ ~saw[r] /\ tok[r] \in expired
  /\ RevokeToken(r, tok[r])
  /\ UNCHANGED <<rows, who, tok, saw, rowsT, rowsS, revS, late>>

\* Variant: the row count revokeIfActive returns is ignored.
RefreshRotateBlind(r) ==
  /\ Go(r, "checked", "rotated")
  /\ ~saw[r] /\ tok[r] \notin expired
  /\ RevokeLiveTokens(r, {tok[r]})
  /\ UNCHANGED <<rows, who, tok, saw, rowsT, rowsS, revS, late>>

\* revokeIfActive revoked the row: the token is this call's to rotate.
RefreshRotate(r) ==
  /\ Go(r, "checked", "rotated")
  /\ ~saw[r] /\ tok[r] \notin expired /\ Live(tok[r])
  /\ RevokeLiveTokens(r, {tok[r]})
  /\ UNCHANGED <<rows, who, tok, saw, rowsT, rowsS, revS, late>>

\* revokeIfActive found no live row: someone else rotated or revoked it.
RefreshClash(r) ==
  /\ Go(r, "checked", "family")
  /\ ~saw[r] /\ tok[r] \notin expired /\ ~Live(tok[r])
  /\ SelectFamily(r)
  /\ UNCHANGED <<rows, who, tok, saw, rowsS, revT, revS, late>>

RefreshRevokeFamily(r) ==
  /\ Go(r, "family", "revokeSession")
  /\ RevokeLiveTokens(r, rowsT[r])
  /\ UNCHANGED <<rows, who, tok, saw, rowsT, rowsS, revS, late>>

RefreshRevokeSession(r) ==
  /\ Go(r, "revokeSession", "throwing")
  /\ RevokeSession(r, SessionOf(r))
  /\ UNCHANGED <<rows, who, tok, saw, rowsT, rowsS, revT, late>>

\* The throw that ends the reuse and the clash branch is inside the callback.
RefreshThrowReuse(r) ==
  /\ Go(r, "throwing", "reuse")
  /\ Rollback(r)
  /\ UNCHANGED <<who, tok, saw, rowsT, rowsS, late>>

RefreshThrowExpired(r) ==
  /\ Go(r, "throwExpired", "rejected")
  /\ Fail(r)

\* The new token is created, which shows only at the commit, and the user is
\* looked up: an inactive one undoes the rotation.
RefreshUserInactive(r) ==
  /\ Go(r, "rotated", "rejected")
  /\ ~userActive[sessionUser[SessionOf(r)]]
  /\ Fail(r)

\* Variant: the session row read at the start is written back, to record its use.
RefreshCommitTouching(r) ==
  /\ Go(r, "rotated", "refreshed")
  /\ userActive[sessionUser[SessionOf(r)]]
  /\ NewTokens # {}
  /\ tokenStatus' = [t \in Tokens |-> IF t = NewToken THEN "LIVE"
                                      ELSE IF t \in revT[r] THEN "REVOKED"
                                      ELSE tokenStatus[t]]
  /\ tokenSession' = [tokenSession EXCEPT ![NewToken] = SessionOf(r)]
  /\ sessionStatus' = [sessionStatus EXCEPT ![SessionOf(r)] = "ACTIVE"]
  /\ Unlock(r) /\ Forget(r)
  /\ UNCHANGED <<userActive, sessionUser, expired, late>>

RefreshCommit(r) ==
  /\ Go(r, "rotated", "refreshed")
  /\ userActive[sessionUser[SessionOf(r)]]
  /\ NewTokens # {}
  /\ tokenStatus' = [t \in Tokens |-> IF t = NewToken THEN "LIVE"
                                      ELSE IF t \in revT[r] THEN "REVOKED"
                                      ELSE tokenStatus[t]]
  /\ tokenSession' = [tokenSession EXCEPT ![NewToken] = SessionOf(r)]
  /\ Unlock(r) /\ Forget(r)
  /\ UNCHANGED <<userActive, sessionStatus, sessionUser, expired, late>>

-----------------------------------------------------------------------------
\* revokeRefreshToken: the logout of one session

\* Nothing to do for an unknown or a revoked token; the call succeeds all the same.
LogoutUnknown(r) ==
  /\ Go(r, "idle", "loggedOut")
  /\ saw' = [saw EXCEPT ![r] = TRUE]
  /\ UNCHANGED <<rows, who, tok, rowsT, rowsS, revT, revS, late>>

LogoutRevoked(r, t) ==
  /\ tokenStatus[t] = "REVOKED"
  /\ Go(r, "idle", "loggedOut")
  /\ tok' = [tok EXCEPT ![r] = t]
  /\ saw' = [saw EXCEPT ![r] = TRUE]
  /\ UNCHANGED <<rows, who, rowsT, rowsS, revT, revS, late>>

LogoutReadToken(r, t) ==
  /\ Live(t)
  /\ Go(r, "idle", "logoutToken")
  /\ tok' = [tok EXCEPT ![r] = t]
  /\ UNCHANGED <<rows, who, saw, rowsT, rowsS, revT, revS, late>>

\* Whether revokeIfActive revoked anything is not looked at.
LogoutRevokeToken(r) ==
  /\ Go(r, "logoutToken", "logoutSession")
  /\ RevokeLiveTokens(r, {tok[r]})
  /\ UNCHANGED <<rows, who, tok, saw, rowsT, rowsS, revS, late>>

\* Variant: the session is closed only when revokeIfActive revoked the token.
LogoutRevokeSessionIf(r) ==
  /\ Go(r, "logoutSession", "logoutCommit")
  /\ IF revT[r] = {} THEN UNCHANGED revS ELSE RevokeSession(r, SessionOf(r))
  /\ UNCHANGED <<rows, who, tok, saw, rowsT, rowsS, revT, late>>

LogoutRevokeSession(r) ==
  /\ Go(r, "logoutSession", "logoutCommit")
  /\ RevokeSession(r, SessionOf(r))
  /\ UNCHANGED <<rows, who, tok, saw, rowsT, rowsS, revT, late>>

\* Variant: the family is locked, to see that none of it is left, after its session.
LogoutCommitFamily(r) ==
  /\ Go(r, "logoutCommit", "loggedOut")
  /\ Family(SessionOf(r)) \cap TokensLockedFor(r) = {}
  /\ CommitRevocations(r)
  /\ UNCHANGED <<who, tok, saw, rowsT, rowsS, late>>

LogoutCommit(r) ==
  /\ Go(r, "logoutCommit", "loggedOut")
  /\ CommitRevocations(r)
  /\ UNCHANGED <<who, tok, saw, rowsT, rowsS, late>>

-----------------------------------------------------------------------------
\* revokeAllUserSessions: first the tokens of the user, then the sessions

RevokeAllSelectTokens(r, u) ==
  /\ Go(r, "idle", "allTokens")
  /\ who' = [who EXCEPT ![r] = u]
  /\ rowsT' = [rowsT EXCEPT ![r] = LiveTokensOf(u)]
  /\ UNCHANGED <<rows, tok, saw, rowsS, revT, revS, late>>

RevokeAllTokens(r) ==
  /\ Go(r, "allTokens", "allSelect")
  /\ RevokeLiveTokens(r, rowsT[r])
  /\ UNCHANGED <<rows, who, tok, saw, rowsT, rowsS, revS, late>>

\* Variant: only the sessions of the tokens just revoked are closed.
RevokeAllSelectOwners(r) ==
  /\ Go(r, "allSelect", "allSessions")
  /\ rowsS' = [rowsS EXCEPT ![r] = {tokenSession[t] : t \in revT[r]}]
  /\ UNCHANGED <<rows, who, tok, saw, rowsT, revT, revS, late>>

RevokeAllSelectSessions(r) ==
  /\ Go(r, "allSelect", "allSessions")
  /\ rowsS' = [rowsS EXCEPT ![r] = ActiveSessionsOf(who[r])]
  /\ UNCHANGED <<rows, who, tok, saw, rowsT, revT, revS, late>>

RevokeAllSessions(r) ==
  /\ Go(r, "allSessions", "allCommit")
  /\ RevokeActiveSessions(r, rowsS[r])
  /\ UNCHANGED <<rows, who, tok, saw, rowsT, rowsS, revT, late>>

RevokeAllCommit(r) ==
  /\ Go(r, "allCommit", "loggedOutAll")
  /\ CommitRevocations(r)
  /\ UNCHANGED <<who, tok, saw, rowsT, rowsS, late>>

-----------------------------------------------------------------------------
\* The rest of the world

\* expiresAt passes.
Expire(t) ==
  /\ tokenStatus[t] # "ABSENT" /\ t \notin expired
  /\ expired' = expired \cup {t}
  /\ UNCHANGED <<userActive, sessionStatus, sessionUser, tokenStatus, tokenSession, calls>>

\* Set from outside: no code of the service writes isActive or deletedAt.
Deactivate(u) ==
  /\ userActive[u]
  /\ userActive' = [userActive EXCEPT ![u] = FALSE]
  /\ UNCHANGED <<sessionStatus, sessionUser, tokenStatus, tokenSession, expired, calls>>

Begin(r) ==
  \/ RefreshUnknown(r) \/ LogoutUnknown(r)
  \/ \E t \in Tokens : RefreshReadToken(r, t) \/ LogoutRevoked(r, t) \/ LogoutReadToken(r, t)
  \/ \E u \in Users : RevokeAllSelectTokens(r, u)

Continue(r) ==
  \/ RefreshReadSession(r) \/ RefreshSessionOver(r) \/ RefreshReuse(r) \/ RefreshExpired(r)
  \/ RefreshRotate(r) \/ RefreshClash(r)
  \/ RefreshRevokeFamily(r) \/ RefreshRevokeSession(r)
  \/ RefreshThrowReuse(r) \/ RefreshThrowExpired(r)
  \/ RefreshUserInactive(r) \/ RefreshCommit(r)
  \/ LogoutRevokeToken(r) \/ LogoutRevokeSession(r) \/ LogoutCommit(r)
  \/ RevokeAllTokens(r) \/ RevokeAllSelectSessions(r)
  \/ RevokeAllSessions(r) \/ RevokeAllCommit(r)

Next ==
  \/ \E r \in Requests : Begin(r) \/ Continue(r) \/ Abort(r)
  \/ \E u \in Users : CreateSessionTokens(u)
  \/ \E t \in Tokens : Expire(t)
  \/ \E u \in Users : Deactivate(u)

Spec == Init /\ [][Next]_vars

\* A transaction that can take its next step takes it: the event loop and the
\* server run every call.  Nothing obliges anyone to call, to fail or to expire.
Fairness == \A r \in Requests : WF_vars(Continue(r))

FairSpec == Spec /\ Fairness
-----------------------------------------------------------------------------
\* Properties

\* Every row and every local of a call has its type, and an issued token belongs
\* to a session that exists (the foreign key of refresh_tokens.sessionId), which
\* belongs to a user.
TypeOK ==
  /\ userActive \in [Users -> BOOLEAN]
  /\ sessionStatus \in [Sessions -> {"ABSENT", "ACTIVE", "REVOKED"}]
  /\ sessionUser \in [Sessions -> Users \cup {NoUser}]
  /\ tokenStatus \in [Tokens -> {"ABSENT", "LIVE", "REVOKED"}]
  /\ tokenSession \in [Tokens -> Sessions \cup {NoSession}]
  /\ expired \subseteq Tokens
  /\ pc \in [Requests -> Stages \cup Ends \cup {"idle"}]
  /\ who \in [Requests -> Users \cup {NoUser}]
  /\ tok \in [Requests -> Tokens \cup {NoToken}]
  /\ saw \in [Requests -> BOOLEAN]
  /\ rowsT \in [Requests -> SUBSET Tokens]
  /\ rowsS \in [Requests -> SUBSET Sessions]
  /\ revT \in [Requests -> SUBSET Tokens]
  /\ revS \in [Requests -> SUBSET Sessions]
  /\ late \subseteq Requests
  /\ \A t \in Tokens : tokenStatus[t] # "ABSENT" =>
        tokenSession[t] \in Sessions /\ sessionStatus[tokenSession[t]] # "ABSENT"
  /\ \A s \in Sessions : sessionStatus[s] # "ABSENT" => sessionUser[s] \in Users

\* An open session can always be continued by exactly one token, whatever
\* refreshes, logouts and failures overlap: rotation neither loses the session
\* (a revoked token without a successor) nor forks it (two successors).
ActiveSessionHasOneLiveToken ==
  \A s \in Sessions : Active(s) => \E t \in Tokens : Family(s) = {t}

\* A refresh that begins when its token is already revoked or expired, its
\* session revoked or its user deactivated never answers with a new pair.
DeadTokenNeverRefreshes == \A r \in late : pc[r] # "refreshed"

\* A logout that found its token live leaves the session revoked, also when a
\* concurrent refresh rotated the token under it.
LogoutEndsSession ==
  \A r \in Requests : pc[r] = "loggedOut" /\ ~saw[r] => ~Active(SessionOf(r))

\* What the log says of a token presented twice, "Revoking entire family": once
\* the call has been refused, the session is no longer active.
ReuseRevokesFamily == \A r \in Requests : pc[r] = "reuse" => ~Active(SessionOf(r))

\* When logout-all answers, no session that had a live token when it began is
\* open, although refreshes and logouts ran between its two statements.
LogoutAllEndsSessions ==
  \A r \in Requests : pc[r] = "loggedOutAll" =>
    \A t \in rowsT[r] : ~Active(tokenSession[t])

\* Every call that began a transaction ends it: no two calls wait for each
\* other's rows, and none keeps a lock that another waits for.
EveryCallAnswers == \A r \in Requests : Running(r) ~> Answered(r)
=============================================================================
