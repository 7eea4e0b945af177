------------------------------ MODULE AuthFlows ------------------------------
(***************************************************************************)
(* Signing in and resetting a password: login.service.ts,                  *)
(* otp-login.service.ts and password-reset.service.ts over the token       *)
(* service.  A flow reads rows outside any transaction, decides, writes in *)
(* one transaction and then calls the token service, which runs another.   *)
(* The process can stop between any two of these steps.                    *)
(*                                                                         *)
(* flow[r] is where the flow of call r is; a call of the token service     *)
(* that a flow makes, or that the API makes directly (refresh, logout,     *)
(* logout-all), is the r of TokenService.                                  *)
(***************************************************************************)
EXTENDS TokenService, Naturals, FiniteSets

CONSTANTS Codes, NoCode

ASSUME CodeAssumption == NoCode \notin Codes

VARIABLES
  barred,       \* users who have memberships, every one of them SUSPENDED
  codeStatus,   \* "UNUSED" is usedAt = null; "ABSENT" while the row does not exist
  codeKind,     \* "otp" for login_otps, "reset" for password_reset_tokens
  codeUser,     \* userId of the row
  codeExpired,  \* codes whose expiresAt has passed
  password,     \* how often the password of the user was reset
  flow,         \* where the call is
  code,         \* the code presented to the call
  user,         \* the user the call read
  spent,        \* codes that opened a session or reset a password (history)
  stale,        \* calls that began with a spent code (history)
  opened        \* password of the user when the session was opened (history)

codeRows == <<codeStatus, codeKind, codeUser, codeExpired>>
flowVars == <<barred, codeStatus, codeKind, codeUser, codeExpired, password,
              flow, code, user, spent, stale, opened>>
allVars == <<vars, flowVars>>

FlowStages == {"login", "loginVerified", "otp", "otpVerified", "otpUsed",
           "reset", "resetDone", "revoking"}
FlowEnds == {"signedIn", "resetAnswered", "refused", "crashed"}

FlowInit ==
  /\ Init
  /\ barred = {}
  /\ codeStatus = [c \in Codes |-> "ABSENT"]
  /\ codeKind = [c \in Codes |-> "otp"]
  /\ codeUser = [c \in Codes |-> NoUser]
  /\ codeExpired = {}
  /\ password = [u \in Users |-> 0]
  /\ flow = [r \in Requests |-> "idle"]
  /\ code = [r \in Requests |-> NoCode]
  /\ user = [r \in Requests |-> NoUser]
  /\ spent = {}
  /\ stale = {}
  /\ opened = [s \in Sessions |-> 0]

\* A call no one has begun yet.
Unused(r) == flow[r] = "idle" /\ pc[r] = "idle"

FlowGo(r, from, to) == flow[r] = from /\ flow' = [flow EXCEPT ![r] = to]

\* createSessionTokens of the user the call read; the history of the session.
OpenSession(r) ==
  /\ CreateSessionTokens(user[r])
  /\ opened' = [opened EXCEPT ![NewSession] = password[user[r]]]

-----------------------------------------------------------------------------
\* Variant: the row is created before it is connected to its user.
IssueCodeForNobody(u, kind) ==
  /\ userActive[u]
  /\ \E c \in Codes : codeStatus[c] = "ABSENT"
  /\ LET c == CHOOSE c \in Codes : codeStatus[c] = "ABSENT"
     IN /\ codeStatus' = [codeStatus EXCEPT ![c] = "UNUSED"]
        /\ codeKind' = [codeKind EXCEPT ![c] = kind]
  /\ UNCHANGED <<vars, barred, codeUser, codeExpired, password, flow, code, user, spent, stale, opened>>

\* sendLoginOtp and forgotPassword: one more code for an active user.  Earlier
\* codes stay good.
IssueCode(u, kind) ==
  /\ userActive[u]
  /\ \E c \in Codes : codeStatus[c] = "ABSENT"
  /\ LET c == CHOOSE c \in Codes : codeStatus[c] = "ABSENT"
     IN /\ codeStatus' = [codeStatus EXCEPT ![c] = "UNUSED"]
        /\ codeKind' = [codeKind EXCEPT ![c] = kind]
        /\ codeUser' = [codeUser EXCEPT ![c] = u]
  /\ UNCHANGED <<vars, barred, codeExpired, password, flow, code, user, spent, stale, opened>>

\* The checks both code flows make on the rows they read.
Refusable(c) == codeStatus[c] # "UNUSED" \/ c \in codeExpired

ReadCode(r, c, kind, stage) ==
  /\ Unused(r)
  /\ codeStatus[c] # "ABSENT" /\ codeKind[c] = kind
  /\ FlowGo(r, "idle", IF Refusable(c) \/ ~userActive[codeUser[c]] THEN "refused" ELSE stage)
  /\ code' = [code EXCEPT ![r] = c]
  /\ user' = [user EXCEPT ![r] = codeUser[c]]
  /\ stale' = IF c \in spent THEN stale \cup {r} ELSE stale
  /\ UNCHANGED <<vars, barred, codeRows, password, spent, opened>>

\* Variant: the record is read again instead of being updated.
MarkNothing(r) == UNCHANGED codeStatus

\* markAsUsed sets usedAt whatever it was.
MarkAsUsed(r) == codeStatus' = [codeStatus EXCEPT ![code[r]] = "USED"]

-----------------------------------------------------------------------------
\* login: the user row is read once, and the password compared against it.
LoginRead(r, u) ==
  /\ Unused(r)
  /\ FlowGo(r, "idle", IF userActive[u] THEN "login" ELSE "refused")
  /\ user' = [user EXCEPT ![r] = u]
  /\ UNCHANGED <<vars, barred, codeRows, password, code, spent, stale, opened>>

\* The memberships are read next: all SUSPENDED refuses the login.
CheckMemberships(r, from, to) ==
  /\ FlowGo(r, from, IF user[r] \in barred THEN "refused" ELSE to)
  /\ UNCHANGED <<vars, barred, codeRows, password, code, user, spent, stale, opened>>

LoginCheck(r) == CheckMemberships(r, "login", "loginVerified")

LoginOpen(r) ==
  /\ FlowGo(r, "loginVerified", "signedIn")
  /\ OpenSession(r)
  /\ UNCHANGED <<barred, codeRows, password, code, user, spent, stale>>

-----------------------------------------------------------------------------
\* loginWithOtp
OtpRead(r, c) == ReadCode(r, c, "otp", "otp")

OtpCheck(r) == CheckMemberships(r, "otp", "otpVerified")

\* The transaction that marks the code and records the login.
OtpUse(r) ==
  /\ FlowGo(r, "otpVerified", "otpUsed")
  /\ MarkAsUsed(r)
  /\ UNCHANGED <<vars, barred, codeKind, codeUser, codeExpired, password,
                 code, user, spent, stale, opened>>

OtpOpen(r) ==
  /\ FlowGo(r, "otpUsed", "signedIn")
  /\ OpenSession(r)
  /\ spent' = spent \cup {code[r]}
  /\ UNCHANGED <<barred, codeRows, password, code, user, stale>>

-----------------------------------------------------------------------------
\* resetPasswordWithToken and resetPasswordWithOtp
ResetRead(r, c) == ReadCode(r, c, "reset", "reset")

\* The transaction: the new password and the used code.
ResetCommit(r) ==
  /\ FlowGo(r, "reset", "resetDone")
  /\ password' = [password EXCEPT ![user[r]] = @ + 1]
  /\ MarkAsUsed(r)
  /\ spent' = spent \cup {code[r]}
  /\ UNCHANGED <<vars, barred, codeKind, codeUser, codeExpired, code, user, stale, opened>>

\* revokeAllUserSessions, in a transaction of its own.
ResetRevoke(r) ==
  /\ FlowGo(r, "resetDone", "revoking")
  /\ RevokeAllSelectTokens(r, user[r])
  /\ UNCHANGED <<barred, codeRows, password, code, user, spent, stale, opened>>

\* Variant: the call of revokeAllUserSessions is not awaited.
ResetAnswerEarly(r) ==
  /\ FlowGo(r, "revoking", "resetAnswered")
  /\ UNCHANGED <<vars, barred, codeRows, password, code, user, spent, stale, opened>>

ResetAnswer(r) ==
  /\ pc[r] = "loggedOutAll"
  /\ FlowGo(r, "revoking", "resetAnswered")
  /\ UNCHANGED <<vars, barred, codeRows, password, code, user, spent, stale, opened>>

-----------------------------------------------------------------------------
\* The process stops, or a query fails, between two steps of a flow.
Crash(r) ==
  /\ flow[r] \in FlowStages \ {"revoking"}
  /\ flow' = [flow EXCEPT ![r] = "crashed"]
  /\ UNCHANGED <<vars, barred, codeRows, password, code, user, spent, stale, opened>>

\* The transaction of revokeAllUserSessions failed, and with it the flow.
RevokeFailed(r) ==
  /\ pc[r] = "aborted"
  /\ FlowGo(r, "revoking", "crashed")
  /\ UNCHANGED <<vars, barred, codeRows, password, code, user, spent, stale, opened>>

\* A member update suspends or reinstates the last active membership.
SetBarred(u) ==
  /\ barred' = IF u \in barred THEN barred \ {u} ELSE barred \cup {u}
  /\ UNCHANGED <<vars, codeRows, password, flow, code, user, spent, stale, opened>>

ExpireCode(c) ==
  /\ codeStatus[c] # "ABSENT" /\ c \notin codeExpired
  /\ codeExpired' = codeExpired \cup {c}
  /\ UNCHANGED <<vars, barred, codeStatus, codeKind, codeUser, password,
                 flow, code, user, spent, stale, opened>>

\* refresh, logout and logout-all go to the token service directly.
ApiCall(r) == Unused(r) /\ Begin(r) /\ UNCHANGED flowVars
TokenStep(r) == (Continue(r) \/ Abort(r)) /\ UNCHANGED flowVars
TokenWorld == /\ \/ \E t \in Tokens : Expire(t)
                 \/ \E u \in Users : Deactivate(u)
              /\ UNCHANGED flowVars

FlowBegin(r) == \/ \E u \in Users : LoginRead(r, u)
            \/ \E c \in Codes : OtpRead(r, c) \/ ResetRead(r, c)

FlowContinue(r) == \/ LoginCheck(r) \/ LoginOpen(r)
               \/ OtpCheck(r) \/ OtpUse(r) \/ OtpOpen(r)
               \/ ResetCommit(r) \/ ResetRevoke(r) \/ ResetAnswer(r) \/ RevokeFailed(r)

FlowNext ==
  \/ \E r \in Requests : FlowBegin(r) \/ FlowContinue(r) \/ Crash(r) \/ ApiCall(r) \/ TokenStep(r)
  \/ TokenWorld
  \/ \E u \in Users, kind \in {"otp", "reset"} : IssueCode(u, kind)
  \/ \E u \in Users : SetBarred(u)
  \/ \E c \in Codes : ExpireCode(c)

FlowSpec == FlowInit /\ [][FlowNext]_allVars

-----------------------------------------------------------------------------
\* Properties

\* Every row and every local of a flow has its type, and a code that was issued
\* belongs to a user (the foreign keys of login_otps and password_reset_tokens).
FlowTypeOK ==
  /\ TypeOK
  /\ barred \subseteq Users
  /\ codeStatus \in [Codes -> {"ABSENT", "UNUSED", "USED"}]
  /\ codeKind \in [Codes -> {"otp", "reset"}]
  /\ codeUser \in [Codes -> Users \cup {NoUser}]
  /\ codeExpired \subseteq Codes
  /\ password \in [Users -> Nat]
  /\ flow \in [Requests -> FlowStages \cup FlowEnds \cup {"idle"}]
  /\ code \in [Requests -> Codes \cup {NoCode}]
  /\ user \in [Requests -> Users \cup {NoUser}]
  /\ stale \subseteq Requests
  /\ opened \in [Sessions -> Nat]
  /\ \A c \in Codes : codeStatus[c] # "ABSENT" => codeUser[c] \in Users

\* A reset that has not answered, or never will.
Unfinished(u) == \E r \in Requests :
  user[r] = u /\ code[r] # NoCode /\ codeKind[code[r]] = "reset"
              /\ flow[r] \in {"resetDone", "revoking", "crashed"}

\* Once every reset of a user has answered, each open session was opened after
\* the last of them changed the password: a session outlives a password change
\* only if the process stopped before the sessions were revoked.
ResetEndsEarlierSessions ==
  \A s \in Sessions : Active(s) /\ ~Unfinished(sessionUser[s]) =>
    opened[s] = password[sessionUser[s]]

\* A code works again only for a call that read it before its first effect: a
\* call that begins once the code opened a session or reset the password is
\* refused, whichever of the two flows stopped half-way in between.
SpentCodeIsRefused == \A r \in stale : flow[r] = "refused"

\* One code, one effect: what "should throw BadRequestException if token is
\* already used" expects, also of two calls that overlap.
CodeWorksOnce == \A q, r \in Requests :
  flow[q] = "resetAnswered" /\ flow[r] = "resetAnswered" /\ code[q] = code[r] => q = r
=============================================================================
