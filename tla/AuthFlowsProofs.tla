--------------------------- MODULE AuthFlowsProofs ---------------------------
(***************************************************************************)
(* The flows drive the token service only through its own calls, so all    *)
(* its theorems hold under them; and a password reset that has answered    *)
(* leaves no earlier session open.                                         *)
(***************************************************************************)
EXTENDS AuthFlows, TokenRefinementProofs

CodeStages == {"otp", "otpVerified", "otpUsed", "reset", "resetDone", "revoking"}

\* A code that had its effect is marked, and calls that came later are refused.
SpentOK == /\ \A c \in spent : c \in Codes /\ codeStatus[c] = "USED"
           /\ SpentCodeIsRefused

\* The call was given a code that is a reset code.
HasReset(r) == /\ code[r] \in Codes
               /\ codeStatus[code[r]] # "ABSENT"
               /\ codeKind[code[r]] = "reset"

\* A call past its first read has the user it read, and the code if it was given
\* one; while revokeAllUserSessions has rows to select, it is of that user.
FlowOK(r) ==
  /\ flow[r] \in FlowStages => user[r] \in Users
  /\ flow[r] \in CodeStages => code[r] \in Codes /\ codeStatus[code[r]] # "ABSENT"
  /\ flow[r] \in {"reset", "resetDone", "revoking"} => HasReset(r)
  /\ flow[r] = "otpUsed" => codeStatus[code[r]] = "USED"
  /\ flow[r] = "revoking" /\ pc[r] \in {"allTokens", "allSelect"} => who[r] = user[r]

\* Reset r will close session s, or was kept from it by a failure.
Covers(r, s) ==
  /\ user[r] = sessionUser[s]
  /\ HasReset(r)
  /\ \/ flow[r] \in {"resetDone", "crashed"}
     \/ flow[r] = "revoking" /\ pc[r] \in {"allTokens", "allSelect", "aborted"}
     \/ flow[r] = "revoking" /\ pc[r] = "allSessions" /\ s \in rowsS[r]
     \/ flow[r] = "revoking" /\ pc[r] = "allCommit" /\ s \in revS[r]

\* An open session from before the last change of its user's password.
Earlier(s) == Active(s) /\ opened[s] # password[sessionUser[s]]

EarlierSessionsCovered == \A s \in Sessions : Earlier(s) => \E r \in Requests : Covers(r, s)

FInv == /\ IInv
        /\ FlowTypeOK
        /\ SpentOK
        /\ \A r \in Requests : FlowOK(r)
        /\ EarlierSessionsCovered

-----------------------------------------------------------------------------
\* Every step of the flows is a step of the token service, or does not touch it.
LEMMA FlowStepIsTokenStep ==
  ASSUME \A r \in Requests : FlowOK(r), [FlowNext]_allVars
  PROVE  [Next]_vars
<1>1. ASSUME NEW r \in Requests, FlowBegin(r) PROVE UNCHANGED vars
  BY <1>1 DEF FlowBegin, LoginRead, OtpRead, ResetRead, ReadCode
<1>2. ASSUME NEW r \in Requests, FlowContinue(r) PROVE [Next]_vars
  <2>1. CASE LoginOpen(r) \/ OtpOpen(r)
    <3>1. user[r] \in Users /\ CreateSessionTokens(user[r])
      BY <2>1 DEF LoginOpen, OtpOpen, OpenSession, FlowGo, FlowOK, FlowStages
    <3> QED
      BY <3>1 DEF Next
  <2>2. CASE ResetRevoke(r)
    <3>1. user[r] \in Users /\ RevokeAllSelectTokens(r, user[r])
      BY <2>2 DEF ResetRevoke, FlowGo, FlowOK, FlowStages
    <3> QED
      BY <3>1 DEF Next, Begin
  <2>3. CASE LoginCheck(r) \/ OtpCheck(r) \/ OtpUse(r) \/ ResetCommit(r) \/ ResetAnswer(r)
             \/ RevokeFailed(r)
    BY <2>3 DEF LoginCheck, OtpCheck, CheckMemberships, OtpUse, ResetCommit, ResetAnswer,
                RevokeFailed
  <2> QED
    BY <1>2, <2>1, <2>2, <2>3 DEF FlowContinue
<1>3. ASSUME NEW r \in Requests, Crash(r) PROVE UNCHANGED vars
  BY <1>3 DEF Crash
<1>4. ASSUME NEW r \in Requests, ApiCall(r) \/ TokenStep(r) PROVE [Next]_vars
  BY <1>4 DEF ApiCall, TokenStep, Next
<1>5. CASE TokenWorld
  BY <1>5 DEF TokenWorld, Next
<1>6. CASE \/ \E u \in Users, kind \in {"otp", "reset"} : IssueCode(u, kind)
           \/ \E u \in Users : SetBarred(u)
           \/ \E c \in Codes : ExpireCode(c)
  BY <1>6 DEF IssueCode, SetBarred, ExpireCode
<1>7. CASE UNCHANGED allVars
  BY <1>7 DEF allVars
<1> QED
  BY <1>1, <1>2, <1>3, <1>4, <1>5, <1>6, <1>7 DEF FlowNext

-----------------------------------------------------------------------------
AllStages == {"allTokens", "allSelect", "allSessions", "allCommit"}

\* The steps a call of revokeAllUserSessions has left.
LEMMA AllSteps ==
  ASSUME TypeOK, NEW r \in Requests, Continue(r), pc[r] \in AllStages \/ pc'[r] \in AllStages
  PROVE  RevokeAllTokens(r) \/ RevokeAllSelectSessions(r) \/ RevokeAllSessions(r) \/ RevokeAllCommit(r)
<1> USE DEF TypeOK, AllStages, Go
<1>1. CASE RefreshReadSession(r) \/ RefreshSessionOver(r) \/ RefreshReuse(r) \/ RefreshExpired(r)
  BY <1>1 DEF RefreshReadSession, RefreshSessionOver, RefreshReuse, RefreshExpired
<1>2. CASE RefreshRotate(r) \/ RefreshClash(r) \/ RefreshRevokeFamily(r) \/ RefreshRevokeSession(r)
  BY <1>2 DEF RefreshRotate, RefreshClash, RefreshRevokeFamily, RefreshRevokeSession
<1>3. CASE RefreshThrowReuse(r) \/ RefreshThrowExpired(r) \/ RefreshUserInactive(r) \/ RefreshCommit(r)
  BY <1>3 DEF RefreshThrowReuse, RefreshThrowExpired, RefreshUserInactive, RefreshCommit
<1>4. CASE LogoutRevokeToken(r) \/ LogoutRevokeSession(r) \/ LogoutCommit(r)
  BY <1>4 DEF LogoutRevokeToken, LogoutRevokeSession, LogoutCommit
<1> QED
  BY <1>1, <1>2, <1>3, <1>4 DEF Continue

\* A call that ended takes no further step.
LEMMA Settled ==
  ASSUME NEW r \in Requests, pc[r] \in Ends
  PROVE  ~Continue(r)
<1> USE DEF Ends, Go
<1>1. ~(RefreshReadSession(r) \/ RefreshSessionOver(r) \/ RefreshReuse(r) \/ RefreshExpired(r))
  BY DEF RefreshReadSession, RefreshSessionOver, RefreshReuse, RefreshExpired
<1>2. ~(RefreshRotate(r) \/ RefreshClash(r) \/ RefreshRevokeFamily(r) \/ RefreshRevokeSession(r))
  BY DEF RefreshRotate, RefreshClash, RefreshRevokeFamily, RefreshRevokeSession
<1>3. ~(RefreshThrowReuse(r) \/ RefreshThrowExpired(r) \/ RefreshUserInactive(r) \/ RefreshCommit(r))
  BY DEF RefreshThrowReuse, RefreshThrowExpired, RefreshUserInactive, RefreshCommit
<1>4. ~(LogoutRevokeToken(r) \/ LogoutRevokeSession(r) \/ LogoutCommit(r))
  BY DEF LogoutRevokeToken, LogoutRevokeSession, LogoutCommit
<1>5. ~(RevokeAllTokens(r) \/ RevokeAllSelectSessions(r) \/ RevokeAllSessions(r) \/ RevokeAllCommit(r))
  BY DEF RevokeAllTokens, RevokeAllSelectSessions, RevokeAllSessions, RevokeAllCommit
<1> QED
  BY <1>1, <1>2, <1>3, <1>4, <1>5 DEF Continue

-----------------------------------------------------------------------------
\* The steps of the flows themselves keep the flow part of the invariant.
FlowPart == FlowTypeOK /\ SpentOK /\ \A r \in Requests : FlowOK(r)

LEMMA TypesStep ==
  ASSUME IInv, IInv', FlowPart, [FlowNext]_allVars
  PROVE  FlowPart'
<1>1. TypeOK'
  BY DEF IInv
<1> USE <1>1 DEF FlowPart, FlowTypeOK, SpentOK, SpentCodeIsRefused, FlowOK, HasReset,
                 CodeStages, FlowStages, FlowEnds, FlowGo, codeRows
<1>2. ASSUME NEW r \in Requests, FlowBegin(r) PROVE FlowPart'
  <2>1. ASSUME NEW u \in Users, LoginRead(r, u) PROVE FlowPart'
    BY <2>1 DEF LoginRead, vars
  <2>2. ASSUME NEW c \in Codes, NEW kind \in {"otp", "reset"}, NEW stage \in {"otp", "reset"},
               ReadCode(r, c, kind, stage), stage = kind
        PROVE  FlowPart'
    BY <2>2 DEF ReadCode, Refusable, vars
  <2> QED
    BY <1>2, <2>1, <2>2 DEF FlowBegin, OtpRead, ResetRead
<1>3. ASSUME NEW r \in Requests, FlowContinue(r) PROVE FlowPart'
  <2>1. CASE LoginCheck(r) \/ OtpCheck(r)
    BY <2>1 DEF LoginCheck, OtpCheck, CheckMemberships, vars
  <2>2. CASE LoginOpen(r) \/ OtpOpen(r)
    <3>1. PICK s \in Sessions : s = NewSession
      BY <2>2, NewSessionFresh DEF LoginOpen, OtpOpen, OpenSession, CreateSessionTokens
    <3>2. opened' = [opened EXCEPT ![s] = password[user[r]]] /\ UNCHANGED <<who, pc>>
      BY <2>2, <3>1 DEF LoginOpen, OtpOpen, OpenSession, CreateSessionTokens, calls
    <3> QED
      BY <2>2, <3>2 DEF LoginOpen, OtpOpen
  <2>3. CASE OtpUse(r)
    BY <2>3 DEF OtpUse, MarkAsUsed, vars
  <2>4. CASE ResetCommit(r)
    BY <2>4 DEF ResetCommit, MarkAsUsed, vars
  <2>5. CASE ResetRevoke(r)
    BY <2>5 DEF ResetRevoke, RevokeAllSelectTokens, Go, IInv, TypeOK
  <2>6. CASE ResetAnswer(r)
    BY <2>6 DEF ResetAnswer, vars
  <2>7. CASE RevokeFailed(r)
    BY <2>7 DEF RevokeFailed, vars
  <2> QED
    BY <1>3, <2>1, <2>2, <2>3, <2>4, <2>5, <2>6, <2>7 DEF FlowContinue
<1>4. ASSUME NEW r \in Requests, Crash(r) PROVE FlowPart'
  BY <1>4 DEF Crash, vars
<1>5. CASE TokenWorld
  BY <1>5 DEF TokenWorld, Expire, Deactivate, calls, flowVars
<1>6. ASSUME NEW u \in Users, NEW kind \in {"otp", "reset"}, IssueCode(u, kind) PROVE FlowPart'
  BY <1>6 DEF IssueCode, vars
<1>7. CASE \/ \E u \in Users : SetBarred(u)
           \/ \E c \in Codes : ExpireCode(c)
  BY <1>7 DEF SetBarred, ExpireCode, vars
<1>8. CASE UNCHANGED allVars
  BY <1>8 DEF allVars, vars, flowVars
<1>9. ASSUME NEW r \in Requests, ApiCall(r) \/ TokenStep(r) PROVE FlowPart'
  <2>1. UNCHANGED flowVars
    BY <1>9 DEF ApiCall, TokenStep
  <2>2. ASSUME NEW q \in Requests, flow[q] = "revoking", pc'[q] \in {"allTokens", "allSelect"}
        PROVE  who'[q] = who[q] /\ pc[q] \in {"allTokens", "allSelect"}
    <3>1. CASE q # r
      <4>1. pc'[q] = pc[q] /\ who'[q] = who[q]
        BY <1>9, <3>1, OthersUndisturbed
           DEF IInv, CallOK, ApiCall, TokenStep, Undisturbed, SameCall
      <4> QED
        BY <4>1, <2>2
    <3>2. CASE q = r /\ ApiCall(r)
      BY <3>2, <2>2 DEF ApiCall, Unused
    <3>3. CASE q = r /\ TokenStep(r)
      <4>1. CASE Abort(r)
        BY <4>1, <2>2, <3>3 DEF Abort, TypeOK, IInv
      <4>2. CASE Continue(r)
        BY <1>1, <4>2, <2>2, <3>3, AllSteps
           DEF AllStages, TypeOK, RevokeAllTokens, RevokeAllSelectSessions, RevokeAllSessions,
               RevokeAllCommit, Go
      <4> QED
        BY <3>3, <4>1, <4>2 DEF TokenStep
    <3> QED
      BY <1>9, <3>1, <3>2, <3>3
  <2> QED
    BY <2>1, <2>2 DEF flowVars
<1> QED
  BY <1>2, <1>3, <1>4, <1>5, <1>6, <1>7, <1>8, <1>9 DEF FlowNext

-----------------------------------------------------------------------------
\* Once begun, revokeAllUserSessions stays on its way to every session it is to
\* close: the session is closed when the call ends, or the call was aborted.
LEMMA RevokeAllProgress ==
  ASSUME IInv, TypeOK', NEW r \in Requests, TokenStep(r), FlowOK(r), flow[r] = "revoking",
         NEW s \in Sessions, Active(s), Active(s)', Covers(r, s)
  PROVE  Covers(r, s)'
<1>1. UNCHANGED flowVars /\ TypeOK
  BY DEF TokenStep, IInv
<1>2. user[r] = user'[r] /\ flow'[r] = "revoking" /\ (HasReset(r) => HasReset(r)')
  BY <1>1 DEF flowVars, HasReset
<1>3. CASE Abort(r)
  <2>1. pc'[r] = "aborted" /\ sessionUser' = sessionUser
    BY <1>1, <1>3 DEF Abort, Fail, Rollback, rows, TypeOK
  <2> QED
    BY <1>2, <2>1 DEF Covers
<1>4. CASE Continue(r)
  <2>1. pc[r] \in AllStages
    BY <1>1, <1>4, Settled DEF Covers, AllStages, Ends
  <2>2. CASE RevokeAllTokens(r)
    BY <1>1, <1>2, <2>2 DEF RevokeAllTokens, Go, rows, TypeOK, Covers
  <2>3. CASE RevokeAllSelectSessions(r)
    <3>1. pc[r] = "allSelect" /\ who[r] = user[r]
      BY <2>3 DEF RevokeAllSelectSessions, Go, FlowOK
    <3>2. s \in ActiveSessionsOf(who[r])
      BY <3>1 DEF Covers, ActiveSessionsOf
    <3> QED
      BY <1>1, <1>2, <2>3, <3>2 DEF RevokeAllSelectSessions, Go, rows, TypeOK, Covers
  <2>4. CASE RevokeAllSessions(r)
    BY <1>1, <1>2, <2>4 DEF RevokeAllSessions, RevokeActiveSessions, Go, rows, TypeOK, Covers
  <2>5. CASE RevokeAllCommit(r)
    BY <1>1, <2>5 DEF RevokeAllCommit, CommitRevocations, Go, TypeOK, Covers, Active
  <2> QED
    BY <1>1, <1>4, <2>1, <2>2, <2>3, <2>4, <2>5, AllSteps
<1> QED
  BY <1>3, <1>4 DEF TokenStep

\* Every step of a call moves its program counter.
LEMMA CallMoves ==
  ASSUME TypeOK, NEW r \in Requests, Begin(r) \/ Continue(r) \/ Abort(r)
  PROVE  pc' # pc
<1> USE DEF TypeOK, Go
<1>1. CASE Begin(r)
  BY <1>1 DEF Begin, RefreshUnknown, LogoutUnknown, RefreshReadToken, LogoutRevoked,
              LogoutReadToken, RevokeAllSelectTokens
<1>2. CASE Continue(r)
  <2>1. CASE RefreshReadSession(r) \/ RefreshSessionOver(r) \/ RefreshReuse(r) \/ RefreshExpired(r)
    BY <2>1 DEF RefreshReadSession, RefreshSessionOver, RefreshReuse, RefreshExpired
  <2>2. CASE RefreshRotate(r) \/ RefreshClash(r) \/ RefreshRevokeFamily(r) \/ RefreshRevokeSession(r)
    BY <2>2 DEF RefreshRotate, RefreshClash, RefreshRevokeFamily, RefreshRevokeSession
  <2>3. CASE RefreshThrowReuse(r) \/ RefreshThrowExpired(r) \/ RefreshUserInactive(r) \/ RefreshCommit(r)
    BY <2>3 DEF RefreshThrowReuse, RefreshThrowExpired, RefreshUserInactive, RefreshCommit
  <2>4. CASE LogoutRevokeToken(r) \/ LogoutRevokeSession(r) \/ LogoutCommit(r)
    BY <2>4 DEF LogoutRevokeToken, LogoutRevokeSession, LogoutCommit
  <2>5. CASE \/ RevokeAllTokens(r) \/ RevokeAllSelectSessions(r)
             \/ RevokeAllSessions(r) \/ RevokeAllCommit(r)
    BY <2>5 DEF RevokeAllTokens, RevokeAllSelectSessions, RevokeAllSessions, RevokeAllCommit
  <2> QED
    BY <1>2, <2>1, <2>2, <2>3, <2>4, <2>5 DEF Continue
<1>3. CASE Abort(r)
  BY <1>3 DEF Abort, Running, Stages
<1> QED
  BY <1>1, <1>2, <1>3

\* Sessions open only in CreateSessionTokens.
LEMMA OnlyCreateOpens ==
  ASSUME TypeOK, \A r \in Requests : LocksOK(r), [Next]_vars,
         ~\E u \in Users : CreateSessionTokens(u),
         NEW s \in Sessions, Active(s)'
  PROVE  Active(s) /\ sessionUser'[s] = sessionUser[s]
<1>1. Active(s)
  <2>1. CASE \E r \in Requests : RefreshCommit(r) \/ LogoutCommit(r) \/ RevokeAllCommit(r)
    BY <2>1 DEF RefreshCommit, LogoutCommit, RevokeAllCommit, CommitRevocations, Active, TypeOK
  <2>2. CASE ~\E r \in Requests : RefreshCommit(r) \/ LogoutCommit(r) \/ RevokeAllCommit(r)
    BY <2>2, OtherStepsKeepTokens DEF Active
  <2> QED
    BY <2>1, <2>2
<1> QED
  BY <1>1, RowsGrow DEF Grows, Opened, Active

\* A session stays covered through every step that is not its closing: a step of
\* the reset that covers it moves on, a step of another call leaves it alone.
LEMMA CoverKept ==
  ASSUME IInv, TypeOK', FlowPart, [FlowNext]_allVars,
         NEW s \in Sessions, Active(s), Active(s)', sessionUser'[s] = sessionUser[s],
         NEW q \in Requests, Covers(q, s)
  PROVE  Covers(q, s)'
<1> USE DEF FlowPart, FlowTypeOK, FlowGo, codeRows, Covers, HasReset, FlowStages
<1>1. TypeOK /\ LocksExclusive /\ (\A r \in Requests : LocksOK(r)) /\ flow[q] \notin {"idle", "reset"}
  BY DEF IInv, CallOK
<1>2. ASSUME NEW r \in Requests, FlowBegin(r) PROVE Covers(q, s)'
  BY <1>1, <1>2 DEF FlowBegin, LoginRead, OtpRead, ResetRead, ReadCode, Unused, vars
<1>3. ASSUME NEW r \in Requests, FlowContinue(r) PROVE Covers(q, s)'
  <2>1. CASE LoginCheck(r) \/ OtpCheck(r)
    BY <1>1, <2>1 DEF LoginCheck, OtpCheck, CheckMemberships, vars
  <2>2. CASE LoginOpen(r) \/ OtpOpen(r)
    <3>1. UNCHANGED calls /\ flow[r] \in {"loginVerified", "otpUsed"}
      BY <2>2 DEF LoginOpen, OtpOpen, OpenSession, CreateSessionTokens
    <3> QED
      BY <1>1, <2>2, <3>1 DEF LoginOpen, OtpOpen, calls
  <2>3. CASE OtpUse(r) \/ ResetCommit(r)
    BY <1>1, <2>3 DEF OtpUse, ResetCommit, MarkAsUsed, vars
  <2>4. CASE ResetRevoke(r)
    BY <1>1, <2>4 DEF ResetRevoke, RevokeAllSelectTokens, Go, TypeOK
  <2>5. CASE ResetAnswer(r) \/ RevokeFailed(r)
    BY <1>1, <2>5 DEF ResetAnswer, RevokeFailed, vars
  <2> QED
    BY <1>3, <2>1, <2>2, <2>3, <2>4, <2>5 DEF FlowContinue
<1>4. ASSUME NEW r \in Requests, Crash(r) PROVE Covers(q, s)'
  BY <1>1, <1>4 DEF Crash, vars
<1>5. CASE TokenWorld
  BY <1>1, <1>5 DEF TokenWorld, Expire, Deactivate, calls, flowVars
<1>6. ASSUME NEW u \in Users, NEW kind \in {"otp", "reset"}, IssueCode(u, kind) PROVE Covers(q, s)'
  BY <1>1, <1>6 DEF IssueCode, vars
<1>7. CASE \/ \E u \in Users : SetBarred(u)
           \/ \E c \in Codes : ExpireCode(c)
  BY <1>1, <1>7 DEF SetBarred, ExpireCode, vars
<1>8. CASE UNCHANGED allVars
  BY <1>8 DEF allVars, vars, flowVars
<1>9. ASSUME NEW r \in Requests, ApiCall(r) \/ TokenStep(r) PROVE Covers(q, s)'
  <2>1. UNCHANGED flowVars /\ (Begin(r) \/ Continue(r) \/ Abort(r))
    BY <1>9 DEF ApiCall, TokenStep
  <2>2. CASE q # r
    <3>1. SameCall(q)
      BY <1>1, <2>1, <2>2, OthersUndisturbed DEF Undisturbed
    <3> QED
      BY <2>1, <3>1 DEF SameCall, flowVars
  <2>3. CASE q = r /\ flow[q] = "revoking"
    <3>1. TokenStep(q)
      BY <1>9, <2>3 DEF ApiCall, Unused
    <3>2. FlowOK(q)
      OBVIOUS
    <3> QED
      BY <2>3, <3>1, <3>2, RevokeAllProgress
  <2>4. CASE q = r /\ flow[q] # "revoking"
    BY <2>1, <2>4 DEF flowVars
  <2> QED
    BY <2>2, <2>3, <2>4
<1> QED
  BY <1>2, <1>3, <1>4, <1>5, <1>6, <1>7, <1>8, <1>9 DEF FlowNext

\* An open session that was not opened just now was covered before, and still is.
LEMMA CoverEarlier ==
  ASSUME IInv, TypeOK', FlowPart, EarlierSessionsCovered, [FlowNext]_allVars,
         NEW s \in Sessions, Earlier(s)', Active(s), sessionUser'[s] = sessionUser[s],
         opened'[s] = opened[s], password'[sessionUser[s]] = password[sessionUser[s]]
  PROVE  \E q \in Requests : Covers(q, s)'
<1>1. PICK q \in Requests : Covers(q, s)
  BY DEF Earlier, EarlierSessionsCovered
<1> QED
  BY <1>1, CoverKept DEF Earlier

LEMMA CoveredStep ==
  ASSUME IInv, TypeOK', FlowPart, FlowPart', EarlierSessionsCovered, [FlowNext]_allVars
  PROVE  EarlierSessionsCovered'
<1> SUFFICES ASSUME NEW s \in Sessions, Earlier(s)'
             PROVE  \E r \in Requests : Covers(r, s)'
  BY DEF EarlierSessionsCovered
<1>1. TypeOK /\ (\A r \in Requests : LocksOK(r)) /\ [Next]_vars
  BY FlowStepIsTokenStep DEF IInv, CallOK, FlowPart
<1>2. ASSUME NEW r \in Requests, ResetCommit(r), user[r] = sessionUser[s]
      PROVE  Covers(r, s)'
  <2>1. flow'[r] = "resetDone" /\ user'[r] = sessionUser'[s]
    BY <1>2 DEF ResetCommit, FlowGo, FlowPart, FlowTypeOK, vars
  <2>2. HasReset(r)'
    BY <2>1 DEF FlowPart, FlowOK
  <2> QED
    BY <2>1, <2>2 DEF Covers
<1>3. ASSUME NEW r \in Requests, LoginOpen(r) \/ OtpOpen(r), s = NewSession
      PROVE  FALSE
  <2>1. sessionUser'[s] = user[r] /\ opened'[s] = password'[user[r]]
    BY <1>1, <1>3 DEF LoginOpen, OtpOpen, OpenSession, CreateSessionTokens, TypeOK, FlowPart, FlowTypeOK
  <2> QED
    BY <2>1 DEF Earlier
<1>4. CASE \E r \in Requests : ApiCall(r) \/ TokenStep(r)
  <2>1. Active(s) /\ sessionUser'[s] = sessionUser[s]
    <3>1. UNCHANGED flowVars /\ pc' # pc
      BY <1>1, <1>4, CallMoves DEF ApiCall, TokenStep
    <3>2. ~\E u \in Users : CreateSessionTokens(u)
      BY <3>1 DEF CreateSessionTokens, calls
    <3> QED
      BY <1>1, <3>2, OnlyCreateOpens DEF Earlier
  <2>2. UNCHANGED <<opened, password>>
    BY <1>4 DEF ApiCall, TokenStep, flowVars
  <2> QED
    BY <2>1, <2>2, CoverEarlier
<1>5. ASSUME NEW r \in Requests, LoginOpen(r) \/ OtpOpen(r), s # NewSession
      PROVE  \E q \in Requests : Covers(q, s)'
  <2>1. /\ sessionStatus'[s] = sessionStatus[s] /\ sessionUser'[s] = sessionUser[s]
        /\ opened'[s] = opened[s] /\ UNCHANGED password
    BY <1>1, <1>5 DEF LoginOpen, OtpOpen, OpenSession, CreateSessionTokens, TypeOK, FlowPart, FlowTypeOK
  <2> QED
    BY <2>1, CoverEarlier DEF Earlier, Active
<1>6. ASSUME NEW r \in Requests, ResetCommit(r), user[r] # sessionUser[s]
      PROVE  \E q \in Requests : Covers(q, s)'
  <2>1. UNCHANGED <<sessionStatus, sessionUser, opened>>
    BY <1>6 DEF ResetCommit, vars
  <2>2. password'[sessionUser[s]] = password[sessionUser[s]]
    BY <1>1, <1>6, <2>1 DEF ResetCommit, FlowPart, FlowTypeOK, TypeOK, Earlier, Active
  <2> QED
    BY <2>1, <2>2, CoverEarlier DEF Earlier, Active
<1>7. CASE UNCHANGED <<sessionStatus, sessionUser, opened, password>>
  BY <1>7, CoverEarlier DEF Earlier, Active
<1>8. ASSUME NEW r \in Requests, FlowContinue(r),
             ~(LoginOpen(r) \/ OtpOpen(r) \/ ResetCommit(r))
      PROVE  UNCHANGED <<sessionStatus, sessionUser, opened, password>>
  BY <1>8 DEF FlowContinue, LoginCheck, OtpCheck, CheckMemberships, OtpUse, ResetRevoke,
              RevokeAllSelectTokens, rows, ResetAnswer, RevokeFailed, vars
<1>9. ASSUME NEW r \in Requests, FlowBegin(r) \/ Crash(r)
      PROVE  UNCHANGED <<sessionStatus, sessionUser, opened, password>>
  BY <1>9 DEF FlowBegin, LoginRead, OtpRead, ResetRead, ReadCode, Crash, vars
<1>10. CASE \/ TokenWorld
            \/ \E u \in Users, kind \in {"otp", "reset"} : IssueCode(u, kind)
            \/ \E u \in Users : SetBarred(u)
            \/ \E c \in Codes : ExpireCode(c)
            \/ UNCHANGED allVars
  <2>1. UNCHANGED <<sessionStatus, sessionUser, opened, password>>
    BY <1>10 DEF TokenWorld, Expire, Deactivate, flowVars, IssueCode, SetBarred, ExpireCode, vars, allVars
  <2> QED
    BY <2>1, <1>7
<1> QED
  BY <1>2, <1>3, <1>4, <1>5, <1>6, <1>7, <1>8, <1>9, <1>10 DEF FlowNext

-----------------------------------------------------------------------------
LEMMA FlowInitInductive == FlowInit => FInv
<1> SUFFICES ASSUME FlowInit PROVE FInv
  OBVIOUS
<1>1. IInv
  BY InitInductive DEF FlowInit
<1>2. FlowTypeOK
  BY <1>1 DEF IInv, FlowInit, FlowTypeOK, FlowStages, FlowEnds
<1>3. SpentOK /\ \A r \in Requests : FlowOK(r)
  BY DEF FlowInit, SpentOK, SpentCodeIsRefused, FlowOK, FlowStages, CodeStages
<1>4. EarlierSessionsCovered
  BY DEF FlowInit, Init, EarlierSessionsCovered, Earlier, Active
<1> QED
  BY <1>1, <1>2, <1>3, <1>4 DEF FInv

LEMMA FlowNextInductive == FInv /\ [FlowNext]_allVars => FInv'
<1> SUFFICES ASSUME FInv, [FlowNext]_allVars PROVE FInv'
  OBVIOUS
<1>1. FlowPart
  BY DEF FInv, FlowPart
<1>2. IInv'
  BY FlowStepIsTokenStep, NextInductive DEF FInv
<1>3. FlowPart'
  BY <1>1, <1>2, TypesStep DEF FInv
<1>4. EarlierSessionsCovered'
  BY <1>1, <1>2, <1>3, CoveredStep DEF FInv, IInv
<1> QED
  BY <1>2, <1>3, <1>4 DEF FInv, FlowPart

LEMMA FlowInductive == FlowSpec => []FInv
  BY FlowInitInductive, FlowNextInductive, PTL DEF FlowSpec

\* Types and references hold in every state of the flows.
THEOREM FlowTypesCorrect == FlowSpec => []FlowTypeOK
<1>1. FInv => FlowTypeOK
  BY DEF FInv
<1> QED
  BY <1>1, FlowInductive, PTL

\* The flows only make the calls the token service offers, in its order: all that
\* is proved of Spec holds of the system with logins, codes and resets.
THEOREM FlowsImplementTokenService == FlowSpec => Spec
<1>1. FlowInit => Init
  BY DEF FlowInit
<1>2. FInv /\ [FlowNext]_allVars => [Next]_vars
  BY FlowStepIsTokenStep DEF FInv
<1> QED
  BY <1>1, <1>2, FlowInductive, PTL DEF FlowSpec, Spec

\* Under every interleaving of logins, refreshes and resets, an open session has
\* one live token.
COROLLARY FlowsKeepOneLiveToken == FlowSpec => []ActiveSessionHasOneLiveToken
  BY FlowsImplementTokenService, RotationKeepsOneLiveToken

\* Whatever codes and resets do meanwhile, a refresh that began on a dead token is not
\* granted.
COROLLARY FlowsRefuseDeadTokens == FlowSpec => []DeadTokenNeverRefreshes
  BY FlowsImplementTokenService, DeadTokensAreRefused

\* A logout of one session or of all has closed what it was to close, although logins
\* and resets of the same user open and close sessions meanwhile.
COROLLARY FlowsCloseOnLogout == FlowSpec => [](LogoutEndsSession /\ LogoutAllEndsSessions)
  BY FlowsImplementTokenService, LogoutCloses, LogoutAllCloses, PTL

\* A reset revokes the sessions by the same statements in the same order, so that no
\* flow waits in a circle with another.
COROLLARY FlowsNeverDeadlock == FlowSpec => []NoCircleOfWaits
  BY FlowsImplementTokenService, TokenServiceNeverDeadlocks

\* Logins, codes and resets open, hand on and close families of tokens, and do nothing
\* else to them.
COROLLARY FlowsImplementFamilies == FlowSpec => ImplementsFamilies
  BY FlowsImplementTokenService, ServiceImplementsFamilies

\* A session opened before a password reset is open only while a reset of that
\* user has not answered: the flow stopped or failed between its two transactions.
THEOREM ResetsCloseSessions == FlowSpec => []ResetEndsEarlierSessions
<1>1. FInv => ResetEndsEarlierSessions
  <2> SUFFICES ASSUME FInv, NEW s \in Sessions, Active(s), ~Unfinished(sessionUser[s])
               PROVE  opened[s] = password[sessionUser[s]]
    BY DEF ResetEndsEarlierSessions
  <2>1. ASSUME NEW r \in Requests, Covers(r, s) PROVE FALSE
    BY <2>1, CodeAssumption DEF Covers, HasReset, Unfinished
  <2> QED
    BY <2>1 DEF FInv, EarlierSessionsCovered, Earlier
<1> QED
  BY <1>1, FlowInductive, PTL

\* A code that opened a session or reset a password is refused to every call that
\* begins afterwards.
THEOREM SpentCodesAreRefused == FlowSpec => []SpentCodeIsRefused
<1>1. FInv => SpentCodeIsRefused
  BY DEF FInv, SpentOK
<1> QED
  BY <1>1, FlowInductive, PTL
=============================================================================
