------------------------ MODULE TokenRefinementProofs ------------------------
(***************************************************************************)
(* The token service implements TokenFamilies: each commit that changes    *)
(* rows is one abstract step, every other step leaves the families alone.  *)
(***************************************************************************)
EXTENDS TokenRefinement, TokenServiceProofs

Abstract == <<Holder, Spent>>

\* The holder of a session, read off its rows.
LEMMA HolderOf ==
  ASSUME TypeOK, ActiveSessionHasOneLiveToken, NEW s \in Sessions
  PROVE  /\ Active(s) => Holder[s] \in Tokens /\ Family(s) = {Holder[s]}
         /\ sessionStatus[s] = "ABSENT" => Holder[s] = Unopened
         /\ sessionStatus[s] = "REVOKED" => Holder[s] = Closed
         /\ Holder[s] \in Tokens <=> Active(s)
         /\ Holder[s] = Closed <=> sessionStatus[s] = "REVOKED"
<1>1. CASE Active(s)
  <2>1. PICK t \in Tokens : Family(s) = {t}
    BY <1>1 DEF ActiveSessionHasOneLiveToken
  <2>2. Holder[s] = CHOOSE u \in Tokens : Family(s) = {u}
    BY <1>1 DEF Holder, Active
  <2>3. Holder[s] \in Tokens /\ Family(s) = {Holder[s]}
    BY <2>1, <2>2
  <2> QED
    BY <1>1, <2>3, MarkAssumption DEF Active
<1>2. CASE sessionStatus[s] = "ABSENT"
  BY <1>2, MarkAssumption DEF Holder, Active
<1>3. CASE sessionStatus[s] = "REVOKED"
  BY <1>3, MarkAssumption DEF Holder, Active
<1> QED
  BY <1>1, <1>2, <1>3 DEF TypeOK, Active

\* The same in the next state.
LEMMA HolderOfNext ==
  ASSUME TypeOK', ActiveSessionHasOneLiveToken', NEW s \in Sessions
  PROVE  /\ Active(s)' => Holder'[s] \in Tokens /\ Family(s)' = {Holder'[s]}
         /\ sessionStatus'[s] = "ABSENT" => Holder'[s] = Unopened
         /\ sessionStatus'[s] = "REVOKED" => Holder'[s] = Closed
         /\ Holder'[s] \in Tokens <=> Active(s)'
         /\ Holder'[s] = Closed <=> sessionStatus'[s] = "REVOKED"
<1>1. CASE Active(s)'
  <2>1. PICK t \in Tokens : (Family(s) = {t})'
    BY <1>1 DEF ActiveSessionHasOneLiveToken
  <2>2. Holder'[s] = CHOOSE u \in Tokens : (Family(s) = {u})'
    BY <1>1 DEF Holder, Active
  <2>3. Holder'[s] \in Tokens /\ Family(s)' = {Holder'[s]}
    BY <2>1, <2>2
  <2> QED
    BY <1>1, <2>3, MarkAssumption DEF Active
<1>2. CASE sessionStatus'[s] = "ABSENT"
  BY <1>2, MarkAssumption DEF Holder, Active
<1>3. CASE sessionStatus'[s] = "REVOKED"
  BY <1>3, MarkAssumption DEF Holder, Active
<1> QED
  BY <1>1, <1>2, <1>3 DEF TypeOK, Active

\* A row that does not exist is neither holder nor spent.
LEMMA AbsentIsFresh ==
  ASSUME TypeOK, ActiveSessionHasOneLiveToken, NEW t \in Tokens, tokenStatus[t] = "ABSENT"
  PROVE  Families!Fresh(t)
<1>1. \A s \in Sessions : Holder[s] # t
  <2> SUFFICES ASSUME NEW s \in Sessions, Holder[s] = t PROVE FALSE
    OBVIOUS
  <2> QED
    BY HolderOf DEF Family, Live
<1>2. t \notin Spent
  BY DEF Spent
<1> QED
  BY <1>1, <1>2 DEF Families!Fresh, Families!HolderSet

\* Two functions on the sessions that agree everywhere are equal.
LEMMA HolderIsFunction == Holder = [s \in Sessions |-> Holder[s]]
  BY DEF Holder

LEMMA HolderIsFunctionNext == Holder' = [s \in Sessions |-> Holder'[s]]
  BY DEF Holder

LEMMA CreateOpens ==
  ASSUME IInv, IInv', NEW u \in Users, CreateSessionTokens(u)
  PROVE  Families!OpenSession
<1>1. TypeOK /\ TypeOK' /\ ActiveSessionHasOneLiveToken /\ ActiveSessionHasOneLiveToken'
  BY DEF IInv
<1>2. PICK s \in Sessions, t \in Tokens : s = NewSession /\ t = NewToken
  BY NewTokenFresh, NewSessionFresh DEF CreateSessionTokens
<1>3. /\ sessionStatus[s] = "ABSENT" /\ tokenStatus[t] = "ABSENT"
      /\ sessionStatus' = [sessionStatus EXCEPT ![s] = "ACTIVE"]
      /\ tokenStatus' = [tokenStatus EXCEPT ![t] = "LIVE"]
      /\ tokenSession' = [tokenSession EXCEPT ![t] = s]
  BY <1>2, NewTokenFresh, NewSessionFresh DEF CreateSessionTokens
<1> HIDE DEF NewSession, NewToken
<1>4. Holder[s] = Unopened /\ Families!Fresh(t)
  BY <1>1, <1>3, HolderOf, AbsentIsFresh
<1>5. ASSUME NEW z \in Sessions, z # s PROVE Holder'[z] = Holder[z]
  <2>1. sessionStatus'[z] = sessionStatus[z] /\ Family(z)' = Family(z)
    BY <1>1, <1>3, <1>5 DEF TypeOK, Family, Live
  <2> QED
    BY <1>5, <2>1 DEF Holder
<1>6. Holder'[s] = t
  <2>1. Active(s)' /\ t \in Family(s)'
    BY <1>1, <1>3 DEF TypeOK, Active, Family, Live
  <2> QED
    BY <1>1, <2>1, HolderOfNext
<1>7. Holder' = [Holder EXCEPT ![s] = t]
  BY <1>5, <1>6, HolderIsFunction, HolderIsFunctionNext
<1>8. Spent' = Spent
  BY <1>1, <1>3 DEF Spent, Live, Active, TypeOK
<1> QED
  BY <1>4, <1>7, <1>8 DEF Families!OpenSession

\* The commit of a refresh moves an open session to a fresh token; that of a
\* refresh overtaken by a logout issues a token that is spent at once.
LEMMA RefreshRotates ==
  ASSUME IInv, IInv', NEW r \in Requests, RefreshCommit(r)
  PROVE  Families!Rotate \/ Families!IssueTooLate
<1>1. TypeOK /\ TypeOK' /\ ActiveSessionHasOneLiveToken /\ ActiveSessionHasOneLiveToken'
  BY DEF IInv
<1>2. PICK t \in Tokens, o \in Tokens, s \in Sessions :
        t = NewToken /\ o = tok[r] /\ s = SessionOf(r)
  BY <1>1, NewTokenFresh
     DEF RefreshCommit, Go, IInv, CallOK, LocksOK, Holding, Issued, TypeOK, SessionOf
<1>3. /\ revT[r] = {o} /\ Live(o) /\ tokenSession[o] = s
      /\ tokenStatus[t] = "ABSENT"
  BY <1>2, NewTokenFresh DEF RefreshCommit, Go, IInv, CallOK, LocksOK, SessionOf
<1>4. /\ tokenStatus' = [x \in Tokens |-> IF x = t THEN "LIVE"
                                          ELSE IF x = o THEN "REVOKED" ELSE tokenStatus[x]]
      /\ tokenSession' = [tokenSession EXCEPT ![t] = s]
      /\ sessionStatus' = sessionStatus
  BY <1>2, <1>3 DEF RefreshCommit
<1>5. sessionStatus[s] \in {"ACTIVE", "REVOKED"}
  BY <1>1, <1>3 DEF TypeOK, Live
<1>6. Families!Fresh(t)
  BY <1>1, <1>3, AbsentIsFresh
<1>7. ASSUME NEW z \in Sessions, z # s PROVE Holder'[z] = Holder[z]
  <2>1. Family(z)' = Family(z)
    BY <1>1, <1>3, <1>4, <1>7 DEF TypeOK, Family, Live
  <2> QED
    BY <1>4, <2>1 DEF Holder
<1>8. CASE Active(s)
  <2>1. Family(s) = {o} /\ Holder[s] = o
    <3>1. o \in Family(s)
      BY <1>3 DEF Family
    <3> QED
      BY <1>1, <1>8, <3>1, HolderOf
  <2>2. Holder'[s] = t
    <3>1. Active(s)' /\ t \in Family(s)'
      BY <1>1, <1>4, <1>8 DEF TypeOK, Active, Family, Live
    <3> QED
      BY <1>1, <3>1, HolderOfNext
  <2>3. Holder' = [Holder EXCEPT ![s] = t]
    BY <1>7, <2>2, HolderIsFunction, HolderIsFunctionNext
  <2>4. Spent' = Spent \cup {o}
    BY <1>1, <1>3, <1>4, <1>8 DEF Spent, Live, Active, TypeOK
  <2> QED
    BY <1>6, <2>1, <2>3, <2>4 DEF Families!Rotate
<1>9. CASE ~Active(s)
  <2>1. Holder'[s] = Holder[s] /\ Holder[s] = Closed
    BY <1>4, <1>5, <1>9 DEF Holder, Active
  <2>2. Holder' = Holder
    BY <1>7, <2>1, HolderIsFunction, HolderIsFunctionNext
  <2>3. Spent' = Spent \cup {t}
    BY <1>1, <1>3, <1>4, <1>9 DEF Spent, Live, Active, TypeOK
  <2> QED
    BY <1>6, <2>1, <2>2, <2>3 DEF Families!IssueTooLate
<1> QED
  BY <1>8, <1>9

\* A commit of revocations closes the sessions it found open, if any.
LEMMA RevocationCloses ==
  ASSUME IInv, IInv', NEW r \in Requests, CommitReady(r), CommitRevocations(r)
  PROVE  Families!Close \/ UNCHANGED Abstract
<1>1. TypeOK /\ TypeOK' /\ ActiveSessionHasOneLiveToken /\ ActiveSessionHasOneLiveToken'
  BY DEF IInv
<1>2. /\ tokenStatus' = [t \in Tokens |-> IF t \in revT[r] THEN "REVOKED" ELSE tokenStatus[t]]
      /\ sessionStatus' = [s \in Sessions |-> IF s \in revS[r] THEN "REVOKED"
                                              ELSE sessionStatus[s]]
      /\ tokenSession' = tokenSession
  BY DEF CommitRevocations
<1>3. revS[r] \subseteq Opened /\ revT[r] \subseteq Issued
  BY DEF IInv, CallOK, LocksOK
<1> DEFINE S == {s \in revS[r] : Active(s)}
<1>4. S \subseteq {s \in Sessions : Holder[s] \in Tokens}
  BY <1>1, <1>3, HolderOf DEF Opened
<1>5. ASSUME NEW s \in Sessions, s \notin S PROVE Holder'[s] = Holder[s]
  <2>1. CASE Active(s)
    <3>1. Family(s)' = Family(s)
      BY <1>1, <1>2, <1>5, <2>1 DEF Family, Live, CommitReady, Over, Active, TypeOK
    <3> QED
      BY <1>2, <1>5, <2>1, <3>1 DEF Holder, Active
  <2>2. CASE ~Active(s)
    BY <1>1, <1>2, <1>3, <1>5, <2>2, MarkAssumption DEF Holder, Active, Opened, TypeOK
  <2> QED
    BY <2>1, <2>2
<1>6. ASSUME NEW s \in S PROVE Holder'[s] = Closed
  BY <1>2, <1>3, <1>6 DEF Holder, Opened
<1>7. Holder' = [s \in Sessions |-> IF s \in S THEN Closed ELSE Holder[s]]
  BY <1>5, <1>6, HolderIsFunctionNext
<1>8. Spent' = Spent \cup {Holder[s] : s \in S}
  <2>1. ASSUME NEW t \in Tokens, t \in Spent' PROVE t \in Spent \cup {Holder[s] : s \in S}
    <3>1. tokenStatus[t] # "ABSENT" /\ tokenSession[t] \in Sessions
      BY <1>1, <1>2, <1>3, <2>1 DEF Spent, Issued, TypeOK
    <3>2. CASE Live(t) /\ Active(tokenSession[t])
      <4>1. tokenSession[t] \in S
        BY <1>1, <1>2, <2>1, <3>1, <3>2 DEF Spent, Live, Active, CommitReady, Over, TypeOK
      <4>2. Holder[tokenSession[t]] = t
        <5>1. t \in Family(tokenSession[t])
          BY <3>2 DEF Family
        <5> QED
          BY <1>1, <3>1, <3>2, <5>1, HolderOf
      <4> QED
        BY <4>1, <4>2
    <3> QED
      BY <3>1, <3>2 DEF Spent
  <2>2. ASSUME NEW t \in Tokens, t \in Spent PROVE t \in Spent'
    BY <1>1, <1>2, <2>2 DEF Spent, Live, Active, TypeOK
  <2>3. ASSUME NEW s \in S PROVE Holder[s] \in Spent'
    <3>1. s \in Sessions /\ Holder[s] \in Family(s)
      BY <1>1, <1>3, HolderOf DEF Opened
    <3> QED
      BY <1>1, <1>2, <3>1 DEF Spent, Family, Live, Active, TypeOK
  <2>4. Spent \subseteq Tokens /\ Spent' \subseteq Tokens
    BY DEF Spent
  <2> QED
    BY <2>1, <2>2, <2>3, <2>4
<1>9. CASE S = {}
  <2>1. Holder' = Holder
    BY <1>7, <1>9, HolderIsFunction
  <2>2. Spent' = Spent
    BY <1>8, <1>9
  <2> QED
    BY <2>1, <2>2 DEF Abstract
<1>10. CASE S # {}
  BY <1>4, <1>7, <1>8, <1>10 DEF Families!Close
<1> QED
  BY <1>9, <1>10

\* Every step of the service is a step of the families, or none.
LEMMA StepImplements ==
  ASSUME IInv, IInv', [Next]_vars
  PROVE  [Families!Next]_Families!families
<1> USE DEF Families!Next, Families!families
<1>1. ASSUME NEW u \in Users, CreateSessionTokens(u) PROVE Families!Next
  BY <1>1, CreateOpens
<1>2. ASSUME NEW r \in Requests, RefreshCommit(r) PROVE Families!Next
  BY <1>2, RefreshRotates
<1>3. ASSUME NEW r \in Requests, LogoutCommit(r) \/ RevokeAllCommit(r)
      PROVE  Families!Next \/ UNCHANGED Abstract
  <2>1. CommitReady(r)
    BY <1>3 DEF IInv, CallOK, LogoutOK, LogoutAllOK, LogoutCommit, RevokeAllCommit, Go, CommitReady
  <2> QED
    BY <1>3, <2>1, RevocationCloses DEF LogoutCommit, RevokeAllCommit
<1>4. CASE /\ ~\E u \in Users : CreateSessionTokens(u)
           /\ ~\E r \in Requests : RefreshCommit(r) \/ LogoutCommit(r) \/ RevokeAllCommit(r)
  <2>1. UNCHANGED <<sessionStatus, tokenStatus, tokenSession>>
    BY <1>4, OtherStepsKeepTokens
  <2> QED
    BY <2>1 DEF Holder, Spent, Family, Live, Active
<1> QED
  BY <1>1, <1>2, <1>3, <1>4 DEF Abstract

\* The service, with its transactions, locks, failures and late calls, behaves
\* as token families do, for every number of sessions, tokens and calls.
THEOREM ServiceImplementsFamilies == Spec => ImplementsFamilies
<1>1. Init => Families!Init
  BY MarkAssumption DEF Init, Families!Init, Holder, Spent
<1>2. IInv /\ IInv' /\ [Next]_vars => [Families!Next]_Families!families
  BY StepImplements
<1> QED
  BY <1>1, <1>2, Inductive, PTL DEF Spec, ImplementsFamilies, Families!Spec
=============================================================================
