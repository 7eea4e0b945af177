--------------------------- MODULE MailQueueProofs ---------------------------
(***************************************************************************)
(* How often a mail leaves, and what the audit log says of it, for any     *)
(* number of jobs, attempts and stalls.  Steps touch one job, so the       *)
(* invariant is one formula about a job.                                   *)
(***************************************************************************)
EXTENDS MailQueue, TLAPS

\* The last mail of a job needs no fault, and no attempt beyond the present one.
Unfailed == {"accepted", "recorded", "completed"}
Tried == Unfailed \cup {"refused"}
One(b) == IF b THEN 1 ELSE 0

JobOK(j) ==
  /\ asks[j] = "no" => job[j] = "none"
  /\ asks[j] \in {"add", "record", "done"} => mail[j] \in Mails
  /\ job[j] = "none" => sent[j] = 0
  /\ job[j] # "failed" => attempts[j] < Attempts /\ stalls[j] <= MaxStalls
  /\ job[j] = "failed" => attempts[j] + stalls[j] <= Attempts + MaxStalls
  /\ sent[j] <= attempts[j] + stalls[j] + One(job[j] \in Tried)
  /\ sent[j] <= faults[j] + One(job[j] \in Unfailed)
  /\ logged[j] + One(job[j] = "accepted") <= sent[j]
  /\ job[j] \in {"recorded", "completed"} => logged[j] > 0

MailInv == MailTypeOK /\ \A j \in Jobs : JobOK(j)

LEMMA MailInvInit == MailInit => MailInv
<1> SUFFICES ASSUME MailInit PROVE MailInv
  OBVIOUS
<1> USE MailAssumption
<1>1. MailTypeOK
  BY DEF MailInit, MailTypeOK
<1>2. ASSUME NEW j \in Jobs PROVE JobOK(j)
  <2>1. /\ asks[j] = "no" /\ job[j] = "none" /\ attempts[j] = 0 /\ stalls[j] = 0
        /\ sent[j] = 0 /\ logged[j] = 0 /\ faults[j] = 0
    BY DEF MailInit
  <2> QED
    BY <2>1 DEF JobOK, One, Tried, Unfailed
<1> QED
  BY <1>1, <1>2 DEF MailInv

\* The jobs a step does not name are as they were.
Alike(j) == /\ asks'[j] = asks[j] /\ mail'[j] = mail[j] /\ job'[j] = job[j]
            /\ attempts'[j] = attempts[j] /\ stalls'[j] = stalls[j]
            /\ sent'[j] = sent[j] /\ logged'[j] = logged[j] /\ faults'[j] = faults[j]

LEMMA OthersStay ==
  ASSUME MailInv, MailTypeOK', NEW j \in Jobs, JobOK(j)',
         \A i \in Jobs \ {j} : Alike(i)
  PROVE  MailInv'
<1> SUFFICES ASSUME NEW i \in Jobs \ {j} PROVE JobOK(i)'
  BY DEF MailInv
<1> QED
  BY DEF MailInv, Alike, JobOK, One

LEMMA AskForStep ==
  ASSUME MailInv, NEW j \in Jobs, NEW m \in Mails, AskFor(j, m)
  PROVE  MailInv'
<1>1. MailTypeOK'
  BY DEF MailInv, MailTypeOK, AskFor, Asks, queue
<1>2. JobOK(j)'
  BY DEF MailInv, MailTypeOK, JobOK, AskFor, Asks, queue, One
<1>3. \A i \in Jobs \ {j} : Alike(i)
  BY DEF MailInv, MailTypeOK, AskFor, Asks, queue, Alike
<1> QED
  BY <1>1, <1>2, <1>3, OthersStay

LEMMA EnqueueStep ==
  ASSUME MailInv, NEW j \in Jobs, EnqueueEmail(j)
  PROVE  MailInv'
<1> USE DEF EnqueueEmail, EnqueueWelcomeEmail, EnqueueInvitationEmail, EnqueuePasswordResetEmail,
            EnqueueLoginOtpEmail, Enqueue
<1>1. AddJob(j) \/ AddFails(j) \/ RecordQueued(j)
  OBVIOUS
<1> HIDE DEF EnqueueEmail, EnqueueWelcomeEmail, EnqueueInvitationEmail, EnqueuePasswordResetEmail,
             EnqueueLoginOtpEmail, Enqueue
<1> USE DEF AddJob, AddFails, RecordQueued, Asks, Turns, queue
<1>2. MailTypeOK'
  BY <1>1 DEF MailInv, MailTypeOK, Running, InHandler, Settled
<1>3. JobOK(j)'
  BY <1>1 DEF MailInv, MailTypeOK, JobOK, One, Tried, Unfailed
<1>4. \A i \in Jobs \ {j} : Alike(i)
  BY <1>1 DEF MailInv, MailTypeOK, Alike
<1> QED
  BY <1>2, <1>3, <1>4, OthersStay

LEMMA HandlerStep ==
  ASSUME MailInv, NEW j \in Jobs, Process(j)
  PROVE  MailInv'
<1>1. /\ SendMail(j) \/ SendMailThrows(j) \/ RecordSent(j) \/ RecordSentThrows(j) \/ Throw(j)
      /\ UNCHANGED <<asks, mail>>
  BY DEF Process, HandleWelcomeEmail, HandleInvitationEmail, HandlePasswordResetEmail,
         HandleLoginOtpEmail, Handle
<1> USE MailAssumption
<1> USE DEF SendMail, SendMailThrows, RecordSent, RecordSentThrows, Throw, Turns, Plus
<1>2. MailTypeOK'
  BY <1>1 DEF MailInv, MailTypeOK, Running, InHandler, Settled
<1>3. JobOK(j)'
  <2>1. CASE SendMail(j)
    BY <1>1, <2>1 DEF MailInv, MailTypeOK, JobOK, One, Tried, Unfailed
  <2>2. CASE SendMailThrows(j)
    BY <1>1, <2>2 DEF MailInv, MailTypeOK, JobOK, One, Tried, Unfailed
  <2>3. CASE RecordSent(j)
    BY <1>1, <2>3 DEF MailInv, MailTypeOK, JobOK, One, Tried, Unfailed
  <2>4. CASE RecordSentThrows(j)
    BY <1>1, <2>4 DEF MailInv, MailTypeOK, JobOK, One, Tried, Unfailed
  <2>5. CASE Throw(j)
    BY <1>1, <2>5 DEF MailInv, MailTypeOK, JobOK, One, Tried, Unfailed
  <2> QED
    BY <1>1, <2>1, <2>2, <2>3, <2>4, <2>5
<1>4. \A i \in Jobs \ {j} : Alike(i)
  BY <1>1 DEF MailInv, MailTypeOK, Alike
<1> QED
  BY <1>2, <1>3, <1>4, OthersStay

LEMMA BrokerStep ==
  ASSUME MailInv, NEW j \in Jobs, Take(j) \/ Wake(j) \/ Complete(j) \/ Stall(j)
  PROVE  MailInv'
<1> USE MailAssumption
<1> USE DEF Take, Wake, Complete, Stall, Turns, Plus, Running, InHandler
<1>1. MailTypeOK'
  BY DEF MailInv, MailTypeOK, Settled
<1>2. JobOK(j)'
  <2>1. CASE Take(j) \/ Wake(j) \/ Complete(j)
    BY <2>1 DEF MailInv, MailTypeOK, JobOK, One, Tried, Unfailed
  <2>2. CASE Stall(j)
    BY <2>2 DEF MailInv, MailTypeOK, JobOK, One, Tried, Unfailed
  <2> QED
    BY <2>1, <2>2
<1>3. \A i \in Jobs \ {j} : Alike(i)
  BY DEF MailInv, MailTypeOK, Alike
<1> QED
  BY <1>1, <1>2, <1>3, OthersStay

LEMMA MailInvNext == MailInv /\ [MailNext]_mailVars => MailInv'
<1> SUFFICES ASSUME MailInv, [MailNext]_mailVars PROVE MailInv'
  OBVIOUS
<1>1. CASE UNCHANGED mailVars
  BY <1>1 DEF MailInv, MailTypeOK, JobOK, One, mailVars
<1>2. ASSUME NEW j \in Jobs, EnqueueEmail(j) PROVE MailInv'
  BY <1>2, EnqueueStep
<1>3. ASSUME NEW j \in Jobs, Work(j) \/ Stall(j) PROVE MailInv'
  BY <1>3, HandlerStep, BrokerStep DEF Work
<1>4. ASSUME NEW j \in Jobs, NEW m \in Mails, AskFor(j, m) PROVE MailInv'
  BY <1>4, AskForStep
<1> QED
  BY <1>1, <1>2, <1>3, <1>4 DEF MailNext, MailStep

-----------------------------------------------------------------------------
\* What the invariant says of the mails of a job.
LEMMA MailInvImplies ==
  MailInv => MailTypeOK /\ MailsAreBounded /\ CopiesAreOwedToFaults /\ LogsAreTrue
<1> SUFFICES ASSUME MailInv, NEW j \in Jobs
             PROVE  /\ sent[j] <= Attempts + MaxStalls
                    /\ sent[j] <= 1 + faults[j]
                    /\ logged[j] <= sent[j]
                    /\ job[j] = "completed" => logged[j] > 0
  BY DEF MailInv, MailsAreBounded, CopiesAreOwedToFaults, LogsAreTrue
<1> QED
  BY MailAssumption DEF MailInv, MailTypeOK, JobOK, One, Tried, Unfailed

LEMMA MailInvHolds == MailSpec => []MailInv
<1>1. MailInit => MailInv
  BY MailInvInit
<1>2. MailInv /\ [MailNext]_mailVars => MailInv'
  BY MailInvNext
<1> QED
  BY <1>1, <1>2, PTL DEF MailSpec

\* The queue and its processor alone: no job sends more mails than it may be started,
\* the attempts of queue.add and one more for each stall that is forgiven.
THEOREM MailsBounded == MailSpec => [](MailTypeOK /\ MailsAreBounded)
BY MailInvHolds, MailInvImplies, PTL

\* sendEmail of the processor: a mail that the server has refused and a record that was
\* written lead to no second copy; each one is owed to a lost answer, record or worker.
THEOREM CopiesNeedFaults == MailSpec => []CopiesAreOwedToFaults
BY MailInvHolds, MailInvImplies, PTL

\* EMAIL_SENT is recorded after the mail has left, and no job completes without it.
THEOREM LogsStayTrue == MailSpec => []LogsAreTrue
BY MailInvHolds, MailInvImplies, PTL
=============================================================================
