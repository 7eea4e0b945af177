------------------------------ MODULE MailQueue ------------------------------
(***************************************************************************)
(* The mails of the application (mail-queue.service.ts, mail.processor.ts).*)
(* A service asks for a mail; MailQueueService adds a job to a BullMQ      *)
(* queue and records EMAIL_QUEUED, and swallows what fails.  MailProcessor *)
(* takes jobs from the queue, sends the mail and records EMAIL_SENT, or    *)
(* records EMAIL_FAILED and throws.  BullMQ tries a job that threw again,  *)
(* after a delay, until it has failed Attempts times, and starts a job     *)
(* whose worker has stopped again, MaxStalls times.                        *)
(***************************************************************************)
EXTENDS Naturals

CONSTANTS Jobs,
          Attempts,    \* of a job, as the options of queue.add have it
          MaxStalls,   \* maxStalledCount of the worker
          NoMail

Mails == {"welcome-email", "invitation-email", "password-reset-email", "login-otp-email"}

ASSUME MailAssumption == /\ Attempts \in Nat \ {0} /\ MaxStalls \in Nat
                         /\ NoMail \notin Mails

VARIABLES
  asks,      \* where the service that asks for the mail of the job is
  mail,      \* the name of the job
  job,       \* the state of the job in the queue, or in its handler
  attempts, stalls,   \* how often the job has thrown, and its worker stopped
  sent,      \* mails that have left
  logged,    \* records of EMAIL_SENT
  faults     \* history: losses of an answer, of a record or of a worker

queue == <<job, attempts, stalls, sent, logged, faults>>
mailVars == <<asks, mail, job, attempts, stalls, sent, logged, faults>>

InHandler == {"active", "accepted", "refused"}
Running == InHandler \cup {"recorded"}   \* returned, and not completed yet
Settled == {"completed", "failed"}

MailInit == /\ asks = [j \in Jobs |-> "no"]
            /\ mail = [j \in Jobs |-> NoMail]
            /\ job = [j \in Jobs |-> "none"]
            /\ attempts = [j \in Jobs |-> 0]
            /\ stalls = [j \in Jobs |-> 0]
            /\ sent = [j \in Jobs |-> 0]
            /\ logged = [j \in Jobs |-> 0]
            /\ faults = [j \in Jobs |-> 0]

Asks(j, from, to) == asks[j] = from /\ asks' = [asks EXCEPT ![j] = to]
Turns(j, from, to) == job[j] = from /\ job' = [job EXCEPT ![j] = to]
Plus(f, j) == [f EXCEPT ![j] = @ + 1]

-----------------------------------------------------------------------------
\* The service that asks

AskFor(j, m) == /\ Asks(j, "no", "add") /\ mail' = [mail EXCEPT ![j] = m]
                /\ UNCHANGED queue

AddJob(j) == /\ Asks(j, "add", "record") /\ Turns(j, "none", "waiting")
             /\ UNCHANGED <<mail, attempts, stalls, sent, logged, faults>>

\* Redis does not answer, before or after it has taken the job, or the process stops.
AddFails(j) == /\ Asks(j, "add", "done")
               /\ UNCHANGED job \/ Turns(j, "none", "waiting")
               /\ UNCHANGED <<mail, attempts, stalls, sent, logged, faults>>

\* EMAIL_QUEUED is recorded, or that fails.
RecordQueued(j) == Asks(j, "record", "done") /\ UNCHANGED <<mail, queue>>

Enqueue(j, m) == mail[j] = m /\ (AddJob(j) \/ AddFails(j) \/ RecordQueued(j))

EnqueueWelcomeEmail(j) == Enqueue(j, "welcome-email")
EnqueueInvitationEmail(j) == Enqueue(j, "invitation-email")
EnqueuePasswordResetEmail(j) == Enqueue(j, "password-reset-email")
EnqueueLoginOtpEmail(j) == Enqueue(j, "login-otp-email")

EnqueueEmail(j) == \/ EnqueueWelcomeEmail(j) \/ EnqueueInvitationEmail(j)
                   \/ EnqueuePasswordResetEmail(j) \/ EnqueueLoginOtpEmail(j)

-----------------------------------------------------------------------------
\* The handler of a job

\* Variant: sendEmail catches the error and returns true.
SendMailSwallows(j) == /\ Turns(j, "active", "accepted")
                       /\ UNCHANGED <<attempts, stalls, sent, logged, faults>>

\* The server takes the mail.
SendMail(j) == /\ Turns(j, "active", "accepted")
               /\ sent' = Plus(sent, j)
               /\ UNCHANGED <<attempts, stalls, logged, faults>>

\* sendMail throws: the mail has not left, or it has and the answer was lost.
SendMailThrows(j) == /\ Turns(j, "active", "refused")
                     /\ \/ UNCHANGED <<sent, faults>>
                        \/ sent' = Plus(sent, j) /\ faults' = Plus(faults, j)
                     /\ UNCHANGED <<attempts, stalls, logged>>

\* Variant: the handler goes on to its throw.
RecordSentAndThrow(j) == /\ Turns(j, "accepted", "refused")
                         /\ logged' = Plus(logged, j)
                         /\ UNCHANGED <<attempts, stalls, sent, faults>>

RecordSent(j) == /\ Turns(j, "accepted", "recorded")
                 /\ logged' = Plus(logged, j)
                 /\ UNCHANGED <<attempts, stalls, sent, faults>>

\* The record throws inside the same try: the mail counts as one that was not sent.
RecordSentThrows(j) == /\ Turns(j, "accepted", "refused")
                       /\ faults' = Plus(faults, j)
                       /\ UNCHANGED <<attempts, stalls, sent, logged>>

\* Variant: one attempt more.
ThrowOnceMore(j) ==
  /\ Turns(j, "refused", IF attempts[j] < Attempts THEN "delayed" ELSE "failed")
  /\ attempts' = Plus(attempts, j)
  /\ UNCHANGED <<stalls, sent, logged, faults>>

\* EMAIL_FAILED is recorded and the error thrown on, or the record throws.
Throw(j) == /\ Turns(j, "refused", IF attempts[j] + 1 < Attempts THEN "delayed" ELSE "failed")
            /\ attempts' = Plus(attempts, j)
            /\ UNCHANGED <<stalls, sent, logged, faults>>

Handle(j, m) == /\ mail[j] = m
                /\ SendMail(j) \/ SendMailThrows(j) \/ RecordSent(j) \/ RecordSentThrows(j) \/ Throw(j)
                /\ UNCHANGED <<asks, mail>>

HandleWelcomeEmail(j) == Handle(j, "welcome-email")
HandleInvitationEmail(j) == Handle(j, "invitation-email")
HandlePasswordResetEmail(j) == Handle(j, "password-reset-email")
HandleLoginOtpEmail(j) == Handle(j, "login-otp-email")

\* process, by the name of the job
Process(j) == \/ HandleWelcomeEmail(j) \/ HandleInvitationEmail(j)
              \/ HandlePasswordResetEmail(j) \/ HandleLoginOtpEmail(j)

-----------------------------------------------------------------------------
\* BullMQ

\* Variant: a job that has been tried is not taken again.
TakeNew(j) == /\ attempts[j] = 0 /\ Turns(j, "waiting", "active")
              /\ UNCHANGED <<asks, mail, attempts, stalls, sent, logged, faults>>

Take(j) == Turns(j, "waiting", "active") /\ UNCHANGED <<asks, mail, attempts, stalls, sent, logged, faults>>
Wake(j) == Turns(j, "delayed", "waiting") /\ UNCHANGED <<asks, mail, attempts, stalls, sent, logged, faults>>
Complete(j) == Turns(j, "recorded", "completed") /\ UNCHANGED <<asks, mail, attempts, stalls, sent, logged, faults>>

\* The worker stops, or loses its lock on the job.
Stall(j) == /\ job[j] \in Running
            /\ job' = [job EXCEPT ![j] = IF stalls[j] < MaxStalls THEN "waiting" ELSE "failed"]
            /\ stalls' = Plus(stalls, j)
            /\ faults' = Plus(faults, j)
            /\ UNCHANGED <<asks, mail, attempts, sent, logged>>

Work(j) == Take(j) \/ Wake(j) \/ Complete(j) \/ Process(j)

MailStep == \E j \in Jobs : EnqueueEmail(j) \/ Work(j) \/ Stall(j)
MailNext == MailStep \/ \E j \in Jobs, m \in Mails : AskFor(j, m)

MailSpec == MailInit /\ [][MailNext]_mailVars

-----------------------------------------------------------------------------
\* Properties

MailTypeOK ==
  /\ asks \in [Jobs -> {"no", "add", "record", "done"}]
  /\ mail \in [Jobs -> Mails \cup {NoMail}]
  /\ job \in [Jobs -> {"none", "waiting", "delayed"} \cup Running \cup Settled]
  /\ attempts \in [Jobs -> Nat] /\ stalls \in [Jobs -> Nat]
  /\ sent \in [Jobs -> Nat] /\ logged \in [Jobs -> Nat] /\ faults \in [Jobs -> Nat]

\* However the attempts of a job and the ends of its workers interleave, a recipient
\* gets no more copies than the job may start: three attempts, and one more for each
\* stall that is forgiven.
MailsAreBounded == \A j \in Jobs : sent[j] <= Attempts + MaxStalls

\* Every copy after the first is owed to a fault of its own: an answer of the mail
\* server, a record of EMAIL_SENT or a worker was lost.  A mail that the server has
\* refused does not lead to a second copy.
CopiesAreOwedToFaults == \A j \in Jobs : sent[j] <= 1 + faults[j]

\* EMAIL_SENT is recorded for no more mails than have left, and a job completes only
\* when it is recorded: what the audit log can miss is a mail that was sent.
LogsAreTrue == \A j \in Jobs : /\ logged[j] <= sent[j]
                               /\ job[j] = "completed" => logged[j] > 0

\* A job in the queue is completed or given up.
JobsSettle == \A j \in Jobs : (job[j] # "none") ~> (job[j] \in Settled)
=============================================================================
