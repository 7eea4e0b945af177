--------------------------- MODULE MCRegistration ---------------------------
(***************************************************************************)
(* Registrations and mails on a small instance: the name "acme" and the    *)
(* name "acme 1", whose base slug is the first that "acme" falls back to.  *)
(* Jobs do not touch each other: a run has either registrations or mails   *)
(* of other services, Redis takes only the jobs Queued, and only the jobs  *)
(* Faulty meet faults.  Registrations are interchangeable, and so are      *)
(* addresses: both come in the order of their numbers.                     *)
(***************************************************************************)
EXTENDS RegistrationRefinement

CONSTANTS Queued, Faulty

ASSUME MCAssumption == Requests \cup Emails \subseteq Nat /\ Queued \cup Faulty \subseteq Jobs

Acme == {<<26>>, <<26, 1>>}   \* the word acme is number 26

BeginInOrder == \A r, q \in Requests : q < r /\ pc'[r] # "idle" => pc'[q] # "idle"
EmailsInOrder == \A r \in Requests : pc'[r] = "hash" => email'[r] <= r
OthersAlone == (\E j \in Jobs \ Requests : asks'[j] # "no") => \A r \in Requests : pc'[r] = "idle"
FewJobs == \A j \in Jobs \ Queued : job'[j] = "none"
FewFaults == \A j \in Jobs \ Faulty : faults'[j] = 0 /\ job'[j] # "refused"

Bounds == BeginInOrder /\ EmailsInOrder /\ OthersAlone /\ FewJobs /\ FewFaults
=============================================================================
