----------------------- MODULE RegistrationRefinement -----------------------
(***************************************************************************)
(* Registrations, with their stages, overlaps, aborts and mail jobs,       *)
(* implement Onboarding: the committed tables and the mails that left.     *)
(***************************************************************************)
EXTENDS Registration

Onboarded == INSTANCE Onboarding WITH organization <- slug,
                                      welcomes <- [r \in Requests |-> sent[r]],
                                      Numbers <- 0 .. Cardinality(Requests),
                                      Copies <- Attempts + MaxStalls

\* However registrations overlap, wait, fail and stop, what they commit is what
\* registrations one after the other do: an account with its organization, under the
\* least number of the name that is free at the commit, neither ever changed again,
\* and then at most Attempts + MaxStalls welcome mails.
ImplementsOnboarding == Onboarded!Spec
=============================================================================
