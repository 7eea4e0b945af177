--------------------------- MODULE TokenRefinement ---------------------------
(***************************************************************************)
(* The token service implements TokenFamilies.  The holder of an active    *)
(* session is its live token; every other issued token is spent.           *)
(***************************************************************************)
EXTENDS TokenService

CONSTANTS Unopened, Closed

ASSUME MarkAssumption == /\ Unopened \notin Tokens
                         /\ Closed \notin Tokens
                         /\ Unopened # Closed

Holder == [s \in Sessions |->
             IF sessionStatus[s] = "ABSENT" THEN Unopened
             ELSE IF sessionStatus[s] = "REVOKED" THEN Closed
             ELSE CHOOSE t \in Tokens : Family(s) = {t}]

Spent == {t \in Tokens : tokenStatus[t] # "ABSENT"
                          /\ (~Live(t) \/ ~Active(tokenSession[t]))}

Families == INSTANCE TokenFamilies WITH holder <- Holder, spent <- Spent

\* Read as families of tokens, the rows of the service only ever open a session
\* with a fresh token, hand it on to a fresh token, or close it for good; a token
\* that stopped being a holder never is one again.
ImplementsFamilies == Families!Spec
=============================================================================
