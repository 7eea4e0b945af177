---------------------------- MODULE TokenFamilies ----------------------------
(***************************************************************************)
(* What the token service promises, with no transactions, locks or calls:  *)
(* a session is a family of refresh tokens of which exactly one, the       *)
(* holder, is good for a refresh while the session is open.  A refresh     *)
(* moves the session to a token never seen before, closing it is final,    *)
(* and a token that stopped being the holder never comes back.             *)
(***************************************************************************)
CONSTANTS Sessions, Tokens,
          Unopened, Closed   \* marks that are not tokens

VARIABLES holder,   \* session -> its holder, or Unopened, or Closed
          spent     \* tokens that were issued and are good for nothing any more

families == <<holder, spent>>

HolderSet == {holder[s] : s \in Sessions} \cap Tokens
Fresh(t) == t \in Tokens \ (HolderSet \cup spent)

Init == /\ holder = [s \in Sessions |-> Unopened]
        /\ spent = {}

\* A login opens a session with a fresh token.
OpenSession == \E s \in Sessions, t \in Tokens :
    /\ holder[s] = Unopened
    /\ Fresh(t)
    /\ holder' = [holder EXCEPT ![s] = t]
    /\ UNCHANGED spent

\* A refresh replaces the holder of an open session by a fresh token.
Rotate == \E s \in Sessions, t \in Tokens :
    /\ holder[s] \in Tokens
    /\ Fresh(t)
    /\ holder' = [holder EXCEPT ![s] = t]
    /\ spent' = spent \cup {holder[s]}

\* A logout, or a logout of every session of a user, closes sessions for good.
Close == \E S \in SUBSET {s \in Sessions : holder[s] \in Tokens} :
    /\ S # {}
    /\ holder' = [s \in Sessions |-> IF s \in S THEN Closed ELSE holder[s]]
    /\ spent' = spent \cup {holder[s] : s \in S}

\* A refresh that was under way when its session closed may still issue a
\* token; it belongs to a closed session and is spent from the start.
IssueTooLate == \E t \in Tokens :
    /\ Fresh(t)
    /\ Closed \in {holder[s] : s \in Sessions}
    /\ spent' = spent \cup {t}
    /\ UNCHANGED holder

Next == OpenSession \/ Rotate \/ Close \/ IssueTooLate

Spec == Init /\ [][Next]_families
=============================================================================
