--------------------------- MODULE MCTokenService ---------------------------
(***************************************************************************)
(* TokenService on a small instance.  Calls are interchangeable, so they   *)
(* are taken to begin in the order of their numbers: that loses no         *)
(* behaviour up to a renaming, and unlike SYMMETRY it is sound for the     *)
(* liveness property.                                                      *)
(***************************************************************************)
EXTENDS TokenRefinement, Naturals, FiniteSets

CONSTANT MaxExpired   \* tokens that pass their expiry within a run

ASSUME MCAssumption == Requests \subseteq Nat /\ MaxExpired \in Nat

BeginInOrder == \A r, q \in Requests :
  q < r /\ pc'[r] # "idle" => pc'[q] # "idle"

\* A login leaves a token for every call that may still issue one, so that no
\* refresh is held up by the size of the pool.
MayIssue == {r \in Requests : pc'[r] \in {"idle", "readSession", "checked", "rotated"}}
TokensLeft == {t \in Tokens : tokenStatus'[t] = "ABSENT"}
EnoughTokens == Cardinality(MayIssue) <= Cardinality(TokensLeft)

\* Kept by every step (ACTION_CONSTRAINT): no step of a running call is cut off.
Bounds == /\ BeginInOrder
          /\ EnoughTokens
          /\ Cardinality(expired') <= MaxExpired
=============================================================================
