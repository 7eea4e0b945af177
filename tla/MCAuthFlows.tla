----------------------------- MODULE MCAuthFlows -----------------------------
EXTENDS AuthFlows

CONSTANTS MaxExpired   \* tokens and codes that pass their expiry within a run

ASSUME MCAssumption == Requests \subseteq Nat /\ MaxExpired \in Nat

\* Calls are interchangeable: they begin in the order of their numbers.
Begun(r) == flow[r] # "idle" \/ pc[r] # "idle"
BeginInOrder == \A r, q \in Requests : q < r /\ Begun(r)' => Begun(q)'

Bounds == /\ BeginInOrder
          /\ Cardinality(expired') + Cardinality(codeExpired') <= MaxExpired
=============================================================================
