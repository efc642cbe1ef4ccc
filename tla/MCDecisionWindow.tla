-------------------------- MODULE MCDecisionWindow --------------------------
(***************************************************************************)
(* DecisionWindow with two decisions, the second dependent on the first,   *)
(* and envelopes that hold both, the second alone, or none, with requests  *)
(* that are named twice.                                                   *)
(***************************************************************************)
EXTENDS DecisionWindow

CONSTANTS p, q, x, y, u

MCPoints == {p, q}
MCRequires == [r \in MCPoints |-> IF r = q THEN {p} ELSE {}]
\* q offers a proposal under a label that a person could have given it.
MCOffered == [r \in MCPoints |-> IF r = q THEN <<x, u>> ELSE <<x, y>>]
MCOwn == {u}
MCEnvelopes ==
  {[top |-> q, batch |-> <<>>],
   [top |-> p, batch |-> <<p, q>>],
   [top |-> None, batch |-> <<p, q, p>>],
   [top |-> None, batch |-> <<>>]}

=============================================================================
