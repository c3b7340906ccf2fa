-------------------------------- MODULE Counter -------------------------------
(***************************************************************************)
(* What a count of a table region promises while other clients keep        *)
(* writing to the region: the answer is the region's total at one moment   *)
(* between the call and the answer, or there is no answer.                 *)
(***************************************************************************)
EXTENDS Naturals

CONSTANT None

VARIABLES total,    \* what there is to count now
          phase,    \* "called", "taken", "answered" or "failed"
          value,    \* the total at the chosen moment
          answer    \* what the caller gets

cvars == <<total, phase, value, answer>>

Init ==
  /\ total \in Nat
  /\ phase = "called" /\ value = None /\ answer = None

Write == total' \in Nat /\ UNCHANGED <<phase, value, answer>>

Take ==
  /\ phase = "called" /\ phase' = "taken"
  /\ value' = total
  /\ UNCHANGED <<total, answer>>

Answer ==
  /\ phase = "taken" /\ phase' = "answered"
  /\ answer' = value
  /\ UNCHANGED <<total, value>>

Fail ==
  /\ phase \in {"called", "taken"} /\ phase' = "failed"
  /\ UNCHANGED <<total, value, answer>>

Next == Write \/ Take \/ Answer \/ Fail

Spec ==
  /\ Init /\ [][Next]_cvars
  /\ <>(phase \in {"answered", "failed"})
===============================================================================
