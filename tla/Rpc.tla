--------------------------------- MODULE Rpc ----------------------------------
(***************************************************************************)
(* What a call of the HBase gateway promises to the thread that makes it:  *)
(* the gateway carries it out at most once, with the arguments the caller  *)
(* gave, and the answer is what came of this very call.  If the connection *)
(* breaks, the caller is told so and cannot know whether it was.  Every    *)
(* call ends.                                                              *)
(***************************************************************************)
CONSTANTS Threads,
          Calls,        \* the possible calls: a method and its arguments
          Outcomes(_),  \* what an implementation may come to, of each call
          Substitutes,  \* the answers that stand in for an outcome
          Nothing

VARIABLES asked,      \* the call a thread is waiting for
          made,       \* the call carried out for it and what came of it
          answer      \* what it was given last

rvars == <<asked, made, answer>>

Init ==
  /\ asked = [t \in Threads |-> Nothing]
  /\ made = [t \in Threads |-> Nothing]
  /\ answer = [t \in Threads |-> Nothing]

Ask(t) ==
  /\ asked[t] = Nothing
  /\ made' = [made EXCEPT ![t] = Nothing]
  /\ answer' = [answer EXCEPT ![t] = Nothing]
  /\ \E c \in Calls : asked' = [asked EXCEPT ![t] = c]

CarryOut(t) ==
  /\ asked[t] # Nothing /\ made[t] = Nothing
  /\ UNCHANGED <<asked, answer>>
  /\ \E o \in Outcomes(asked[t]) :
       made' = [made EXCEPT ![t] = [call |-> asked[t], outcome |-> o]]

\* What a caller may be told.  Exceptions the method does not declare arrive
\* as exceptions of the application, and a call that was never carried out may
\* end with one; those only a newer gateway declares are lost to this caller.
Kinds(t) ==
  {"transport"} \cup
  IF made[t] = Nothing THEN {"application"}
  ELSE CASE made[t].outcome.kind = "other" -> {"application"}
         [] made[t].outcome.kind = "newer" -> {"return", "missing"}
         [] OTHER -> {}

Told(t) ==
  {a \in Substitutes : a.kind \in Kinds(t)}
  \cup {m.outcome : m \in {n \in {made[t]} \ {Nothing} : n.outcome.kind \in {"return", "throw"}}}

Answer(t) ==
  /\ asked[t] # Nothing
  /\ UNCHANGED made
  /\ asked' = [asked EXCEPT ![t] = Nothing]
  /\ \E a \in Told(t) : answer' = [answer EXCEPT ![t] = a]

Next == \E t \in Threads : Ask(t) \/ CarryOut(t) \/ Answer(t)

Spec == Init /\ [][Next]_rvars /\ \A t \in Threads : WF_rvars(Answer(t))
===============================================================================
