-------------------------------- MODULE Loader --------------------------------
(***************************************************************************)
(* What main() of the rendering server relies on when it fills the global  *)
(* "particles" vector of one rank (server.cxx, 127-131): loading ends, it  *)
(* ends once, and it ends either with the particles of the document the    *)
(* particle server sent or with the death of the rank.  There is no third  *)
(* outcome in which the rank goes on with fewer particles.                 *)
(***************************************************************************)
CONSTANTS Results,   \* what a successful load may leave in the vector
          None       \* nothing has been loaded

VARIABLES result,    \* what the rank has loaded
          failed     \* the rank died while loading

lvars == <<result, failed>>

Pending == result = None /\ ~failed

Init == result = None /\ failed = FALSE

Finish ==
  /\ Pending
  /\ result' \in Results
  /\ UNCHANGED failed

Fail ==
  /\ Pending
  /\ failed' = TRUE
  /\ UNCHANGED result

Next == Finish \/ Fail

Spec == Init /\ [][Next]_lvars /\ WF_lvars(Next)
===============================================================================
