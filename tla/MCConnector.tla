----------------------------- MODULE MCConnector -----------------------------
(* Instances of Connector: what memory behind the receive buffer may hold.   *)
EXTENDS Connector

\* The next byte in memory is a NUL, or foreign bytes come before it.
AnythingFollows == {<<>>, <<0>>}
===============================================================================
