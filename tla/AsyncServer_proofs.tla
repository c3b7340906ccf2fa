--------------------------- MODULE AsyncServer_proofs --------------------------
(***************************************************************************)
(* Proofs about AsyncServer for any clients, message lengths and window.   *)
(***************************************************************************)
EXTENDS AsyncServer, TLAPS

\* A client that has printed has read everything, and TypeOK.
Inv == TypeOK /\ PrintsWholeMessage

\* A message has at least its header.
LEMMA TotalIsNatural == Total \in Nat /\ HeaderLen \in 0..Total
  BY AsyncServerAssumption DEF Total

\* The invariant holds at the start.
LEMMA InitInv == Init => Inv
  BY AsyncServerAssumption, TotalIsNatural DEF Init, Inv, TypeOK, PrintsWholeMessage

\* Every handler and every transfer preserves the invariant.
LEMMA InvStep == Inv /\ [Next]_vars => Inv'
<1> SUFFICES ASSUME Inv, [Next]_vars PROVE Inv'
  OBVIOUS
<1> USE AsyncServerAssumption, TotalIsNatural
        DEF Inv, TypeOK, PrintsWholeMessage, Goto, Conn, server, link, client
<1>1. ASSUME NEW c \in Clients, HandleAccept(c) \/ HandleAcceptError(c) \/ HandleWrite(c)
      PROVE  Inv'
  BY <1>1 DEF HandleAccept, HandleAcceptError, HandleWrite
<1>2. ASSUME NEW c \in Clients, WriteSome(c)
      PROVE  Inv'
  <2>1. PICK n \in 1..(Total - sent[c]) : sent' = [sent EXCEPT ![c] = @ + n]
    BY <1>2 DEF WriteSome
  <2>2. sent[c] + n \in 0..Total /\ sent[c] <= sent[c] + n
    BY <2>1
  <2> QED
    BY <1>2, <2>1, <2>2 DEF WriteSome
<1>3. CASE ServerStops
  BY <1>3 DEF ServerStops
<1>4. ASSUME NEW c \in Clients, Resolve(c)
      PROVE  Inv'
  BY <1>4 DEF Resolve
<1>5. ASSUME NEW c \in Clients, HandleConnect(c)
      PROVE  Inv'
  BY <1>5 DEF HandleConnect
<1>6. ASSUME NEW c \in Clients, HandleConnectError(c)
      PROVE  Inv'
  BY <1>6 DEF HandleConnectError
<1>7. ASSUME NEW c \in Clients, ReadSome(c)
      PROVE  Inv'
  <2>1. PICK n \in 1..(Target(c) - got[c]) :
          got[c] + n <= sent[c] /\ got' = [got EXCEPT ![c] = @ + n]
    BY <1>7 DEF ReadSome
  <2>2. got[c] + n \in 0..Total
    BY <2>1 DEF Target
  <2>3. pc[c] # "printed"
    BY <1>7 DEF ReadSome, Reading
  <2> QED
    BY <1>7, <2>1, <2>2, <2>3 DEF ReadSome
<1>8. ASSUME NEW c \in Clients, HandleReadHeader(c) \/ HandleReadData(c)
      PROVE  Inv'
  BY <1>8 DEF HandleReadHeader, HandleReadData
<1>9. ASSUME NEW c \in Clients, HandleReadError(c) \/ ClientDies(c)
      PROVE  Inv'
  BY <1>9 DEF HandleReadError, ClientDies
<1>10. CASE UNCHANGED vars
  BY <1>10 DEF vars
<1> QED
  BY <1>1, <1>2, <1>3, <1>4, <1>5, <1>6, <1>7, <1>8, <1>9, <1>10
     DEF Next, AcceptStep, WriteStep, ConnectStep, ReadStep, Done

\* The invariant holds in every reachable state.
LEMMA InvHolds == Spec => []Inv
  BY InitInv, InvStep, PTL DEF Spec

\* No client reads what has not been written, and no more than the message is
\* written, however the stream is cut.
THEOREM TypeCorrect == Spec => []TypeOK
<1>1. Inv => TypeOK
  BY DEF Inv
<1> QED
  BY <1>1, InvHolds, PTL

\* handle_read_data() (simple_client.cpp) never prints part of a message.
THEOREM PrintsWhole == Spec => []PrintsWholeMessage
<1>1. Inv => PrintsWholeMessage
  BY DEF Inv
<1> QED
  BY <1>1, InvHolds, PTL

===============================================================================
