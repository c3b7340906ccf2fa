--------------------------- MODULE Connector_proofs ---------------------------
(***************************************************************************)
(* Loading never leaves a rank with a part of its particles, for every     *)
(* length of document and of buffer and every content of the memory behind *)
(* the buffer.  What carries the proof is that m_buffer holds exactly the  *)
(* bytes received so far, unless some read filled the buffer.              *)
(***************************************************************************)
EXTENDS Connector, SequenceTheorems, TLAPS

Assembled == overran \/ m_buffer = SubSeq(Doc, 1, received)

Inv == TypeOK /\ Assembled /\ WholeOrOverran

\* The document has DocLen bytes.
LEMMA DocType == Doc \in Seq(0..DocLen) /\ Len(Doc) = DocLen
<1>1. DocLen \in Nat /\ \A i \in 1..DocLen : i \in 0..DocLen
  BY ConnectorAssumption
<1>2. Doc \in [1..DocLen -> 0..DocLen]
  BY <1>1 DEF Doc
<1> QED
  BY <1>1, <1>2

\* A part of the document is a sequence of bytes.
LEMMA PartType ==
  ASSUME NEW a \in Nat, NEW b \in 0..DocLen
  PROVE  SubSeq(Doc, a + 1, b) \in Seq(0..DocLen)
<1>1. \A i \in (a + 1)..b : Doc[i] \in 0..DocLen
  BY ConnectorAssumption DEF Doc
<1> QED
  BY <1>1, ConnectorAssumption, SubSeqProperties

\* The invariant holds at the start.
LEMMA InitInv == Init => Inv
<1> SUFFICES ASSUME Init PROVE Inv
  OBVIOUS
<1>1. SubSeq(Doc, 1, 0) = <<>>
  BY SubSeqEmpty
<1>2. <<>> \in Seq(0..DocLen)
  OBVIOUS
<1>3. 0 \in 0..DocLen /\ 0 \in 0..MaxEndpoints
  BY ConnectorAssumption
<1>4. /\ pc \in {"resolve", "dial", "read", "parse", "loaded", "dead"}
      /\ m_socket \in {"null", "closed", "open"}
      /\ peer \in {"none", "queued", "serving", "closed", "reset"}
      /\ overran \in BOOLEAN
  BY Zenon DEF Init
<1>5. TypeOK
  BY <1>2, <1>3, <1>4 DEF Init, TypeOK
<1> QED
  BY <1>1, <1>5 DEF Init, Inv, Assembled, WholeOrOverran

\* A read adds what it received, and more only if it filled the buffer.
LEMMA ReadInv == Inv /\ ReadSome => Inv'
<1> SUFFICES ASSUME Inv, ReadSome PROVE Inv'
  OBVIOUS
<1> USE ConnectorAssumption
<1>0. PICK n \in 1..BufSize :
        \E beyond \in IF n < BufSize THEN {<<>>} ELSE Trailing :
          /\ n <= Available
          /\ received' = received + n
          /\ m_buffer' = m_buffer \o SubSeq(Doc, received + 1, received + n) \o beyond
          /\ overran' = (overran \/ n = BufSize)
  BY Zenon DEF ReadSome
<1>1. PICK beyond \in IF n < BufSize THEN {<<>>} ELSE Trailing :
        /\ n <= Available
        /\ received' = received + n
        /\ m_buffer' = m_buffer \o SubSeq(Doc, received + 1, received + n) \o beyond
        /\ overran' = (overran \/ n = BufSize)
  BY <1>0
<1>2. /\ sent \in 0..DocLen /\ received \in 0..sent /\ n \in Nat
      /\ received + n \in 0..sent /\ received + n \in 0..DocLen
      /\ received \in 0..DocLen
  BY <1>1 DEF Inv, TypeOK, Available
<1> DEFINE part == SubSeq(Doc, received + 1, received + n)
<1>3. /\ m_buffer \in Seq(0..DocLen) /\ part \in Seq(0..DocLen)
      /\ beyond \in Seq(0..DocLen)
  <2>1. m_buffer \in Seq(0..DocLen)
    BY DEF Inv, TypeOK
  <2>2. part \in Seq(0..DocLen)
    <3>1. received \in Nat
      BY <1>2
    <3>2. SubSeq(Doc, received + 1, received + n) \in Seq(0..DocLen)
      BY ONLY <1>2, <3>1, PartType
    <3> QED
      BY <3>2
  <2>3. beyond \in Seq({0})
    <3>1. CASE n < BufSize
      BY <3>1, EmptySeq
    <3>2. CASE ~(n < BufSize)
      BY <3>2
    <3> QED
      BY <3>1, <3>2
  <2>4. {0} \subseteq 0..DocLen
    OBVIOUS
  <2>5. beyond \in Seq(0..DocLen)
    BY <2>3, <2>4, SeqMonotonic
  <2> QED
    BY <2>1, <2>2, <2>5
<1>4. m_buffer' \in Seq(0..DocLen)
  <2>1. m_buffer \o part \in Seq(0..DocLen)
    BY <1>3, ConcatProperties
  <2> QED
    BY <1>1, <1>3, <2>1, ConcatProperties
<1>5. overran \in BOOLEAN /\ overran' \in BOOLEAN
  BY <1>1, Zenon DEF Inv, TypeOK
<1>6. TypeOK'
  BY <1>1, <1>2, <1>4, <1>5 DEF Inv, TypeOK, ReadSome, server
<1>7. Assembled'
  <2>1. CASE n = BufSize
    BY <1>1, <2>1 DEF Assembled
  <2>2. CASE overran
    BY <1>1, <2>2 DEF Assembled
  <2>3. CASE n # BufSize /\ ~overran
    <3>1. beyond = <<>>
      BY <1>1, <2>3
    <3>2. m_buffer = SubSeq(Doc, 1, received)
      BY <2>3 DEF Inv, Assembled
    <3>3. SubSeq(Doc, 1, received) \o part = SubSeq(Doc, 1, received + n)
      <4>1. /\ 1 \in 1..(Len(Doc) + 1) /\ received \in (1 - 1)..Len(Doc)
            /\ received + n \in received..Len(Doc)
        BY <1>2, DocType
      <4> QED
        BY <4>1, DocType, ConcatAdjacentSubSeq
    <3>4. SubSeq(Doc, 1, received + n) \in Seq(0..DocLen)
      <4>1. SubSeq(Doc, 0 + 1, received + n) \in Seq(0..DocLen)
        BY ONLY <1>2, PartType
      <4> QED
        BY <4>1
    <3>5. m_buffer' = SubSeq(Doc, 1, received + n)
      BY <1>1, <3>1, <3>2, <3>3, <3>4, ConcatEmptySeq
    <3> QED
      BY <1>1, <3>5 DEF Assembled, Doc
  <2> QED
    BY <2>1, <2>2, <2>3
<1>8. WholeOrOverran'
  BY DEF ReadSome, WholeOrOverran
<1> QED
  BY <1>6, <1>7, <1>8 DEF Inv

\* Only the whole document, or what an overrun has made of it, is parsed to
\* the end.
LEMMA ParseInv == Inv /\ ParseLoads => Inv'
<1> SUFFICES ASSUME Inv, ParseLoads PROVE Inv'
  OBVIOUS
<1> USE ConnectorAssumption
<1>1. /\ pc = "parse" /\ pc' = "loaded" /\ particles' = m_buffer
      /\ ~IsStrictPrefix(m_buffer, Doc)
      /\ UNCHANGED <<endpoints, m_socket, server, received, m_buffer, overran>>
  BY DEF ParseLoads
<1>2. TypeOK'
  BY <1>1 DEF Inv, TypeOK, server
<1>3. Assembled'
  BY <1>1 DEF Inv, Assembled, Doc
<1>4. ASSUME ~overran PROVE m_buffer = Doc
  <2>1. m_buffer = SubSeq(Doc, 1, received) /\ received \in 0..DocLen
    BY <1>4 DEF Inv, Assembled, TypeOK
  <2>2. Len(m_buffer) = received
    <3>1. \A i \in 1..received : Doc[i] \in 0..DocLen
      BY <2>1 DEF Doc
    <3> QED
      BY <2>1, <3>1, SubSeqProperties
  <2>3. m_buffer \in Seq(0..DocLen)
    BY DEF Inv, TypeOK
  <2>4. SubSeq(m_buffer, 1, Len(m_buffer)) = m_buffer
    BY <2>3, SubSeqFull
  <2>5. IsPrefix(m_buffer, Doc)
    BY <2>1, <2>2, <2>4, DocType DEF IsPrefix
  <2> QED
    BY <1>1, <2>5 DEF IsStrictPrefix
<1>5. WholeOrOverran'
  BY <1>1, <1>4 DEF WholeOrOverran, Doc
<1> QED
  BY <1>2, <1>3, <1>5 DEF Inv

\* Every step of the rank and of the particle server preserves the invariant.
LEMMA StepInv == Inv /\ [Next]_vars => Inv'
<1> SUFFICES ASSUME Inv, [Next]_vars PROVE Inv'
  OBVIOUS
<1> USE ConnectorAssumption
<1>d. Doc' = Doc
  BY DEF Doc
<1> USE DEF Inv, TypeOK, Assembled, WholeOrOverran
<1>1. CASE Resolve
  BY <1>1, <1>d DEF Resolve, server
<1>2. CASE Dial
  BY <1>2, <1>d DEF Dial
<1>3. CASE DialDone
  BY <1>3, <1>d DEF DialDone, server
<1>4. CASE ReadSome
  BY <1>4, ReadInv
<1>5. CASE ReadEof
  BY <1>5, <1>d DEF ReadEof, server
<1>6. CASE ReadFails
  BY <1>6, <1>d DEF ReadFails, server
<1>7. CASE ReadCrashes
  BY <1>7, <1>d DEF ReadCrashes, server
<1>8. CASE ParseLoads
  BY <1>8, ParseInv
<1>9. CASE ParseFails
  BY <1>9, <1>d DEF ParseFails, server
<1>10. CASE Accept
  BY <1>10, <1>d DEF Accept, client
<1>11. CASE Write
  BY <1>11, <1>d DEF Write, client
<1>12. CASE Close
  BY <1>12, <1>d DEF Close, client
<1>13. CASE ServerDies
  BY <1>13, <1>d DEF ServerDies, client
<1>14. CASE UNCHANGED vars
  BY <1>14, <1>d DEF vars
<1> QED
  BY <1>1, <1>2, <1>3, <1>4, <1>5, <1>6, <1>7, <1>8, <1>9, <1>10, <1>11, <1>12,
     <1>13, <1>14
     DEF Next, ConnectStep, ReadStep, ServerStep, Done

\* The invariant holds in every reachable state.
LEMMA Invariance == Spec => []Inv
<1>1. Inv /\ [Next]_vars => Inv'
  BY StepInv
<1> QED
  BY InitInv, <1>1, PTL DEF Spec

\* The client's and the particle server's state keep their type; in
\* particular no read returns more than was sent.
THEOREM TypeCorrect == Spec => []TypeOK
<1>1. Inv => TypeOK
  BY DEF Inv
<1> QED
  BY Invariance, <1>1, PTL

\* A rank that gets past loading has the whole document, unless a read filled
\* the receive buffer: however the stream is cut, whichever address answers
\* and whenever the particle server dies.
THEOREM WholeDocument == Spec => []WholeOrOverran
<1>1. Inv => WholeOrOverran
  BY DEF Inv
<1> QED
  BY Invariance, <1>1, PTL

\* Every step of the client and of the particle server is a step of module
\* Loader or leaves its variables alone: loading ends at most once, with all
\* of the document, with what an overrun made of it, or with the rank's death.
THEOREM LoadsAsPromised == Spec => Loading!Init /\ [][Loading!Next]_(Loading!lvars)
<1>1. Init => Loading!Init
  BY DEF Init, Loading!Init
<1>2. Inv /\ Inv' /\ [Next]_vars => [Loading!Next]_(Loading!lvars)
  <2> SUFFICES ASSUME Inv, Inv', [Next]_vars
               PROVE  Loading!Next \/ UNCHANGED Loading!lvars
    OBVIOUS
  <2>d. Doc' = Doc
    BY DEF Doc
  <2> USE DEF Loading!lvars
  <2>1. CASE ReadFails \/ ReadCrashes \/ ParseFails
    <3>1. /\ pc \in {"read", "parse"} /\ pc' = "dead"
      BY <2>1 DEF ReadFails, ReadCrashes, ParseFails
    <3> QED
      BY <3>1 DEF Loading!Next, Loading!Fail, Loading!Pending
  <2>2. CASE ParseLoads
    <3>1. pc = "parse" /\ pc' = "loaded" /\ (particles' = Doc \/ overran')
      BY <2>2, <2>d DEF ParseLoads, Inv, WholeOrOverran
    <3> QED
      BY <3>1, <2>d DEF Loading!Next, Loading!Finish, Loading!Pending
  <2>3. CASE Resolve \/ Dial \/ DialDone \/ ReadSome \/ ReadEof
    <3>1. pc \notin {"loaded", "dead"} /\ pc' \notin {"loaded", "dead"}
      BY <2>3 DEF Resolve, Dial, DialDone, ReadSome, ReadEof
    <3> QED
      BY <3>1
  <2>4. CASE Accept \/ Write \/ Close \/ ServerDies
    BY <2>4, <2>d DEF Accept, Write, Close, ServerDies, client
  <2>5. CASE UNCHANGED vars
    BY <2>5, <2>d DEF vars
  <2> QED
    BY <2>1, <2>2, <2>3, <2>4, <2>5
       DEF Next, ConnectStep, ReadStep, ServerStep, Done
<1> QED
  BY <1>1, <1>2, Invariance, PTL DEF Spec
===============================================================================
