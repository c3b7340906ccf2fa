------------------------------ MODULE Connector ------------------------------
(***************************************************************************)
(* How one rank of the rendering server fetches its particles: connect()   *)
(* and readJSON() of connector.h, deserializeJson() of server.cxx, and the *)
(* particle server that listens on the rank's port (Server.main of         *)
(* server.jar: accept, generate, write, close, accept again).              *)
(*                                                                         *)
(* The document is the sequence of its bytes, byte i being the number i.   *)
(* A read takes any non-empty part of what has arrived, at most the 128    *)
(* bytes of the receive buffer (BufSize here).                             *)
(***************************************************************************)
EXTENDS Naturals, Sequences, SequencesExt

CONSTANTS DocLen,        \* length of the particle server's document
          BufSize,       \* SIZEBUFFER
          MaxEndpoints,  \* bound: addresses the host name resolves to
          Trailing       \* what memory may hold between the end of the
                         \* receive buffer and the next NUL byte

ASSUME ConnectorAssumption ==
  /\ DocLen \in Nat \ {0}
  /\ BufSize \in Nat \ {0}
  /\ MaxEndpoints \in Nat \ {0}
  /\ Trailing \subseteq Seq({0}) /\ Trailing # {}

Doc == [i \in 1..DocLen |-> i]

VARIABLES pc,         \* where the rank is in main()
          endpoints,  \* resolved addresses not tried yet
          m_socket,   \* "null" pointer, "closed" or "open" (connected)
          peer,       \* the particle server's end of the connection
          sent,       \* bytes the particle server has written
          received,   \* bytes read_some() has returned
          m_buffer,   \* the stringstream the document is assembled in
          overran,    \* a read filled the buffer: no room for the NUL
          particles   \* what deserializeJson() has put in the vector

client == <<pc, endpoints, m_socket, received, m_buffer, overran, particles>>
server == <<peer, sent>>
vars == <<pc, endpoints, m_socket, peer, sent, received, m_buffer, overran,
          particles>>

Available == sent - received

Init ==
  /\ pc = "resolve" /\ endpoints = 0 /\ m_socket = "null"
  /\ peer = "none" /\ sent = 0 /\ received = 0
  /\ m_buffer = <<>> /\ overran = FALSE /\ particles = <<>>

-------------------------------------------------------------------------------
(* connect(): its catch clause swallows every failure.  Whatever happened,   *)
(* main() goes on to readJSON().                                             *)

Resolve ==
  /\ pc = "resolve"
  /\ \/ \E n \in 1..MaxEndpoints :
          endpoints' = n /\ m_socket' = "closed" /\ pc' = "dial"
     \/ \* resolve() throws before the socket is made
        pc' = "read" /\ UNCHANGED <<endpoints, m_socket>>
  /\ UNCHANGED <<server, received, m_buffer, overran, particles>>

Dial ==
  /\ pc = "dial" /\ m_socket # "open" /\ endpoints > 0
  /\ endpoints' = endpoints - 1
  /\ \/ m_socket' = "open" /\ peer' = "queued"
     \/ UNCHANGED <<m_socket, peer>>
  /\ UNCHANGED <<pc, sent, received, m_buffer, overran, particles>>

DialDone ==
  /\ pc = "dial" /\ (m_socket = "open" \/ endpoints = 0)
  /\ pc' = "read"
  /\ UNCHANGED <<endpoints, m_socket, server, received, m_buffer, overran,
                 particles>>

-------------------------------------------------------------------------------
(* readJSON(): the loop ends on end-of-file or on an error that nobody       *)
(* catches.  A NUL is stored behind the data only if the data left room for  *)
(* it; "m_buffer << tmp" then copies up to the first NUL it meets, inside    *)
(* the buffer or beyond it.                                                  *)

\* Mutant: the buffer's size is taken for the length of the read.
ReadSome_CountsBuffer ==
  /\ pc = "read" /\ m_socket = "open" /\ Available > 0
  /\ received' = received + BufSize
  /\ UNCHANGED <<pc, endpoints, m_socket, server, m_buffer, overran, particles>>

ReadSome ==
  /\ pc = "read" /\ m_socket = "open" /\ Available > 0
  /\ \E n \in 1..BufSize :
       \E beyond \in IF n < BufSize THEN {<<>>} ELSE Trailing :
         /\ n <= Available
         /\ received' = received + n
         /\ m_buffer' = m_buffer \o SubSeq(Doc, received + 1, received + n)
                                 \o beyond
         /\ overran' = (overran \/ n = BufSize)
  /\ UNCHANGED <<pc, endpoints, m_socket, server, particles>>

\* Mutant: end of file is no reason to leave the loop.
ReadEof_Again ==
  /\ pc = "read" /\ m_socket = "open" /\ Available = 0 /\ peer = "closed"
  /\ UNCHANGED vars

ReadEof ==
  /\ pc = "read" /\ m_socket = "open" /\ Available = 0 /\ peer = "closed"
  /\ pc' = "parse"
  /\ UNCHANGED <<endpoints, m_socket, server, received, m_buffer, overran,
                 particles>>

\* No socket, no connection, or the connection was reset.
ReadFails ==
  /\ pc = "read" /\ (m_socket # "open" \/ peer = "reset")
  /\ pc' = "dead"
  /\ UNCHANGED <<endpoints, m_socket, server, received, m_buffer, overran,
                 particles>>

\* The socket outlives its io_service, a local variable of connect(): a read
\* through it may work, as in the other actions, or crash.
ReadCrashes ==
  /\ pc = "read" /\ m_socket = "open"
  /\ pc' = "dead"
  /\ UNCHANGED <<endpoints, m_socket, server, received, m_buffer, overran,
                 particles>>

\* Mutant: a document that breaks off is taken as it is.
ParseLoads_Partial ==
  /\ pc = "parse"
  /\ particles' = m_buffer
  /\ pc' = "loaded"
  /\ UNCHANGED <<endpoints, m_socket, server, received, m_buffer, overran>>

\* read_json() throws on a document that breaks off; foreign bytes in it may
\* or may not be noticed.
ParseLoads ==
  /\ pc = "parse" /\ ~IsStrictPrefix(m_buffer, Doc)
  /\ particles' = m_buffer
  /\ pc' = "loaded"
  /\ UNCHANGED <<endpoints, m_socket, server, received, m_buffer, overran>>

ParseFails ==
  /\ pc = "parse" /\ m_buffer # Doc
  /\ pc' = "dead"
  /\ UNCHANGED <<endpoints, m_socket, server, received, m_buffer, overran,
                 particles>>

-------------------------------------------------------------------------------
(* The particle server and the network.                                      *)

Accept ==
  /\ peer = "queued" /\ peer' = "serving"
  /\ UNCHANGED <<client, sent>>

Write ==
  /\ peer = "serving" /\ sent < DocLen
  /\ sent' \in (sent + 1)..DocLen
  /\ UNCHANGED <<client, peer>>

Close ==
  /\ peer = "serving" /\ sent = DocLen
  /\ peer' = "closed"
  /\ UNCHANGED <<client, sent>>

\* The server process ends before it is done: the kernel closes its sockets,
\* or resets them.
ServerDies ==
  /\ peer \in {"queued", "serving"}
  /\ peer' \in {"closed", "reset"}
  /\ UNCHANGED <<client, sent>>

ConnectStep == Resolve \/ Dial \/ DialDone
ReadStep == ReadSome \/ ReadEof \/ ReadFails \/ ParseLoads \/ ParseFails
ServerStep == Accept \/ Write \/ Close

Done == pc \in {"loaded", "dead"} /\ UNCHANGED vars

Next ==
  ConnectStep \/ ReadStep \/ ReadCrashes \/ ServerStep \/ ServerDies \/ Done

\* Neither process is stopped for ever; neither need crash.
Spec ==
  /\ Init /\ [][Next]_vars
  /\ WF_vars(ConnectStep) /\ WF_vars(ReadStep) /\ WF_vars(ServerStep)

-------------------------------------------------------------------------------
TypeOK ==
  /\ pc \in {"resolve", "dial", "read", "parse", "loaded", "dead"}
  /\ endpoints \in 0..MaxEndpoints
  /\ m_socket \in {"null", "closed", "open"}
  /\ peer \in {"none", "queued", "serving", "closed", "reset"}
  /\ sent \in 0..DocLen
  /\ received \in 0..sent
  /\ m_buffer \in Seq(0..DocLen)
  /\ overran \in BOOLEAN
  /\ particles \in Seq(0..DocLen)

\* A rank that gets past loading holds the whole document, byte for byte,
\* unless some read filled the receive buffer: no swallowed connect() error,
\* early end-of-file or split of the stream into reads loses a particle.
WholeOrOverran == pc = "loaded" => particles = Doc \/ overran

\* "The boost::asio::buffer() function automatically determines the size of
\* the array to help prevent buffer overruns" (connector.h, 56-57): nothing
\* outside the receive buffer is ever taken for received data.
OnlyReceivedBytes == Len(m_buffer) <= received

\* The rank's particles seen from main().
Loading ==
  INSTANCE Loader
    WITH Results <- {"whole", "overrun"},
         None <- "none",
         failed <- pc = "dead",
         result <- IF pc # "loaded" THEN "none"
                   ELSE IF particles = Doc THEN "whole"
                   ELSE IF overran THEN "overrun" ELSE "partial"

\* Loading is what main() takes it for, and it ends: with the document, with
\* what an overrun has made of it, or with the rank's death.
ImplementsLoader == Loading!Spec
===============================================================================
