------------------------------ MODULE AsyncServer ------------------------------
(***************************************************************************)
(* The asynchronous particle server of examples/ (asyncServer.cxx), its    *)
(* clients (simple_client.cpp) and the messages between them               *)
(* (connection.hpp): a header of fixed length that holds the length of the *)
(* data, then the data, an archive of the particles.                       *)
(*                                                                         *)
(* One thread of the server runs the completion handlers one after the     *)
(* other; the operating system carries out the operations they started     *)
(* (accept, write) for all connections at once, and TCP keeps at most      *)
(* Window unread bytes per connection.                                     *)
(***************************************************************************)
EXTENDS Naturals

CONSTANTS Clients,
          MayStall,      \* clients that may stop reading for good
          HeaderLen,     \* header_length
          DataLen,       \* length of the archive, which the header announces
          Window,        \* bytes a connection holds between the two ends
          MaxEndpoints   \* bound: addresses the host name resolves to

ASSUME AsyncServerAssumption ==
  /\ MayStall \subseteq Clients
  /\ HeaderLen \in Nat \ {0} /\ DataLen \in Nat \ {0}
  /\ Window \in Nat \ {0} /\ MaxEndpoints \in Nat \ {0}

VARIABLES running,     \* the server's io_service runs
          accepting,   \* an async_accept is outstanding
          decodable,   \* every client's archive code can read the particles
          conn,        \* the server's end of each client's connection
          sent,        \* bytes the server's end has written
          pc,          \* the client's outstanding operation, or its end
          endpoints,   \* addresses the client has yet to try
          got          \* bytes the client has read

server == <<running, accepting, decodable>>
link == <<conn, sent>>
client == <<pc, endpoints, got>>
vars == <<server, link, client>>

Total == HeaderLen + DataLen

\* initparticles() leaves volume and mass as it finds them: what the archive
\* makes of them may be text that no archive reads ("nan").
Init ==
  /\ running = TRUE /\ accepting = TRUE
  /\ decodable \in BOOLEAN
  /\ conn = [c \in Clients |-> "none"]
  /\ sent = [c \in Clients |-> 0]
  /\ pc = [c \in Clients |-> "start"]
  /\ endpoints = [c \in Clients |-> 0]
  /\ got = [c \in Clients |-> 0]

Goto(c, to) == pc' = [pc EXCEPT ![c] = to]
Conn(c, to) == conn' = [conn EXCEPT ![c] = to]

-------------------------------------------------------------------------------
(* The server.                                                               *)

\* Mutant: the next async_accept() waits for the message to be written.
Accepted_OneAtATime(c) ==
  /\ running /\ accepting /\ conn[c] = "queued"
  /\ \A d \in Clients : conn[d] # "writing"

\* The outstanding async_accept() completes with the connection of client c.
Accepted(c) == running /\ accepting /\ conn[c] = "queued"

\* handle_accept() without an error: async_write() of header and data, and
\* the next async_accept().
HandleAccept(c) ==
  /\ Accepted(c)
  /\ Conn(c, "writing")
  /\ UNCHANGED <<server, sent, client>>

\* Mutant: no new async_accept() after an error.
HandleAcceptError_NotAgain(c) ==
  /\ Accepted(c)
  /\ Conn(c, "closed") /\ accepting' = FALSE
  /\ UNCHANGED <<running, decodable, sent, client>>

\* With an error: only the next async_accept().
HandleAcceptError(c) ==
  /\ Accepted(c)
  /\ Conn(c, "closed")
  /\ UNCHANGED <<server, sent, client>>

\* Mutant: a write starts over with the whole message.
WriteSome_StartsOver(c) ==
  /\ running /\ conn[c] = "writing"
  /\ \E n \in 1..Total :
       /\ sent[c] + n - got[c] <= Window
       /\ sent' = [sent EXCEPT ![c] = @ + n]
  /\ UNCHANGED <<server, conn, client>>

\* The operating system takes some more of the message.
WriteSome(c) ==
  /\ running /\ conn[c] = "writing"
  /\ \E n \in 1..(Total - sent[c]) :
       /\ sent[c] + n - got[c] <= Window
       /\ sent' = [sent EXCEPT ![c] = @ + n]
  /\ UNCHANGED <<server, conn, client>>

\* Mutant: handle_write() keeps the connection.
HandleWrite_Keeps(c) ==
  /\ running /\ conn[c] = "writing"
  /\ pc[c] = "gone"
  /\ Conn(c, "closed")
  /\ UNCHANGED <<server, sent, client>>

\* handle_write(), after the last byte or because the client is gone: with
\* the handler goes the last reference to the connection.
HandleWrite(c) ==
  /\ running /\ conn[c] = "writing"
  /\ sent[c] = Total \/ pc[c] = "gone"
  /\ Conn(c, "closed")
  /\ UNCHANGED <<server, sent, client>>

\* The server process is stopped; its sockets are closed.
ServerStops ==
  /\ running /\ running' = FALSE
  /\ conn' = [c \in Clients |-> IF conn[c] = "none" THEN "none" ELSE "closed"]
  /\ UNCHANGED <<accepting, decodable, sent, client>>

-------------------------------------------------------------------------------
(* A client.                                                                 *)

\* The constructor; resolve() may throw.
Resolve(c) ==
  /\ pc[c] = "start"
  /\ \/ \E n \in 1..MaxEndpoints : endpoints' = [endpoints EXCEPT ![c] = n - 1]
        /\ Goto(c, "connect")
     \/ Goto(c, "failed") /\ UNCHANGED endpoints
  /\ UNCHANGED <<server, link, got>>

\* handle_connect(): async_read() of the header.
HandleConnect(c) ==
  /\ pc[c] = "connect" /\ running
  /\ Conn(c, "queued")
  /\ Goto(c, "header")
  /\ UNCHANGED <<server, sent, endpoints, got>>

\* handle_connect() with an error: the next address, or the end.
HandleConnectError(c) ==
  /\ pc[c] = "connect"
  /\ IF endpoints[c] > 0
     THEN endpoints' = [endpoints EXCEPT ![c] = @ - 1] /\ UNCHANGED pc
     ELSE Goto(c, "failed") /\ UNCHANGED endpoints
  /\ UNCHANGED <<server, link, got>>

\* How far the outstanding async_read() goes.
Target(c) == IF pc[c] = "header" THEN HeaderLen ELSE Total
Reading(c) == pc[c] \in {"header", "data"}

ReadSome(c) ==
  /\ Reading(c)
  /\ \E n \in 1..(Target(c) - got[c]) :
       /\ got[c] + n <= sent[c]
       /\ got' = [got EXCEPT ![c] = @ + n]
  /\ UNCHANGED <<server, link, pc, endpoints>>

\* handle_read_header(): the length in, async_read() of the data.
HandleReadHeader(c) ==
  /\ pc[c] = "header" /\ got[c] = HeaderLen
  /\ Goto(c, "data")
  /\ UNCHANGED <<server, link, endpoints, got>>

\* Mutant: the handler takes what one read has brought.
HandleReadData_Partial(c) ==
  /\ pc[c] = "data" /\ got[c] > HeaderLen
  /\ Goto(c, IF decodable THEN "printed" ELSE "failed")
  /\ UNCHANGED <<server, link, endpoints, got>>

\* handle_read_data() and handle_read(): print, or report what the archive
\* has thrown.
HandleReadData(c) ==
  /\ pc[c] = "data" /\ got[c] = Total
  /\ Goto(c, IF decodable THEN "printed" ELSE "failed")
  /\ UNCHANGED <<server, link, endpoints, got>>

\* End of file, or a reset connection, before the target.
HandleReadError(c) ==
  /\ Reading(c) /\ got[c] < Target(c)
  /\ conn[c] = "closed" /\ got[c] = sent[c]
  /\ Goto(c, "failed")
  /\ UNCHANGED <<server, link, endpoints, got>>

\* The client process is killed.
ClientDies(c) ==
  /\ pc[c] \in {"start", "connect", "header", "data"}
  /\ Goto(c, "gone")
  /\ UNCHANGED <<server, link, endpoints, got>>

AcceptStep(c) == HandleAccept(c) \/ HandleAcceptError(c)
WriteStep(c) == WriteSome(c) \/ HandleWrite(c)
ConnectStep(c) == Resolve(c) \/ HandleConnect(c) \/ HandleConnectError(c)
ReadStep(c) ==
  \/ ReadSome(c) \/ HandleReadHeader(c) \/ HandleReadData(c) \/ HandleReadError(c)

Ended(c) == pc[c] \in {"printed", "failed", "gone"}

Done == /\ \A c \in Clients : Ended(c) /\ conn[c] \in {"none", "closed"}
        /\ UNCHANGED vars

Next ==
  \/ \E c \in Clients : AcceptStep(c) \/ WriteStep(c) \/ ConnectStep(c)
                        \/ ReadStep(c) \/ ClientDies(c)
  \/ ServerStops \/ Done

\* The event loops run on and TCP delivers; a client that may stall is under
\* no obligation to read, and nothing has to crash.
Spec ==
  /\ Init /\ [][Next]_vars
  /\ \A c \in Clients :
       /\ WF_vars(AcceptStep(c)) /\ WF_vars(WriteStep(c))
       /\ c \notin MayStall => WF_vars(ConnectStep(c)) /\ WF_vars(ReadStep(c))

-------------------------------------------------------------------------------
TypeOK ==
  /\ running \in BOOLEAN /\ accepting \in BOOLEAN /\ decodable \in BOOLEAN
  /\ conn \in [Clients -> {"none", "queued", "writing", "closed"}]
  /\ sent \in [Clients -> 0..Total]
  /\ pc \in [Clients -> {"start", "connect", "header", "data", "printed",
                         "failed", "gone"}]
  /\ endpoints \in [Clients -> 0..(MaxEndpoints - 1)]
  /\ got \in [Clients -> 0..Total]
  /\ \A c \in Clients : got[c] <= sent[c]

\* A client prints the particles only after the last byte of them, however
\* the stream was cut and whenever the server stopped (async_read, 90 and
\* 126, handle_read_data, 133-162).
PrintsWholeMessage == \A c \in Clients : pc[c] = "printed" => got[c] = Total

\* A client that keeps reading comes to an end, with the particles or with an
\* error, whatever the other clients do: no stalled client and no failed
\* accept keeps the server from serving it (handle_accept, 52-70).
NotHeldUp == \A c \in Clients \ MayStall : <>Ended(c)

\* The server lets go of every connection it serves once the client has read
\* the message or died, though no statement closes it (handle_write, 73-78).
Released ==
  \A c \in Clients :
    conn[c] = "writing" /\ (got[c] = Total \/ pc[c] = "gone")
      ~> conn[c] = "closed"
===============================================================================
