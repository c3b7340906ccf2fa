------------------------------- MODULE ThriftRpc ------------------------------
(***************************************************************************)
(* Calls of the HBase gateway through the generated code: the processor    *)
(* that serves one connection, and a client at the other end of it, either *)
(* HbaseClient, which only the program's main thread uses, or              *)
(* HbaseConcurrentClient, which threads share.                             *)
(*                                                                         *)
(* The concurrent client sends under a write lock and gives every call a   *)
(* number of its own.  A thread that waits for a reply holds the read      *)
(* lock; if the message it gets is another thread's it leaves it pending,  *)
(* wakes its owner and lets go of the lock.  The lock, the monitors and    *)
(* the numbers belong to Thrift's TConcurrentClientSyncInfo.               *)
(***************************************************************************)
EXTENDS ThriftStruct, Sequences

CONSTANTS Clients,        \* the clients to look at
          Threads,
          Main,           \* the thread that uses HbaseClient
          Methods,        \* the methods the program calls
          Shared,         \* those it calls from several threads
          Args, Results,  \* the fields of each method's arguments and result
          Structs,        \* the fields of each struct
          Unserved,       \* methods this gateway does not know
          Ifaces,         \* how many implementations an HbaseMultiface calls
          Foreign,        \* fields that only the other side's version has
          ArgValues,      \* the arguments a method may be called with
          ReturnValues,   \* what it may return
          Thrown,         \* the exceptions' contents
          Seqids,
          Nothing         \* no thread, no number, no outcome

Single == "HbaseClient"
Concurrent == "HbaseConcurrentClient"

ASSUME ServiceAssumption ==
  /\ Clients \subseteq {Single, Concurrent}
  /\ Shared \subseteq Methods
  /\ Main \in Threads /\ Ifaces \in Nat \ {0}
  /\ Nothing \notin Threads /\ Nothing \notin Seqids /\ 0 \in Seqids
  /\ \A s \in DOMAIN Structs : WellFormed(Structs[s])
  /\ \A m \in Methods : WellFormed(Args[m]) /\ WellFormed(Results[m])
  /\ \A m \in Methods : \A f \in Args[m] \cup Results[m], w \in Foreign : ~Takes(f, w)

VARIABLES client,     \* which of the two clients the program uses
          connected,  \* the connection stands
          pc,         \* a thread: "idle", "number", "send", "recv", "look", "wait"
          call,       \* the method and arguments it has called
          seq,        \* the number of its call
          answer,     \* what its last call came to
          requests,   \* messages to the gateway; it works on the first
          step,       \* the implementation to be called next, or the reply
          result,     \* the processor's "result"
          replies,    \* messages from the gateway
          reader,     \* the thread that holds the read lock
          pending,    \* the number on the message whose header has been read
          wakeup, stop, notified,    \* the monitors' conditions
          made        \* history: the calls carried out for threads that wait

vars == <<client, connected, pc, call, seq, answer, requests, step, result,
          replies, reader, pending, wakeup, stop, notified, made>>
serverVars == <<requests, step, result, made>>
syncVars == <<reader, pending, wakeup, stop, notified>>

Init ==
  /\ client \in Clients /\ connected = TRUE
  /\ pc = [t \in Threads |-> "idle"]
  /\ call = [t \in Threads |-> Nothing]
  /\ seq = [t \in Threads |-> Nothing]
  /\ answer = [t \in Threads |-> Nothing]
  /\ requests = <<>> /\ step = 0 /\ result = Nothing /\ replies = <<>>
  /\ reader = Nothing /\ pending = Nothing
  /\ wakeup = FALSE /\ stop = FALSE /\ notified = {}
  /\ made = [t \in Threads |-> Nothing]

-------------------------------------------------------------------------------
\* Outcomes and answers have a kind, the name of the exception and a value.
Outcome(kind, name, value) == [kind |-> kind, name |-> name, value |-> value]

Void(m) == "success" \notin Names(Results[m])
Exceptions(m) == {f \in Results[m] : f.name # "success"}

\* What an implementation of method m may do: return, throw an exception that
\* m declares, throw another one, or one that only a newer gateway declares.
OutcomesOf(m) ==
  {Outcome("return", "none", r) : r \in ReturnValues[m]}
  \cup {Outcome("throw", f.name, x) : f \in Exceptions(m), x \in Thrown}
  \cup {Outcome("other", "none", Nothing)}
  \cup {Outcome("newer", "none", Nothing) : f \in Foreign}

Application == Outcome("application", "none", Nothing)
Missing == Outcome("missing", "none", Nothing)
Garbled == Outcome("garbled", "none", Nothing)
Transport == Outcome("transport", "none", Nothing)

\* Values are such as the generated classes can hold.
ASSUME ValuesAssumption ==
  /\ \A m \in Methods : \A a \in ArgValues[m] :
       Fits(Args[m], a) /\ \A f \in Args[m] : f.name \in DOMAIN a => Member(Structs, f, a[f.name])
  /\ \A m \in Methods : IF Void(m) THEN ReturnValues[m] = {Nothing}
                        ELSE \A r \in ReturnValues[m] :
                               Member(Structs, Named(Results[m], "success"), r)
  /\ \A m \in Methods : \A f \in Exceptions(m), x \in Thrown : Member(Structs, f, x)

-------------------------------------------------------------------------------
(* The processor *)

Serving == Head(requests)

ArgsReceived ==
  LET fields == Args[Serving.name]
  IN Decode(Structs, fields, Read(fields, Serving.body))

\* The members of the result struct after the call.
ResultMembers(m, o) ==
  [name \in {n \in Names(Results[m]) : \/ o.kind = "return" /\ n = "success"
                                       \/ o.kind = "throw" /\ n = o.name} |-> o.value]

Message(type, body) ==
  [type |-> type, name |-> Serving.name, seqid |-> Serving.seqid, body |-> body]

\* The result as it is written; a newer gateway's exception has a field that
\* this version does not know.
ResultSent(m, o) ==
  WriteResult(Results[m], Encode(Structs, Results[m], ResultMembers(m, o)))
  \cup IF o.kind = "newer" THEN Foreign ELSE {}

Reply(o) ==
  IF o.kind = "other" THEN Message("T_EXCEPTION", {})
                      ELSE Message("T_REPLY", ResultSent(Serving.name, o))

Answered(message) ==
  /\ replies' = Append(replies, message)
  /\ requests' = Tail(requests)
  /\ step' = 0 /\ result' = Nothing

\* A call of an unknown method is skipped and not answered.
DispatchCall_Silent ==
  /\ connected /\ requests # <<>> /\ step = 0
  /\ IF Serving.name \in Unserved
     THEN requests' = Tail(requests) /\ UNCHANGED step
     ELSE step' = 1 /\ UNCHANGED requests
  /\ UNCHANGED <<client, connected, pc, call, seq, answer, result, replies, made, syncVars>>

\* dispatchCall() finds the method; an unknown one is answered at once.
DispatchCall ==
  /\ connected /\ requests # <<>> /\ step = 0
  /\ IF Serving.name \in Unserved
     THEN Answered(Message("T_EXCEPTION", {}))
     ELSE step' = 1 /\ UNCHANGED <<requests, result, replies>>
  /\ UNCHANGED <<client, connected, pc, call, seq, answer, made, syncVars>>

\* The first implementation's return value ends the call.
CallIface_FirstOnly ==
  /\ connected /\ requests # <<>> /\ step \in 1..Ifaces
  /\ \E o \in OutcomesOf(Serving.name) :
       /\ step' = Ifaces + 1 /\ result' = o
       /\ made' = [made EXCEPT ![Serving.from] =
            [call |-> [method |-> Serving.name, args |-> ArgsReceived],
             outcome |-> o, ifaces |-> step]]
  /\ UNCHANGED <<client, connected, pc, call, seq, answer, requests, replies, syncVars>>

\* HbaseMultiface calls its implementations one by one.  What the last one
\* returns is the result; an exception of any of them ends the call.
CallIface ==
  /\ connected /\ requests # <<>> /\ step \in 1..Ifaces
  /\ \E o \in OutcomesOf(Serving.name) :
       IF o.kind = "return" /\ step < Ifaces
       THEN step' = step + 1 /\ UNCHANGED <<result, made>>
       ELSE /\ step' = Ifaces + 1
            /\ result' = o
            /\ made' =
                 IF seq[Serving.from] # Serving.seqid THEN made
                 ELSE [made EXCEPT ![Serving.from] =
                        [call |-> [method |-> Serving.name, args |-> ArgsReceived],
                         outcome |-> o,
                         ifaces |-> IF o.kind = "return" THEN step ELSE step - 1]]
  /\ UNCHANGED <<client, connected, pc, call, seq, answer, requests, replies, syncVars>>

\* The return after writing an exception is missing.
ProcessReply_FallsThrough ==
  /\ connected /\ requests # <<>> /\ step = Ifaces + 1
  /\ requests' = Tail(requests) /\ step' = 0 /\ result' = Nothing
  /\ replies' = IF result.kind = "other"
                THEN replies \o <<Reply(result), Message("T_REPLY", {})>>
                ELSE Append(replies, Reply(result))
  /\ UNCHANGED <<client, connected, pc, call, seq, answer, made, syncVars>>

ProcessReply ==
  /\ connected /\ requests # <<>> /\ step = Ifaces + 1
  /\ Answered(Reply(result))
  /\ UNCHANGED <<client, connected, pc, call, seq, answer, made, syncVars>>

-------------------------------------------------------------------------------
(* Both clients *)

InCall(t) == pc[t] # "idle"

\* Only the concurrent client may be used by several threads.
Call(t) ==
  /\ ~InCall(t)
  /\ client = Single => t = Main
  /\ \E m \in IF client = Single THEN Methods ELSE Shared : \E a \in ArgValues[m] :
       call' = [call EXCEPT ![t] = [method |-> m, args |-> a]]
  /\ IF client = Single
     THEN pc' = [pc EXCEPT ![t] = "send"] /\ seq' = [seq EXCEPT ![t] = 0]
     ELSE pc' = [pc EXCEPT ![t] = "number"] /\ UNCHANGED seq
  /\ answer' = [answer EXCEPT ![t] = Nothing]
  /\ made' = [made EXCEPT ![t] = Nothing]
  /\ UNCHANGED <<client, connected, requests, step, result, replies, syncVars>>

EndCall(t, a) ==
  /\ pc' = [pc EXCEPT ![t] = "idle"]
  /\ seq' = [seq EXCEPT ![t] = Nothing]
  /\ answer' = [answer EXCEPT ![t] = a]
  /\ UNCHANGED <<client, connected, call, requests, step, result, made>>

\* A sentry that goes away without commit() marks the connection as bad.
MarkBad ==
  /\ stop' = TRUE /\ wakeup' = TRUE
  /\ notified' = {t \in Threads : pc[t] = "wait"}

ArgsSent(c) ==
  Write(Args[c.method], Encode(Structs, Args[c.method], c.args)) \cup Foreign

Send(t) ==
  /\ pc[t] = "send" /\ connected
  /\ pc' = [pc EXCEPT ![t] = "recv"]
  /\ requests' = Append(requests, [from |-> t, name |-> call[t].method,
                                   seqid |-> seq[t], body |-> ArgsSent(call[t])])
  /\ UNCHANGED <<client, connected, call, seq, answer, step, result, replies, made, syncVars>>

SendFails(t) ==
  /\ pc[t] = "send" /\ ~connected
  /\ EndCall(t, Transport)
  /\ IF client = Single THEN UNCHANGED <<stop, wakeup, notified>> ELSE MarkBad
  /\ UNCHANGED <<replies, reader, pending>>

\* recv_...(): what a message that the caller of m takes for its reply means.
\* After a message that is no reply to m the code reads on in the wrong place.
Received(m, message) ==
  LET fields == Results[m]
      v == Decode(Structs, fields, Read(fields, message.body))
      first == CHOOSE f \in fields :
                 /\ f.name \in DOMAIN v
                 /\ \A g \in fields : g.name \in DOMAIN v => f.id <= g.id
  IN IF message.type = "T_EXCEPTION" THEN Application
     ELSE IF message.type # "T_REPLY" \/ message.name # m THEN Garbled
     ELSE IF "success" \in DOMAIN v THEN Outcome("return", "none", v["success"])
     ELSE IF DOMAIN v # {} THEN Outcome("throw", first.name, v[first.name])
     ELSE IF Void(m) THEN Outcome("return", "none", Nothing)
     ELSE Missing

-------------------------------------------------------------------------------
(* HbaseClient *)

Recv(t) ==
  /\ client = Single /\ pc[t] = "recv" /\ replies # <<>>
  /\ EndCall(t, Received(call[t].method, Head(replies)))
  /\ replies' = Tail(replies)
  /\ UNCHANGED syncVars

RecvFails(t) ==
  /\ client = Single /\ pc[t] = "recv" /\ replies = <<>> /\ ~connected
  /\ EndCall(t, Transport)
  /\ UNCHANGED <<replies, syncVars>>

-------------------------------------------------------------------------------
(* HbaseConcurrentClient *)

GenerateSeqId(t) ==
  /\ pc[t] = "number" /\ ~stop
  /\ \E s \in Seqids :
       /\ \A u \in Threads : seq[u] # s
       /\ seq' = [seq EXCEPT ![t] = s]
  /\ pc' = [pc EXCEPT ![t] = "send"]
  /\ UNCHANGED <<client, connected, call, answer, serverVars, replies, syncVars>>

GenerateSeqIdFails(t) ==
  /\ pc[t] = "number" /\ stop
  /\ EndCall(t, Transport)
  /\ UNCHANGED <<replies, syncVars>>

\* The TConcurrentRecvSentry takes the read lock ...
EnterRecv(t) ==
  /\ client = Concurrent /\ pc[t] = "recv" /\ reader = Nothing
  /\ reader' = t
  /\ pc' = [pc EXCEPT ![t] = "look"]
  /\ UNCHANGED <<client, connected, call, seq, answer, serverVars, replies,
                 pending, wakeup, stop, notified>>

\* ... and when it goes away after commit() wakes another thread that waits.
Commit(t) ==
  /\ wakeup' = TRUE /\ reader' = Nothing
  /\ LET others == {u \in Threads \ {t} : seq[u] # Nothing}
     IN \/ others = {} /\ UNCHANGED notified
        \/ \E u \in others :
             notified' = notified \cup (IF pc[u] = "wait" THEN {u} ELSE {})
  /\ UNCHANGED stop

LeaveRecv(t, a) ==
  /\ EndCall(t, a)
  /\ IF a.kind \in {"return", "throw", "application"}
     THEN Commit(t)
     ELSE MarkBad /\ reader' = Nothing

\* The number on the next message; its header may have been read already.
Rseqid == IF pending # Nothing THEN pending ELSE Head(replies).seqid

TakeReply(t) ==
  /\ pc[t] = "look" /\ ~stop /\ replies # <<>> /\ Rseqid = seq[t]
  /\ LeaveRecv(t, Received(call[t].method, Head(replies)))
  /\ replies' = Tail(replies) /\ pending' = Nothing

\* The reader waits with the lock in its hands.
HandOver_KeepsLock(t) ==
  /\ pc[t] = "look" /\ ~stop
  /\ pending # Nothing \/ replies # <<>>
  /\ Rseqid # seq[t]
  /\ pending' = Rseqid /\ wakeup' = FALSE
  /\ pc' = [pc EXCEPT ![t] = "wait"]
  /\ notified' = notified \cup {u \in Threads : seq[u] = Rseqid /\ pc[u] = "wait"}
  /\ UNCHANGED <<client, connected, call, seq, answer, serverVars, replies, reader, stop>>

\* updatePending() and waitForWork(): the message is another thread's.
HandOver(t) ==
  /\ pc[t] = "look" /\ ~stop
  /\ pending # Nothing \/ replies # <<>>
  /\ Rseqid # seq[t]
  /\ pending' = Rseqid
  /\ LET owners == {u \in Threads : seq[u] = Rseqid}
     IN IF owners = {} THEN LeaveRecv(t, Garbled)
        ELSE /\ pc' = [pc EXCEPT ![t] = "wait"]
             /\ reader' = Nothing /\ wakeup' = FALSE
             /\ notified' = notified \cup {u \in owners : pc[u] = "wait"}
             /\ UNCHANGED <<client, connected, call, seq, answer, serverVars, stop>>
  /\ UNCHANGED replies

LookFails(t) ==
  /\ pc[t] = "look"
  /\ \/ stop
     \/ ~connected /\ replies = <<>> /\ pending \in {Nothing, seq[t]}
  /\ LeaveRecv(t, Transport)
  /\ UNCHANGED <<replies, pending>>

\* A thread that has been notified gets the lock back and looks again, unless
\* there is nothing for it after all.
WakeUp(t) ==
  /\ pc[t] = "wait" /\ t \in notified /\ reader = Nothing
  /\ notified' = notified \ {t}
  /\ IF stop \/ wakeup \/ pending = seq[t]
     THEN reader' = t /\ pc' = [pc EXCEPT ![t] = "look"]
     ELSE UNCHANGED <<reader, pc>>
  /\ UNCHANGED <<client, connected, call, seq, answer, serverVars, replies,
                 pending, wakeup, stop>>

-------------------------------------------------------------------------------
\* The connection breaks; some of the replies under way may still arrive.
\* Whether the gateway ends what it is doing is nothing a caller learns.
Disconnect ==
  /\ connected /\ connected' = FALSE
  /\ requests' = <<>> /\ step' = 0 /\ result' = Nothing
  /\ \E n \in 0..Len(replies) : replies' = SubSeq(replies, 1, n)
  /\ UNCHANGED <<client, pc, call, seq, answer, made, syncVars>>

Serve == DispatchCall \/ CallIface \/ ProcessReply

Proceed(t) ==
  \/ Send(t) \/ SendFails(t)
  \/ Recv(t) \/ RecvFails(t)
  \/ GenerateSeqId(t) \/ GenerateSeqIdFails(t)
  \/ EnterRecv(t) \/ TakeReply(t) \/ HandOver(t) \/ LookFails(t) \/ WakeUp(t)

Next == Serve \/ Disconnect \/ \E t \in Threads : Call(t) \/ Proceed(t)

Spec == Init /\ [][Next]_vars /\ WF_vars(Serve) /\ \A t \in Threads : WF_vars(Proceed(t))

-------------------------------------------------------------------------------
(* Properties *)

AllOutcomes == UNION {OutcomesOf(m) : m \in Methods}
AllAnswers == AllOutcomes \cup {Application, Missing, Garbled, Transport}
AllCalls == {[method |-> m, args |-> a] : m \in Methods, a \in UNION {ArgValues[n] : n \in Methods}}

\* Nothing is neither a call nor an entry of the history.
ASSUME HistoryAssumption ==
  /\ Nothing \notin AllCalls
  /\ Nothing \notin [call : AllCalls, outcome : AllOutcomes]
  /\ Nothing \notin [call : AllCalls, outcome : AllOutcomes, ifaces : Nat]

\* The state has its type; the thread that holds the read lock is the one that
\* looks at the connection.
TypeOK ==
  /\ client \in Clients /\ connected \in BOOLEAN
  /\ pc \in [Threads -> {"idle", "number", "send", "recv", "look", "wait"}]
  /\ call \in [Threads -> AllCalls \cup {Nothing}]
  /\ seq \in [Threads -> Seqids \cup {Nothing}]
  /\ step \in 0..(Ifaces + 1) /\ result \in AllOutcomes \cup {Nothing}
  /\ reader \in Threads \cup {Nothing} /\ pending \in Seqids \cup {Nothing}
  /\ wakeup \in BOOLEAN /\ stop \in BOOLEAN /\ notified \subseteq Threads
  /\ \A t \in Threads : pc[t] = "look" <=> reader = t

\* A message under way belongs to one thread that waits for it, which has
\* called the method the message names; no other message has its number.  So
\* no thread can read another's reply or lose its own (HbaseClient does not
\* look at the number at all).
Matched ==
  ~stop =>
    LET messages == requests \o replies
    IN \A i \in DOMAIN messages :
         /\ \A j \in DOMAIN messages : messages[i].seqid = messages[j].seqid => i = j
         /\ \E t \in Threads :
              /\ pc[t] \in {"recv", "look", "wait"} /\ seq[t] = messages[i].seqid
              /\ call[t].method = messages[i].name

\* A call that returns normally has been carried out with the arguments it was
\* given, by every implementation, and what it returns is the last one's
\* result.  The exception: a method without a result, of which a newer
\* gateway has thrown something this client's version does not know.
SuccessMeansDone ==
  \A t \in Threads :
    ~InCall(t) /\ answer[t] # Nothing /\ answer[t].kind = "return" =>
      /\ made[t] # Nothing /\ made[t].call = call[t]
      /\ \/ made[t].outcome = answer[t] /\ made[t].ifaces = Ifaces
         \/ made[t].outcome.kind = "newer" /\ Void(call[t].method)

\* Whichever client is used, every call does what a call promises.
OutcomesOfCall(c) == OutcomesOf(c.method)
Asked == [t \in Threads |-> IF InCall(t) THEN call[t] ELSE Nothing]
History == [t \in Threads |->
              IF made[t] = Nothing THEN Nothing
              ELSE [call |-> made[t].call, outcome |-> made[t].outcome]]
Abstract ==
  INSTANCE Rpc WITH
    Calls <- AllCalls, Outcomes <- OutcomesOfCall,
    Substitutes <- {Application, Missing, Transport, Outcome("return", "none", Nothing)},
    asked <- Asked, made <- History
ImplementsRpc == Abstract!Spec
===============================================================================
