--------------------------- MODULE ThriftRpc_proofs ---------------------------
(***************************************************************************)
(* Proofs about ThriftStruct and ThriftRpc: for every set of structs and   *)
(* methods, every number of threads and of implementations, and every set  *)
(* of fields that only the other side knows.                               *)
(***************************************************************************)
EXTENDS ThriftRpc, SequenceTheorems, TLAPS

(* Structs on the wire *)

\* A name belongs to one field.
LEMMA NamedIsUnique ==
  ASSUME NEW fields, WellFormed(fields), NEW f \in fields
  PROVE  Named(fields, f.name) = f
BY DEF Named, WellFormed

\* What write() (Hbase.cpp, 57-69) has written read() (16-55) reads back,
\* whatever fields of another version are among it.
THEOREM RoundTrip ==
  ASSUME NEW fields, NEW v, NEW others, WellFormed(fields),
         v = [name \in DOMAIN v |-> v[name]], DOMAIN v \subseteq Names(fields),
         \A f \in fields, w \in others : ~Takes(f, w)
  PROVE  Read(fields, Write(fields, v) \cup others) = v
<1> DEFINE wire == Write(fields, v) \cup others
<1>1. ASSUME NEW f \in fields, NEW w \in wire, Takes(f, w)
      PROVE  f.name \in DOMAIN v /\ w = OnWire(f, v[f.name])
  <2>1. PICK g \in fields : g.name \in DOMAIN v /\ w = OnWire(g, v[g.name])
    BY <1>1 DEF Write
  <2>2. g = f
    BY <1>1, <2>1 DEF OnWire, Takes, WellFormed
  <2> QED
    BY <2>1, <2>2
<1>2. ASSUME NEW f \in fields, f.name \in DOMAIN v
      PROVE  OnWire(f, v[f.name]) \in wire /\ Takes(f, OnWire(f, v[f.name]))
  BY <1>2 DEF Write, OnWire, Takes
<1>3. {f.name : f \in {g \in fields : \E w \in wire : Takes(g, w)}} = DOMAIN v
  <2>1. \A f \in fields : (\E w \in wire : Takes(f, w)) <=> f.name \in DOMAIN v
    BY <1>1, <1>2
  <2> HIDE DEF wire
  <2>2. \A name \in DOMAIN v : \E f \in fields : f.name = name
    BY DEF Names
  <2> QED
    BY <2>1, <2>2
<1>4. ASSUME NEW name \in DOMAIN v
      PROVE  (CHOOSE w \in wire : Takes(Named(fields, name), w)).value = v[name]
  <2>1. PICK f \in fields : f.name = name
    BY DEF Names
  <2>2. Named(fields, name) = f
    BY <2>1, NamedIsUnique
  <2>3. /\ OnWire(f, v[name]) \in wire
        /\ \A w \in wire : Takes(Named(fields, name), w) <=> w = OnWire(f, v[name])
    BY <1>1, <1>2, <2>1, <2>2
  <2> HIDE DEF wire
  <2>4. (CHOOSE w \in wire : Takes(Named(fields, name), w)) = OnWire(f, v[name])
    BY <2>3
  <2>5. OnWire(f, v[name]).value = v[name]
    BY DEF OnWire
  <2> QED
    BY <2>4, <2>5
<1>5. Read(fields, wire) = [name \in DOMAIN v |-> v[name]]
  BY <1>3, <1>4 DEF Read
<1> QED
  BY <1>5

\* Of a value with one member write() of a result writes this one.
LEMMA WriteResultOfOne ==
  ASSUME NEW fields, NEW v, WellFormed(fields), \A a, b \in DOMAIN v : a = b
  PROVE  WriteResult(fields, v) = Write(fields, v)
<1>1. ASSUME NEW g \in fields, g.name \in DOMAIN v, NEW h \in fields, h.name \in DOMAIN v
      PROVE  g.id <= h.id
  BY <1>1 DEF WellFormed
<1> QED
  BY <1>1 DEF WriteResult, Write

\* Members that are structs come back as they were.
LEMMA DecodeEncode ==
  ASSUME NEW structs, NEW fields, NEW v, WellFormed(fields),
         \A s \in DOMAIN structs : WellFormed(structs[s]),
         v = [name \in DOMAIN v |-> v[name]], DOMAIN v \subseteq Names(fields),
         \A f \in fields : f.name \in DOMAIN v => Member(structs, f, v[f.name])
  PROVE  Decode(structs, fields, Encode(structs, fields, v)) = v
<1> DEFINE e == Encode(structs, fields, v)
<1>1. e = [name \in DOMAIN v |-> e[name]] /\ DOMAIN e = DOMAIN v
  BY DEF Encode
<1>2. ASSUME NEW name \in DOMAIN v
      PROVE  Decode(structs, fields, e)[name] = v[name]
  <2>1. PICK f \in fields : f.name = name
    BY DEF Names
  <2>2. Named(fields, name) = f
    BY <2>1, NamedIsUnique
  <2>3. CASE f.of \in DOMAIN structs
    <3>1. Fits(structs[f.of], v[name])
      BY <2>1, <2>3 DEF Member
    <3>2. Read(structs[f.of], Write(structs[f.of], v[name]) \cup {}) = v[name]
      BY <2>3, <3>1, RoundTrip, Zenon DEF Fits
    <3>3. e[name] = Write(structs[f.of], v[name])
      BY <2>2, <2>3 DEF Encode
    <3>4. Decode(structs, fields, e)[name] = Read(structs[f.of], e[name])
      BY <1>1, <2>2, <2>3 DEF Decode
    <3> QED
      BY <3>2, <3>3, <3>4
  <2>4. CASE f.of \notin DOMAIN structs
    BY <1>1, <2>2, <2>4 DEF Decode, Encode
  <2> QED
    BY <2>3, <2>4
<1>3. Decode(structs, fields, e) = [name \in DOMAIN v |-> Decode(structs, fields, e)[name]]
  BY <1>1 DEF Decode
<1>4. Decode(structs, fields, e) = [name \in DOMAIN v |-> v[name]]
  BY <1>2, <1>3
<1> QED
  BY <1>4

-------------------------------------------------------------------------------
(* Requests and replies *)

\* The implementation is called with the arguments the caller gave.
LEMMA ArgsArrive ==
  ASSUME NEW m \in Methods, NEW a \in ArgValues[m]
  PROVE  Decode(Structs, Args[m], Read(Args[m], ArgsSent([method |-> m, args |-> a]))) = a
<1> DEFINE e == Encode(Structs, Args[m], a)
<1>1. /\ WellFormed(Args[m]) /\ Fits(Args[m], a)
      /\ \A s \in DOMAIN Structs : WellFormed(Structs[s])
      /\ \A f \in Args[m] : f.name \in DOMAIN a => Member(Structs, f, a[f.name])
      /\ \A f \in Args[m], w \in Foreign : ~Takes(f, w)
  BY ServiceAssumption, ValuesAssumption
<1>2. e = [name \in DOMAIN e |-> e[name]] /\ DOMAIN e = DOMAIN a
  BY DEF Encode
<1>3. Read(Args[m], Write(Args[m], e) \cup Foreign) = e
  <2> HIDE DEF e
  <2> QED
    BY <1>1, <1>2, RoundTrip DEF Fits
<1>4. Decode(Structs, Args[m], e) = a
  BY <1>1, DecodeEncode DEF Fits
<1> QED
  BY <1>3, <1>4 DEF ArgsSent

\* What an implementation may come to, by its kind.
LEMMA OutcomeCases ==
  ASSUME NEW m \in Methods, NEW o \in OutcomesOf(m)
  PROVE  /\ o = Outcome(o.kind, o.name, o.value)
         /\ \/ o.kind = "return" /\ o.name = "none" /\ o.value \in ReturnValues[m]
            \/ o.kind = "throw" /\ o.value \in Thrown /\ \E f \in Exceptions(m) : o.name = f.name
            \/ o.kind \in {"other", "newer"}
<1>1. CASE o \in {Outcome("return", "none", r) : r \in ReturnValues[m]}
  BY <1>1 DEF Outcome
<1>2. CASE o \in {Outcome("throw", f.name, x) : f \in Exceptions(m), x \in Thrown}
  <2>1. PICK f \in Exceptions(m), x \in Thrown : o = Outcome("throw", f.name, x)
    BY <1>2
  <2> QED
    BY <2>1 DEF Outcome
<1>3. CASE o \in {Outcome("other", "none", Nothing)}
  BY <1>3 DEF Outcome
<1>4. CASE o \in {Outcome("newer", "none", Nothing) : f \in Foreign}
  BY <1>4 DEF Outcome
<1> QED
  BY <1>1, <1>2, <1>3, <1>4 DEF OutcomesOf

\* The members of a result are at most one, and a value of it.
LEMMA OneResultMember ==
  ASSUME NEW m \in Methods, NEW o \in OutcomesOf(m)
  PROVE  LET v == ResultMembers(m, o)
         IN /\ \A a, b \in DOMAIN v : a = b
            /\ DOMAIN v \subseteq Names(Results[m])
            /\ v = [name \in DOMAIN v |-> v[name]]
            /\ \A f \in Results[m] : f.name \in DOMAIN v => Member(Structs, f, v[f.name])
<1> DEFINE v == ResultMembers(m, o)
<1>1. /\ DOMAIN v = {n \in Names(Results[m]) : \/ o.kind = "return" /\ n = "success"
                                               \/ o.kind = "throw" /\ n = o.name}
      /\ v = [name \in DOMAIN v |-> o.value]
  BY DEF ResultMembers
<1>2. ASSUME NEW f \in Results[m], f.name \in DOMAIN v
      PROVE  Member(Structs, f, o.value)
  <2>1. CASE o.kind = "return"
    <3>1. f.name = "success" /\ Named(Results[m], "success") = f
      BY <1>1, <1>2, <2>1, NamedIsUnique, ServiceAssumption
    <3>2. o.value \in ReturnValues[m] /\ ~Void(m)
      BY <1>1, <1>2, <2>1, <3>1, OutcomeCases DEF Void
    <3> QED
      BY <3>1, <3>2, ValuesAssumption
  <2>2. CASE o.kind = "throw"
    <3>1. PICK g \in Exceptions(m) : g.name = o.name /\ o.value \in Thrown
      BY <2>2, OutcomeCases
    <3>2. g = f
      BY <1>1, <1>2, <2>2, <3>1, ServiceAssumption DEF Exceptions, WellFormed
    <3> QED
      BY <3>1, <3>2, ValuesAssumption
  <2> QED
    BY <1>1, <1>2, <2>1, <2>2
<1> QED
  BY <1>1, <1>2

\* recv_...() (Hbase.cpp, 12778-12817) tells the caller what the
\* implementation came to, unless only a newer gateway can know it.
THEOREM ReplyMeansOutcome ==
  ASSUME NEW m \in Methods, NEW o \in OutcomesOf(m), o.kind # "other", NEW message,
         message.type = "T_REPLY", message.name = m, message.body = ResultSent(m, o)
  PROVE  Received(m, message) = IF o.kind # "newer" THEN o
                                ELSE IF Void(m) THEN Outcome("return", "none", Nothing)
                                ELSE Missing
<1> DEFINE fields == Results[m]
           v == ResultMembers(m, o)
           e == Encode(Structs, fields, v)
           others == IF o.kind = "newer" THEN Foreign ELSE {}
<1>1. /\ \A a, b \in DOMAIN v : a = b
      /\ DOMAIN v \subseteq Names(fields)
      /\ v = [name \in DOMAIN v |-> v[name]]
      /\ \A f \in fields : f.name \in DOMAIN v => Member(Structs, f, v[f.name])
  BY OneResultMember
<1>2. /\ WellFormed(fields) /\ \A s \in DOMAIN Structs : WellFormed(Structs[s])
      /\ \A f \in fields, w \in others : ~Takes(f, w)
  BY ServiceAssumption
<1>3. e = [name \in DOMAIN e |-> e[name]] /\ DOMAIN e = DOMAIN v
  BY DEF Encode
<1>4. ResultSent(m, o) = Write(fields, e) \cup others
  <2>1. WriteResult(fields, e) = Write(fields, e)
    <3> HIDE DEF e, v
    <3> QED
      BY <1>1, <1>2, <1>3, WriteResultOfOne
  <2> QED
    BY <2>1 DEF ResultSent
<1>5. Read(fields, message.body) = e
  <2> HIDE DEF fields, e, v, others
  <2>1. Read(fields, Write(fields, e) \cup others) = e
    BY <1>1, <1>2, <1>3, RoundTrip
  <2> QED
    BY <1>4, <2>1
<1>6. Decode(Structs, fields, e) = v
  <2> HIDE DEF v
  <2> QED
    BY <1>1, <1>2, DecodeEncode
<1>7. CASE o.kind = "newer"
  BY <1>5, <1>6, <1>7 DEF Received, ResultMembers
<1>8. CASE o.kind = "return"
  <2>1. PICK r \in ReturnValues[m] : o = Outcome("return", "none", r)
    BY <1>8, OutcomeCases
  <2>2. CASE Void(m)
    <3>1. DOMAIN v = {} /\ o = Outcome("return", "none", Nothing)
      BY <1>8, <2>1, <2>2, ValuesAssumption DEF ResultMembers, Void
    <3> QED
      BY <1>5, <1>6, <1>8, <2>2, <3>1 DEF Received
  <2>3. CASE ~Void(m)
    <3>1. "success" \in DOMAIN v /\ v["success"] = r
      BY <1>8, <2>1, <2>3 DEF ResultMembers, Void, Outcome
    <3> QED
      BY <1>5, <1>6, <1>8, <2>1, <3>1 DEF Received
  <2> QED
    BY <2>2, <2>3
<1>9. CASE o.kind = "throw"
  <2>1. PICK g \in Exceptions(m), x \in Thrown : o = Outcome("throw", g.name, x)
    BY <1>9, OutcomeCases
  <2>2. DOMAIN v = {g.name} /\ v[g.name] = x /\ g \in fields /\ g.name # "success"
    BY <1>9, <2>1 DEF ResultMembers, Outcome, Exceptions, Names
  <2>3. \A f \in fields : f.name \in DOMAIN v => f = g
    BY <1>2, <2>2 DEF WellFormed
  <2>4. g.id <= g.id
    BY <1>2, <2>2 DEF WellFormed
  <2> DEFINE first == CHOOSE f \in fields :
                        /\ f.name \in DOMAIN v
                        /\ \A h \in fields : h.name \in DOMAIN v => f.id <= h.id
  <2>5. first = g
    <3> HIDE DEF v
    <3> QED
      BY <2>2, <2>3, <2>4
  <2>6. Received(m, message) = Outcome("throw", first.name, v[first.name])
    <3> HIDE DEF v, e
    <3> QED
      BY <1>5, <1>6, <2>2 DEF Received
  <2> HIDE DEF first, v
  <2> QED
    BY <1>9, <2>1, <2>2, <2>5, <2>6
<1>10. o.kind \in {"return", "throw", "other", "newer"}
  BY OutcomeCases
<1> QED
  BY <1>7, <1>8, <1>9, <1>10


-------------------------------------------------------------------------------
(* The types, and what a thread's place says of its call *)

GoodCalls == {c \in AllCalls : c.args \in ArgValues[c.method]}
RequestSet == [from : Threads, name : Methods, seqid : Seqids,
               body : {ArgsSent(c) : c \in GoodCalls}]
Bodies == {{}} \cup UNION {{ResultSent(m, o) : o \in OutcomesOf(m)} : m \in Methods}
ReplySet == [type : {"T_REPLY", "T_EXCEPTION"}, name : Methods, seqid : Seqids,
             body : Bodies]

TypeInv ==
  /\ TypeOK
  /\ requests \in Seq(RequestSet) /\ replies \in Seq(ReplySet)
  /\ answer = [t \in Threads |-> answer[t]] /\ made = [t \in Threads |-> made[t]]
  /\ \A t \in Threads : seq[t] = Nothing <=> pc[t] \in {"idle", "number"}
  /\ \A t \in Threads : InCall(t) => call[t] \in GoodCalls
  /\ step > 0 => requests # <<>>
  /\ step = Ifaces + 1 => result \in OutcomesOf(Serving.name)

\* Numbers belong to one thread; HbaseClient is Main's alone and leaves the
\* monitors as they were; a broken connection carries no requests; the pending
\* number is that of the message to be read next.
SyncInv ==
  /\ \A t, u \in Threads : seq[t] = seq[u] /\ seq[t] # Nothing => t = u
  /\ client = Single => /\ ~stop /\ pending = Nothing
                        /\ pc[Main] \in {"idle", "send", "recv"}
                        /\ \A t \in Threads \ {Main} : pc[t] = "idle"
  /\ ~connected => requests = <<>>
  /\ pending # Nothing => IF replies = <<>> THEN ~connected ELSE Head(replies).seqid = pending

Waits(t) == pc[t] \in {"recv", "look", "wait"}
Owns(t, message) ==
  Waits(t) /\ seq[t] = message.seqid /\ call[t].method = message.name

\* The message between a thread and the gateway is the thread's own call, or
\* the reply to it, and there is only one.
MessageInv ==
  ~stop =>
    /\ \A i \in DOMAIN requests : /\ Owns(requests[i].from, requests[i])
                                  /\ requests[i].body = ArgsSent(call[requests[i].from])
    /\ \A i \in DOMAIN replies : \E t \in Threads : Owns(t, replies[i])
    /\ \A i, j \in DOMAIN requests : requests[i].seqid = requests[j].seqid => i = j
    /\ \A i, j \in DOMAIN replies : replies[i].seqid = replies[j].seqid => i = j
    /\ \A i \in DOMAIN requests, j \in DOMAIN replies : requests[i].seqid # replies[j].seqid

\* What the history says of t's call when its outcome is o.
Carried(t, o) ==
  /\ made[t] # Nothing /\ made[t].call = call[t] /\ made[t].outcome = o
  /\ o.kind = "return" => made[t].ifaces = Ifaces

\* The result under way is that of the caller's own call ...
ResultInv ==
  ~stop /\ step = Ifaces + 1 => Carried(Serving.from, result)

\* ... and so is that in a reply.
RepliesInv ==
  ~stop =>
    \A i \in DOMAIN replies, t \in Threads :
      Owns(t, replies[i]) /\ replies[i].type = "T_REPLY" =>
        \E o \in OutcomesOf(replies[i].name) :
          /\ o.kind # "other" /\ Carried(t, o)
          /\ replies[i].body = ResultSent(replies[i].name, o)

\* In the next state t owns the message.
OwnsThen(t, message) ==
  /\ pc'[t] \in {"recv", "look", "wait"}
  /\ seq'[t] = message.seqid /\ call'[t].method = message.name

-------------------------------------------------------------------------------
\* A call has a method of the interface and a state its arguments fit.
LEMMA CallParts ==
  /\ GoodCalls \subseteq AllCalls
  /\ \A m \in Methods : \A a \in ArgValues[m] : [method |-> m, args |-> a] \in GoodCalls
  /\ \A c \in GoodCalls : /\ c.method \in Methods /\ c.args \in ArgValues[c.method]
                          /\ c = [method |-> c.method, args |-> c.args]
BY DEF GoodCalls, AllCalls

\* The service's outcomes are records of a kind and a value.
LEMMA OutcomesTyped ==
  ASSUME NEW m \in Methods, NEW o \in OutcomesOf(m)
  PROVE  o \in AllOutcomes
BY DEF AllOutcomes

\* What a message needs to be one of those under way.
LEMMA MessageParts ==
  /\ \A q \in RequestSet : q.from \in Threads /\ q.name \in Methods /\ q.seqid \in Seqids
  /\ \A r \in ReplySet : r.name \in Methods /\ r.seqid \in Seqids
  /\ \A m \in Methods : \A o \in OutcomesOf(m) : ResultSent(m, o) \in Bodies
  /\ {} \in Bodies
BY DEF RequestSet, ReplySet, Bodies

\* The type invariant holds before the first call.
LEMMA TypeInvInit == Init => TypeInv
<1> SUFFICES ASSUME Init PROVE TypeInv
  OBVIOUS
<1> USE ServiceAssumption DEF Init
<1>1. TypeOK
  <2>1. 0 \in 0..(Ifaces + 1)
    OBVIOUS
  <2>2. \A t \in Threads : pc[t] = "idle" /\ reader # t
    OBVIOUS
  <2>3. /\ client \in Clients /\ pending \in Seqids \cup {Nothing} /\ notified \subseteq Threads
        /\ pc \in [Threads -> {"idle", "number", "send", "recv", "look", "wait"}]
        /\ seq \in [Threads -> Seqids \cup {Nothing}]
        /\ call \in [Threads -> AllCalls \cup {Nothing}]
        /\ connected \in BOOLEAN /\ wakeup \in BOOLEAN /\ stop \in BOOLEAN
        /\ result \in AllOutcomes \cup {Nothing} /\ reader \in Threads \cup {Nothing}
    OBVIOUS
  <2> QED
    BY <2>1, <2>2, <2>3 DEF TypeOK
<1>2. requests \in Seq(RequestSet) /\ replies \in Seq(ReplySet)
  OBVIOUS
<1>3. \A t \in Threads : seq[t] = Nothing /\ pc[t] = "idle" /\ ~InCall(t)
  BY DEF InCall
<1>4. answer = [t \in Threads |-> answer[t]] /\ made = [t \in Threads |-> made[t]]
  OBVIOUS
<1>5. step = 0 /\ Ifaces + 1 # 0
  OBVIOUS
<1> QED
  BY <1>1, <1>2, <1>3, <1>4, <1>5 DEF TypeInv

\* A thread that ends its call lets go of the read lock.
LEMMA LeavingTyped ==
  ASSUME TypeInv, NEW t \in Threads, pc[t] = "look", NEW a, LeaveRecv(t, a),
         replies' \in Seq(ReplySet), pending' \in Seqids \cup {Nothing}
  PROVE  TypeInv'
<1>1. /\ EndCall(t, a) /\ reader' = Nothing
      /\ wakeup' = TRUE /\ stop' \in BOOLEAN /\ notified' \subseteq Threads
  <2>1. CASE Commit(t)
    BY <2>1 DEF LeaveRecv, MarkBad, Commit, TypeInv, TypeOK
  <2>2. CASE MarkBad
    BY <2>2 DEF LeaveRecv, MarkBad, Commit, TypeInv, TypeOK
  <2> QED
    BY <2>1, <2>2 DEF LeaveRecv
<1> QED
  BY <1>1, ServiceAssumption DEF EndCall, TypeInv, TypeOK, InCall, Serving

\* Every step of the threads and the server preserves the type invariant.
LEMMA TypeInvStep == TypeInv /\ [Next]_vars => TypeInv'
<1> SUFFICES ASSUME TypeInv, [Next]_vars PROVE TypeInv'
  OBVIOUS
<1> USE ServiceAssumption
<1>1. CASE UNCHANGED vars
  BY <1>1 DEF vars, TypeInv, TypeOK, InCall, Serving
<1>2. CASE DispatchCall
  <2>1. Serving \in RequestSet /\ Tail(requests) \in Seq(RequestSet)
    BY <1>2 DEF DispatchCall, TypeInv, Serving
  <2>2. Message("T_EXCEPTION", {}) \in ReplySet
    BY <2>1, MessageParts DEF Message, ReplySet
  <2>3. CASE Answered(Message("T_EXCEPTION", {}))
    BY <1>2, <2>1, <2>2, <2>3 DEF DispatchCall, Answered, syncVars, TypeInv, TypeOK, InCall
  <2>4. CASE step' = 1 /\ UNCHANGED <<requests, result, replies>>
    BY <1>2, <2>4 DEF DispatchCall, syncVars, TypeInv, TypeOK, InCall, Serving
  <2> QED
    BY <1>2, <2>3, <2>4 DEF DispatchCall
<1>3. CASE CallIface
  <2>1. Serving \in RequestSet
    BY <1>3 DEF CallIface, TypeInv, Serving
  <2>2. PICK o \in OutcomesOf(Serving.name) :
          \/ step < Ifaces /\ step' = step + 1 /\ UNCHANGED <<result, made>>
          \/ /\ step' = Ifaces + 1 /\ result' = o
             /\ \E r : made' \in {made, [made EXCEPT ![Serving.from] = r]}
    BY <1>3 DEF CallIface
  <2>3. o \in AllOutcomes
    BY <2>1, MessageParts, OutcomesTyped
  <2>4. step' \in 0..(Ifaces + 1) /\ result' \in AllOutcomes \cup {Nothing}
    BY <1>3, <2>2, <2>3 DEF CallIface, TypeInv, TypeOK
  <2>5. step' = Ifaces + 1 => result' \in OutcomesOf(Serving.name)
    BY <1>3, <2>2 DEF CallIface
  <2>6. made' = [u \in Threads |-> made'[u]]
    BY <2>2 DEF TypeInv
  <2>7. UNCHANGED <<client, connected, pc, call, seq, answer, requests, replies, syncVars>>
    BY <1>3 DEF CallIface
  <2> QED
    BY <1>3, <2>4, <2>5, <2>6, <2>7 DEF CallIface, TypeInv, TypeOK, InCall, Serving, syncVars
<1>4. CASE ProcessReply
  <2>1. Serving \in RequestSet /\ Tail(requests) \in Seq(RequestSet)
    BY <1>4 DEF ProcessReply, TypeInv, Serving
  <2>2. Reply(result) \in ReplySet
    BY <1>4, <2>1, MessageParts DEF ProcessReply, TypeInv, Reply, Message, ReplySet
  <2> QED
    BY <1>4, <2>1, <2>2
       DEF ProcessReply, Answered, syncVars, TypeInv, TypeOK, InCall, Serving
<1>5. CASE Disconnect
  <2>1. replies' \in Seq(ReplySet)
    BY <1>5, SubSeqProperties DEF Disconnect, TypeInv
  <2>2. requests' \in Seq(RequestSet) /\ step' = 0 /\ step' # Ifaces + 1
    BY <1>5 DEF Disconnect
  <2>3. TypeOK'
    <3>1. step' \in 0..(Ifaces + 1)
      BY <2>2
    <3>2. /\ connected' = FALSE /\ result' = Nothing
          /\ UNCHANGED <<client, pc, call, seq, reader, pending, wakeup, stop, notified>>
      BY <1>5 DEF Disconnect, syncVars
    <3> QED
      BY <3>1, <3>2 DEF TypeInv, TypeOK
  <2>4. UNCHANGED <<pc, call, seq, answer, made>>
    BY <1>5 DEF Disconnect
  <2> QED
    BY <2>1, <2>2, <2>3, <2>4 DEF TypeInv, InCall
<1>6. ASSUME NEW t \in Threads, Call(t)
      PROVE  TypeInv'
  <2>1. PICK c \in GoodCalls : call' = [call EXCEPT ![t] = c]
    BY <1>6, CallParts DEF Call
  <2>2. c \in AllCalls
    BY CallParts
  <2>3. /\ seq' \in [Threads -> Seqids \cup {Nothing}]
        /\ pc' \in [Threads -> {"idle", "number", "send", "recv", "look", "wait"}]
        /\ \A u \in Threads : seq'[u] = Nothing <=> pc'[u] \in {"idle", "number"}
        /\ pc[t] # "look" /\ pc'[t] # "look" /\ \A u \in Threads \ {t} : pc'[u] = pc[u]
    <3>1. pc[t] = "idle"
      BY <1>6 DEF Call, InCall
    <3>2. CASE pc' = [pc EXCEPT ![t] = "send"] /\ seq' = [seq EXCEPT ![t] = 0]
      BY <3>1, <3>2 DEF TypeInv, TypeOK
    <3>3. CASE pc' = [pc EXCEPT ![t] = "number"] /\ UNCHANGED seq
      BY <3>1, <3>3 DEF TypeInv, TypeOK
    <3> QED
      BY <1>6, <3>2, <3>3 DEF Call
  <2>4. TypeOK'
    BY <1>6, <2>1, <2>2, <2>3 DEF Call, syncVars, TypeInv, TypeOK
  <2>5. \A u \in Threads : InCall(u)' => call'[u] \in GoodCalls
    BY <2>1, <2>3 DEF TypeInv, TypeOK, InCall
  <2>6. answer' = [u \in Threads |-> answer'[u]] /\ made' = [u \in Threads |-> made'[u]]
    BY <1>6 DEF Call, TypeInv
  <2> QED
    BY <1>6, <2>3, <2>4, <2>5, <2>6 DEF Call, TypeInv, Serving
<1>7. ASSUME NEW t \in Threads, Send(t)
      PROVE  TypeInv'
  <2>1. [from |-> t, name |-> call[t].method, seqid |-> seq[t], body |-> ArgsSent(call[t])]
          \in RequestSet
    BY <1>7, CallParts DEF Send, TypeInv, TypeOK, InCall, RequestSet
  <2>2. requests' \in Seq(RequestSet) /\ requests' # <<>>
    BY <1>7, <2>1 DEF Send, TypeInv
  <2>3. requests # <<>> => Serving' = Serving
    BY <1>7, <2>1 DEF Send, TypeInv, Serving
  <2> QED
    BY <1>7, <2>2, <2>3 DEF Send, syncVars, TypeInv, TypeOK, InCall
<1>8. ASSUME NEW t \in Threads, SendFails(t)
      PROVE  TypeInv'
  BY <1>8 DEF SendFails, EndCall, MarkBad, TypeInv, TypeOK, InCall, Serving
<1>9. ASSUME NEW t \in Threads, Recv(t)
      PROVE  TypeInv'
  <2>1. replies' \in Seq(ReplySet)
    BY <1>9 DEF Recv, TypeInv
  <2> QED
    BY <1>9, <2>1 DEF Recv, EndCall, syncVars, TypeInv, TypeOK, InCall, Serving
<1>10. ASSUME NEW t \in Threads, RecvFails(t)
       PROVE  TypeInv'
  BY <1>10 DEF RecvFails, EndCall, syncVars, TypeInv, TypeOK, InCall, Serving
<1>11. ASSUME NEW t \in Threads, GenerateSeqId(t)
       PROVE  TypeInv'
  BY <1>11 DEF GenerateSeqId, serverVars, syncVars, TypeInv, TypeOK, InCall, Serving
<1>12. ASSUME NEW t \in Threads, GenerateSeqIdFails(t)
       PROVE  TypeInv'
  BY <1>12 DEF GenerateSeqIdFails, EndCall, syncVars, TypeInv, TypeOK, InCall, Serving
<1>13. ASSUME NEW t \in Threads, EnterRecv(t)
       PROVE  TypeInv'
  BY <1>13 DEF EnterRecv, serverVars, TypeInv, TypeOK, InCall, Serving
<1>14. ASSUME NEW t \in Threads, TakeReply(t)
       PROVE  TypeInv'
  <2>1. replies' \in Seq(ReplySet) /\ pending' = Nothing
    BY <1>14 DEF TakeReply, TypeInv
  <2>2. \E a : LeaveRecv(t, a)
    BY <1>14 DEF TakeReply
  <2> QED
    BY <1>14, <2>1, <2>2, LeavingTyped DEF TakeReply
<1>15. ASSUME NEW t \in Threads, HandOver(t)
       PROVE  TypeInv'
  <2>1. replies' = replies /\ pending' = Rseqid
    BY <1>15 DEF HandOver
  <2>2. Rseqid \in Seqids
    BY <1>15, MessageParts DEF HandOver, Rseqid, TypeInv, TypeOK
  <2>3. CASE LeaveRecv(t, Garbled)
    BY <1>15, <2>1, <2>2, <2>3, LeavingTyped DEF HandOver, TypeInv
  <2>4. CASE ~LeaveRecv(t, Garbled)
    <3>1. /\ pc[t] = "look" /\ pc' = [pc EXCEPT ![t] = "wait"]
          /\ reader' = Nothing /\ wakeup' = FALSE
          /\ notified' \subseteq Threads
          /\ UNCHANGED <<client, connected, call, seq, answer, serverVars, stop>>
      BY <1>15, <2>4 DEF HandOver, TypeInv, TypeOK
    <3> QED
      BY <2>1, <2>2, <3>1 DEF serverVars, TypeInv, TypeOK, InCall, Serving
  <2> QED
    BY <2>3, <2>4
<1>16. ASSUME NEW t \in Threads, LookFails(t)
       PROVE  TypeInv'
  BY <1>16, LeavingTyped DEF LookFails, TypeInv, TypeOK
<1>17. ASSUME NEW t \in Threads, WakeUp(t)
       PROVE  TypeInv'
  BY <1>17 DEF WakeUp, serverVars, TypeInv, TypeOK, InCall, Serving
<1> QED
  BY <1>1, <1>2, <1>3, <1>4, <1>5, <1>6, <1>7, <1>8, <1>9, <1>10, <1>11, <1>12,
     <1>13, <1>14, <1>15, <1>16, <1>17 DEF Next, Serve, Proceed

-------------------------------------------------------------------------------
(* The numbers, and the two clients apart *)

\* What the tail of a sequence holds.
LEMMA TailParts ==
  ASSUME NEW S, NEW s \in Seq(S), s # <<>>
  PROVE  /\ 1 \in DOMAIN s /\ Head(s) = s[1]
         /\ \A i \in DOMAIN Tail(s) : i \in Nat /\ i # 0 /\ i + 1 \in DOMAIN s /\ Tail(s)[i] = s[i + 1]
OBVIOUS

\* The head of a sequence is its first element.
LEMMA HeadIsFirst ==
  ASSUME NEW S, NEW s \in Seq(S), s # <<>>
  PROVE  Head(s) = s[1] /\ 1 \in 1..Len(s)
OBVIOUS

\* What an appended sequence holds.
LEMMA AppendParts ==
  ASSUME NEW S, NEW s \in Seq(S), NEW e \in S
  PROVE  /\ \A i \in DOMAIN Append(s, e) : \/ i \in DOMAIN s /\ Append(s, e)[i] = s[i]
                                           \/ i = Len(s) + 1 /\ Append(s, e)[i] = e
         /\ s # <<>> => Head(Append(s, e)) = Head(s)
         /\ Append(s, e) # <<>>
<1> DEFINE a == Append(s, e)
<1>1. /\ a \in Seq(S) /\ a # <<>> /\ Len(a) = Len(s) + 1
      /\ \A i \in 1..Len(s) : a[i] = s[i]
      /\ a[Len(s) + 1] = e
  BY AppendProperties
<1> HIDE DEF a
<1>2. \A i \in DOMAIN a : \/ i \in DOMAIN s /\ a[i] = s[i]
                          \/ i = Len(s) + 1 /\ a[i] = e
  <2>1. DOMAIN a = 1..(Len(s) + 1) /\ DOMAIN s = 1..Len(s) /\ Len(s) \in Nat
    BY <1>1
  <2> QED
    BY <1>1, <2>1
<1>3. s # <<>> => Head(a) = Head(s)
  BY <1>1, HeadIsFirst
<1> QED
  BY <1>1, <1>2, <1>3 DEF a

\* What the beginning of a sequence holds.
LEMMA PrefixParts ==
  ASSUME NEW S, NEW s \in Seq(S), NEW n \in 0..Len(s)
  PROVE  /\ \A i \in DOMAIN SubSeq(s, 1, n) : i \in DOMAIN s /\ SubSeq(s, 1, n)[i] = s[i]
         /\ SubSeq(s, 1, n) # <<>> => s # <<>> /\ Head(SubSeq(s, 1, n)) = Head(s)
<1> DEFINE p == SubSeq(s, 1, n)
<1>1. p \in Seq(S) /\ Len(p) = n /\ \A i \in 1..n : p[i] = s[i]
  BY SubSeqProperties
<1>2. p # <<>> => n # 0
  BY <1>1
<1>3. p # <<>> => s # <<>> /\ Head(p) = Head(s)
  <2> HIDE DEF p
  <2>1. p # <<>> => Head(p) = p[1] /\ n \in Nat
    BY <1>1, HeadIsFirst
  <2>2. n # 0 => s # <<>>
    OBVIOUS
  <2> QED
    BY <1>1, <1>2, <2>1, <2>2, HeadIsFirst
<1>4. \A i \in DOMAIN p : i \in DOMAIN s /\ p[i] = s[i]
  <2> HIDE DEF p
  <2> QED
    BY <1>1
<1> QED
  BY <1>3, <1>4

\* No call is under way before the first one.
LEMMA SyncInvInit == Init => SyncInv
BY ServiceAssumption DEF Init, SyncInv, Single, Concurrent

\* A thread that ends its call lets go of its number.
LEMMA LeavingSync ==
  ASSUME TypeInv, SyncInv, NEW t \in Threads, pc[t] = "look", NEW a, LeaveRecv(t, a),
         pending' # Nothing => IF replies' = <<>> THEN ~connected ELSE Head(replies').seqid = pending'
  PROVE  SyncInv'
<1>1. client # Single
  BY ServiceAssumption DEF SyncInv
<1>2. EndCall(t, a)
  BY DEF LeaveRecv
<1> QED
  BY <1>1, <1>2 DEF EndCall, TypeInv, TypeOK, SyncInv

\* Every step keeps the sequence numbers of the calls under way apart.
LEMMA SyncInvStep == TypeInv /\ SyncInv /\ [Next]_vars => SyncInv'
<1> SUFFICES ASSUME TypeInv, SyncInv, [Next]_vars PROVE SyncInv'
  OBVIOUS
<1> USE ServiceAssumption
<1>1. CASE UNCHANGED vars
  BY <1>1 DEF vars, SyncInv
<1>2. ASSUME NEW m, Answered(m), m \in ReplySet, connected,
             UNCHANGED <<client, connected, pc, call, seq, answer, made, syncVars>>
      PROVE  SyncInv'
  <2>1. replies' # <<>> /\ (replies # <<>> => Head(replies') = Head(replies))
    BY <1>2, AppendParts DEF Answered, TypeInv
  <2> QED
    BY <1>2, <2>1 DEF Answered, syncVars, SyncInv
<1>3. CASE DispatchCall
  <2>1. Serving \in RequestSet
    BY <1>3 DEF DispatchCall, TypeInv, Serving
  <2>2. Message("T_EXCEPTION", {}) \in ReplySet
    BY <2>1, MessageParts DEF Message, ReplySet
  <2> QED
    BY <1>2, <1>3, <2>2 DEF DispatchCall, syncVars, SyncInv
<1>4. CASE CallIface
  BY <1>4 DEF CallIface, syncVars, SyncInv
<1>5. CASE ProcessReply
  <2>1. Serving \in RequestSet
    BY <1>5 DEF ProcessReply, TypeInv, Serving
  <2>2. Reply(result) \in ReplySet
    BY <1>5, <2>1, MessageParts DEF ProcessReply, TypeInv, Reply, Message, ReplySet
  <2> QED
    BY <1>2, <1>5, <2>2 DEF ProcessReply
<1>6. CASE Disconnect
  <2>1. replies' # <<>> => replies # <<>> /\ Head(replies') = Head(replies)
    <3>1. PICK n \in 0..Len(replies) : replies' = SubSeq(replies, 1, n)
      BY <1>6 DEF Disconnect
    <3> QED
      BY <3>1, PrefixParts DEF TypeInv
  <2> QED
    BY <1>6, <2>1 DEF Disconnect, syncVars, SyncInv
<1>7. ASSUME NEW t \in Threads, Call(t)
      PROVE  SyncInv'
  <2>1. UNCHANGED <<client, connected, requests, replies, syncVars>>
    BY <1>7 DEF Call
  <2>2. CASE client = Single
    <3>1. t = Main /\ pc' = [pc EXCEPT ![t] = "send"] /\ \A u \in Threads \ {t} : seq'[u] = Nothing
      BY <1>7, <2>2 DEF Call, TypeInv, TypeOK, SyncInv
    <3> QED
      BY <2>1, <2>2, <3>1 DEF syncVars, TypeInv, TypeOK, SyncInv
  <2>3. CASE client # Single
    BY <1>7, <2>1, <2>3 DEF Call, syncVars, SyncInv
  <2> QED
    BY <2>2, <2>3
<1>8. ASSUME NEW t \in Threads, Send(t)
      PROVE  SyncInv'
  BY <1>8 DEF Send, syncVars, TypeInv, TypeOK, SyncInv
<1>9. ASSUME NEW t \in Threads, SendFails(t)
      PROVE  SyncInv'
  BY <1>9 DEF SendFails, EndCall, MarkBad, TypeInv, TypeOK, SyncInv
<1>10. ASSUME NEW t \in Threads, Recv(t)
       PROVE  SyncInv'
  BY <1>10 DEF Recv, EndCall, syncVars, TypeInv, TypeOK, SyncInv
<1>11. ASSUME NEW t \in Threads, RecvFails(t)
       PROVE  SyncInv'
  BY <1>11 DEF RecvFails, EndCall, syncVars, TypeInv, TypeOK, SyncInv
<1>12. ASSUME NEW t \in Threads, GenerateSeqId(t)
       PROVE  SyncInv'
  BY <1>12 DEF GenerateSeqId, serverVars, syncVars, TypeInv, TypeOK, SyncInv
<1>13. ASSUME NEW t \in Threads, GenerateSeqIdFails(t)
       PROVE  SyncInv'
  BY <1>13 DEF GenerateSeqIdFails, EndCall, syncVars, TypeInv, TypeOK, SyncInv
<1>14. ASSUME NEW t \in Threads, EnterRecv(t)
       PROVE  SyncInv'
  BY <1>14 DEF EnterRecv, serverVars, TypeInv, TypeOK, SyncInv, Single, Concurrent
<1>15. ASSUME NEW t \in Threads, TakeReply(t)
       PROVE  SyncInv'
  <2>1. \E a : LeaveRecv(t, a)
    BY <1>15 DEF TakeReply
  <2> QED
    BY <1>15, <2>1, LeavingSync DEF TakeReply
<1>16. ASSUME NEW t \in Threads, HandOver(t)
       PROVE  SyncInv'
  <2>1. /\ pc[t] = "look" /\ replies' = replies /\ pending' = Rseqid
        /\ replies # <<>> => pending' = Head(replies).seqid
        /\ replies = <<>> => ~connected
    BY <1>16 DEF HandOver, Rseqid, SyncInv
  <2>2. CASE LeaveRecv(t, Garbled)
    BY <2>1, <2>2, LeavingSync
  <2>3. CASE ~LeaveRecv(t, Garbled)
    <3>1. /\ pc' = [pc EXCEPT ![t] = "wait"]
          /\ UNCHANGED <<client, connected, call, seq, answer, serverVars, stop>>
      BY <1>16, <2>3 DEF HandOver
    <3> QED
      BY <2>1, <3>1 DEF serverVars, TypeInv, TypeOK, SyncInv
  <2> QED
    BY <2>2, <2>3
<1>17. ASSUME NEW t \in Threads, LookFails(t)
       PROVE  SyncInv'
  <2>1. pc[t] = "look" /\ LeaveRecv(t, Transport) /\ UNCHANGED <<replies, pending>>
    BY <1>17 DEF LookFails
  <2> QED
    BY <2>1, LeavingSync DEF SyncInv
<1>18. ASSUME NEW t \in Threads, WakeUp(t)
       PROVE  SyncInv'
  BY <1>18 DEF WakeUp, serverVars, TypeInv, TypeOK, SyncInv
<1> QED
  BY <1>1, <1>3, <1>4, <1>5, <1>6, <1>7, <1>8, <1>9, <1>10, <1>11, <1>12,
     <1>13, <1>14, <1>15, <1>16, <1>17, <1>18 DEF Next, Serve, Proceed

-------------------------------------------------------------------------------
(* One message for each call *)

\* Once the connection is marked as bad it stays so.
LEMMA StopIsForEver == stop /\ [Next]_vars => stop'
<1> SUFFICES ASSUME stop, [Next]_vars PROVE stop'
  OBVIOUS
<1>1. ASSUME NEW t, NEW a, LeaveRecv(t, a)
      PROVE  stop'
  BY <1>1 DEF LeaveRecv, Commit, MarkBad
<1>2. CASE Serve \/ Disconnect
  BY <1>2 DEF Serve, DispatchCall, CallIface, ProcessReply, Disconnect, syncVars
<1>3. ASSUME NEW t \in Threads, Call(t) \/ Proceed(t)
      PROVE  stop'
  <2>1. CASE TakeReply(t) \/ HandOver(t) \/ LookFails(t)
    BY <1>1, <2>1 DEF TakeReply, HandOver, LookFails
  <2>2. CASE ~(TakeReply(t) \/ HandOver(t) \/ LookFails(t))
    BY <1>3, <2>2 DEF Call, Proceed, Send, SendFails, Recv, RecvFails, GenerateSeqId,
       GenerateSeqIdFails, EnterRecv, WakeUp, EndCall, MarkBad, syncVars
  <2> QED
    BY <2>1, <2>2
<1> QED
  BY <1>2, <1>3 DEF Next, vars

\* Nothing is on the wire before the first call.
LEMMA MessageInvInit == Init => MessageInv
BY DEF Init, MessageInv

\* A step that leaves the messages alone, and the threads that wait.
LEMMA MessagesStay ==
  ASSUME TypeInv, MessageInv, ~stop, UNCHANGED <<requests, replies>>,
         \A u \in Threads : Waits(u) => Waits(u)' /\ seq'[u] = seq[u] /\ call'[u] = call[u]
  PROVE  MessageInv'
<1>1. \A i \in DOMAIN requests : requests[i].from \in Threads
  BY MessageParts DEF TypeInv
<1>2. \A u \in Threads : \A m : Owns(u, m) => Owns(u, m)'
  BY DEF Owns
<1> QED
  BY <1>1, <1>2 DEF MessageInv, Owns

\* The gateway answers the request it works on.
LEMMA MessageAnswered ==
  ASSUME TypeInv, MessageInv, ~stop, requests # <<>>,
         NEW m \in ReplySet, m.name = Serving.name, m.seqid = Serving.seqid, Answered(m),
         UNCHANGED <<pc, call, seq>>
  PROVE  MessageInv'
<1>1. /\ requests \in Seq(RequestSet) /\ replies \in Seq(ReplySet)
      /\ 1 \in DOMAIN requests /\ Serving = requests[1] /\ Serving.from \in Threads
      /\ \A i \in DOMAIN requests' : /\ i \in Nat /\ i # 0 /\ i + 1 \in DOMAIN requests
                                     /\ requests'[i] = requests[i + 1]
  BY TailParts, MessageParts DEF TypeInv, Answered, Serving
<1>2. \A i \in DOMAIN replies' : \/ i \in DOMAIN replies /\ replies'[i] = replies[i]
                                 \/ i = Len(replies) + 1 /\ replies'[i] = m
  BY <1>1, AppendParts DEF Answered
<1>3. \A u, w : Owns(u, w)' <=> Owns(u, w)
  BY DEF Owns, Waits
<1>4. Owns(Serving.from, m)
  BY <1>1 DEF MessageInv, Owns
<1>5. \A i \in DOMAIN requests' : /\ Owns(requests'[i].from, requests'[i])
                                  /\ requests'[i].body = ArgsSent(call[requests'[i].from])
                                  /\ requests'[i].seqid # m.seqid
  BY <1>1 DEF MessageInv
<1>6. \A i \in DOMAIN replies' : \E u \in Threads : Owns(u, replies'[i])
  BY <1>1, <1>2, <1>4 DEF MessageInv
<1>7. \A i, j \in DOMAIN requests' : requests'[i].seqid = requests'[j].seqid => i = j
  BY <1>1 DEF MessageInv
<1>8. \A i \in DOMAIN replies : replies[i].seqid # m.seqid
  BY <1>1 DEF MessageInv
<1>9. \A i, j \in DOMAIN replies' : replies'[i].seqid = replies'[j].seqid => i = j
  BY <1>2, <1>8 DEF MessageInv
<1>10. \A i \in DOMAIN requests', j \in DOMAIN replies' : requests'[i].seqid # replies'[j].seqid
  BY <1>1, <1>2, <1>5 DEF MessageInv
<1> QED
  BY <1>3, <1>5, <1>6, <1>7, <1>9, <1>10 DEF MessageInv

\* A thread takes its reply and ends its call.
LEMMA MessageTaken ==
  ASSUME TypeInv, SyncInv, MessageInv, ~stop, replies # <<>>, NEW t \in Threads, seq[t] # Nothing,
         Head(replies).seqid = seq[t], UNCHANGED <<requests, call>>, replies' = Tail(replies),
         \A u \in Threads \ {t} : pc'[u] = pc[u] /\ seq'[u] = seq[u]
  PROVE  MessageInv'
<1>1. /\ 1 \in DOMAIN replies /\ Head(replies) = replies[1]
      /\ \A i \in DOMAIN replies' : /\ i \in Nat /\ i # 0 /\ i + 1 \in DOMAIN replies
                                    /\ replies'[i] = replies[i + 1]
  BY TailParts DEF TypeInv
<1>2. \A i \in DOMAIN requests : /\ requests[i].from \in Threads
                                 /\ requests[i].from # t
  BY <1>1, MessageParts DEF TypeInv, MessageInv, Owns
<1>3. \A u \in Threads \ {t} : \A m : Owns(u, m) => OwnsThen(u, m)
  BY DEF Owns, OwnsThen, Waits
<1>4. \A i \in DOMAIN replies' : \E u \in Threads \ {t} : Owns(u, replies'[i])
  BY <1>1 DEF MessageInv, Owns
<1>5. \A i \in DOMAIN replies' : \E u \in Threads : OwnsThen(u, replies'[i])
  BY <1>3, <1>4
<1>6. \A i \in DOMAIN requests : OwnsThen(requests[i].from, requests[i])
  BY <1>2, <1>3 DEF MessageInv
<1> QED
  BY <1>1, <1>5, <1>6 DEF MessageInv, Owns, OwnsThen, Waits

\* Every step keeps the messages on the wire those of the calls under way.
LEMMA MessageInvStep == TypeInv /\ SyncInv /\ MessageInv /\ [Next]_vars => MessageInv'
<1> SUFFICES ASSUME TypeInv, SyncInv, MessageInv, [Next]_vars, ~stop, ~stop' PROVE MessageInv'
  BY StopIsForEver DEF MessageInv
<1> USE ServiceAssumption
<1>1. CASE UNCHANGED vars
  BY <1>1, MessagesStay DEF vars, Waits
<1>2. CASE DispatchCall
  <2>1. Serving \in RequestSet
    BY <1>2 DEF DispatchCall, TypeInv, Serving
  <2>2. /\ Message("T_EXCEPTION", {}) \in ReplySet
        /\ Message("T_EXCEPTION", {}).name = Serving.name
        /\ Message("T_EXCEPTION", {}).seqid = Serving.seqid
    BY <2>1, MessageParts DEF Message, ReplySet
  <2>3. CASE Answered(Message("T_EXCEPTION", {}))
    BY <1>2, <2>2, <2>3, MessageAnswered DEF DispatchCall
  <2>4. CASE UNCHANGED <<requests, replies>>
    BY <1>2, <2>4, MessagesStay DEF DispatchCall, Waits
  <2> QED
    BY <1>2, <2>3, <2>4 DEF DispatchCall
<1>3. CASE CallIface
  BY <1>3, MessagesStay DEF CallIface, Waits
<1>4. CASE ProcessReply
  <2>1. Serving \in RequestSet
    BY <1>4 DEF ProcessReply, TypeInv, Serving
  <2>2. /\ Reply(result) \in ReplySet
        /\ Reply(result).name = Serving.name /\ Reply(result).seqid = Serving.seqid
    BY <1>4, <2>1, MessageParts DEF ProcessReply, TypeInv, Reply, Message, ReplySet
  <2> QED
    BY <1>4, <2>2, MessageAnswered DEF ProcessReply
<1>5. CASE Disconnect
  <2>1. /\ requests' = <<>>
        /\ \A i \in DOMAIN replies' : i \in DOMAIN replies /\ replies'[i] = replies[i]
        /\ UNCHANGED <<pc, seq, call>>
    BY <1>5, PrefixParts DEF Disconnect, TypeInv
  <2>2. \A u, w : Owns(u, w)' <=> Owns(u, w)
    BY <2>1 DEF Owns, Waits
  <2> QED
    BY <2>1, <2>2 DEF MessageInv
<1>6. ASSUME NEW t \in Threads, Call(t)
      PROVE  MessageInv'
  BY <1>6, MessagesStay DEF Call, InCall, TypeInv, TypeOK, Waits
<1>7. ASSUME NEW t \in Threads, Send(t)
      PROVE  MessageInv'
  <2> DEFINE q == [from |-> t, name |-> call[t].method, seqid |-> seq[t],
                   body |-> ArgsSent(call[t])]
  <2>1. q \in RequestSet /\ seq[t] # Nothing
    BY <1>7, CallParts DEF Send, TypeInv, TypeOK, InCall, RequestSet
  <2>2. /\ q.from = t /\ q.seqid = seq[t] /\ q.name = call[t].method
        /\ q.body = ArgsSent(call[t])
    OBVIOUS
  <2>3. requests' = Append(requests, q) /\ UNCHANGED <<replies, call, seq>>
    BY <1>7 DEF Send
  <2> HIDE DEF q
  <2>4. \A i \in DOMAIN requests' : \/ i \in DOMAIN requests /\ requests'[i] = requests[i]
                                    \/ i = Len(requests) + 1 /\ requests'[i] = q
    BY <2>1, <2>3, AppendParts DEF TypeInv
  <2>5. /\ OwnsThen(t, q) /\ \A u \in Threads : \A m : Owns(u, m) => OwnsThen(u, m)
        /\ \A u \in Threads : \A m : Owns(u, m) => m.seqid # seq[t]
    BY <1>7, <2>1, <2>2 DEF Send, TypeInv, TypeOK, SyncInv, Owns, OwnsThen, Waits
  <2>6. /\ \A i \in DOMAIN requests : /\ requests[i].from \in Threads
                                      /\ requests[i].seqid # q.seqid
        /\ \A i \in DOMAIN replies : replies[i].seqid # q.seqid
    BY <2>2, <2>5, MessageParts DEF MessageInv, TypeInv
  <2>7. \A i \in DOMAIN requests' : /\ OwnsThen(requests'[i].from, requests'[i])
                                    /\ requests'[i].body = ArgsSent(call[requests'[i].from])
    <3>1. \A i \in DOMAIN requests : /\ OwnsThen(requests[i].from, requests[i])
                                     /\ requests[i].body = ArgsSent(call[requests[i].from])
      BY <2>5, <2>6 DEF MessageInv
    <3> QED
      BY <2>2, <2>4, <2>5, <3>1
  <2>8. \A i \in DOMAIN replies : \E u \in Threads : OwnsThen(u, replies[i])
    BY <2>5 DEF MessageInv
  <2>9. /\ \A i, j \in DOMAIN requests' : requests'[i].seqid = requests'[j].seqid => i = j
        /\ \A i \in DOMAIN requests', j \in DOMAIN replies : requests'[i].seqid # replies[j].seqid
    BY <2>4, <2>6 DEF MessageInv
  <2>10. UNCHANGED <<replies, call>>
    BY <2>3
  <2>11. \A i, j \in DOMAIN replies : replies[i].seqid = replies[j].seqid => i = j
    BY DEF MessageInv
  <2>12. \A i \in DOMAIN requests' : Owns(requests[i].from, requests[i])'
    BY <2>7 DEF Owns, OwnsThen, Waits
  <2>13. (\A i \in DOMAIN replies : \E u \in Threads : Owns(u, replies[i]))'
    BY <2>8, <2>10 DEF Owns, OwnsThen, Waits
  <2> QED
    BY <2>7, <2>9, <2>10, <2>11, <2>12, <2>13 DEF MessageInv
<1>8. ASSUME NEW t \in Threads, SendFails(t)
      PROVE  MessageInv'
  <2>1. pc[t] = "send" /\ client = Single /\ UNCHANGED <<requests, replies, call>>
    BY <1>8 DEF SendFails, EndCall, MarkBad
  <2>2. \A u \in Threads : Waits(u) => u # t
    BY <2>1 DEF Waits
  <2> QED
    BY <1>8, <2>1, <2>2, MessagesStay DEF SendFails, EndCall, TypeInv, TypeOK, Waits
<1>9. ASSUME NEW t \in Threads, Recv(t)
      PROVE  MessageInv'
  <2>1. t = Main /\ \A u \in Threads : Waits(u) => u = t
    BY <1>9 DEF Recv, SyncInv, Waits
  <2>2. Head(replies).seqid = seq[t] /\ seq[t] # Nothing
    BY <1>9, <2>1, TailParts DEF Recv, TypeInv, MessageInv, Owns
  <2> QED
    BY <1>9, <2>2, MessageTaken DEF Recv, EndCall, TypeInv, TypeOK
<1>10. ASSUME NEW t \in Threads, RecvFails(t)
       PROVE  MessageInv'
  <2>1. requests' = <<>> /\ replies' = <<>>
    BY <1>10 DEF RecvFails, EndCall, SyncInv
  <2> QED
    BY <2>1 DEF MessageInv
<1>11. ASSUME NEW t \in Threads, GenerateSeqId(t)
       PROVE  MessageInv'
  BY <1>11, MessagesStay DEF GenerateSeqId, serverVars, TypeInv, TypeOK, Waits
<1>12. ASSUME NEW t \in Threads, GenerateSeqIdFails(t)
       PROVE  MessageInv'
  BY <1>12 DEF GenerateSeqIdFails
<1>13. ASSUME NEW t \in Threads, EnterRecv(t)
       PROVE  MessageInv'
  BY <1>13, MessagesStay DEF EnterRecv, serverVars, TypeInv, TypeOK, Waits
<1>14. ASSUME NEW t \in Threads, TakeReply(t)
       PROVE  MessageInv'
  <2>1. Head(replies).seqid = seq[t] /\ seq[t] # Nothing
    BY <1>14 DEF TakeReply, Rseqid, SyncInv, TypeInv
  <2> QED
    BY <1>14, <2>1, MessageTaken DEF TakeReply, LeaveRecv, EndCall, TypeInv, TypeOK
<1>15. ASSUME NEW t \in Threads, HandOver(t)
       PROVE  MessageInv'
  <2>1. ~LeaveRecv(t, Garbled)
    BY DEF LeaveRecv, Garbled, Outcome, MarkBad
  <2>2. /\ pc[t] = "look" /\ pc' = [pc EXCEPT ![t] = "wait"]
        /\ UNCHANGED <<call, seq, requests, replies>>
    BY <1>15, <2>1 DEF HandOver, serverVars
  <2> QED
    BY <2>2, MessagesStay DEF TypeInv, TypeOK, Waits
<1>16. ASSUME NEW t \in Threads, LookFails(t)
       PROVE  MessageInv'
  BY <1>16 DEF LookFails, LeaveRecv, Transport, Outcome, MarkBad
<1>17. ASSUME NEW t \in Threads, WakeUp(t)
       PROVE  MessageInv'
  BY <1>17, MessagesStay DEF WakeUp, serverVars, TypeInv, TypeOK, Waits
<1> QED
  BY <1>1, <1>2, <1>3, <1>4, <1>5, <1>6, <1>7, <1>8, <1>9, <1>10, <1>11, <1>12,
     <1>13, <1>14, <1>15, <1>16, <1>17 DEF Next, Serve, Proceed

-------------------------------------------------------------------------------
(* Results and replies *)

\* No result is there before the first call.
LEMMA DoneInvInit == Init => ResultInv /\ RepliesInv /\ SuccessMeansDone
BY ServiceAssumption DEF Init, ResultInv, RepliesInv, SuccessMeansDone

\* A step after which a call that has ended is still what it was, or has not
\* returned.
LEMMA SuccessStays ==
  ASSUME SuccessMeansDone,
         \A u \in Threads :
           \/ InCall(u)' \/ answer'[u] = Nothing \/ answer'[u].kind # "return"
           \/ ~InCall(u) /\ answer'[u] = answer[u] /\ call'[u] = call[u] /\ made'[u] = made[u]
  PROVE  SuccessMeansDone'
BY DEF SuccessMeansDone

\* The request in work is its caller's own.
LEMMA ServingIsOwned ==
  ASSUME TypeInv, MessageInv, ~stop, requests # <<>>
  PROVE  /\ Serving \in RequestSet /\ Serving.from \in Threads /\ Owns(Serving.from, Serving)
         /\ Serving.body = ArgsSent(call[Serving.from])
         /\ \A i \in DOMAIN replies : replies[i].seqid # Serving.seqid
BY TailParts, MessageParts DEF TypeInv, MessageInv, Serving

\* The reply with t's number is t's.
LEMMA ReplyIsOwned ==
  ASSUME TypeInv, SyncInv, MessageInv, ~stop, NEW i \in DOMAIN replies,
         NEW t \in Threads, seq[t] # Nothing, replies[i].seqid = seq[t]
  PROVE  Owns(t, replies[i])
BY DEF SyncInv, MessageInv, Owns

\* A step that adds no reply, no owner and nothing to an owner's history.
LEMMA RepliesStay ==
  ASSUME RepliesInv, ~stop,
         \A i \in DOMAIN replies' : \E j \in DOMAIN replies : replies'[i] = replies[j],
         \A j \in DOMAIN replies, u \in Threads :
           OwnsThen(u, replies[j]) => /\ Owns(u, replies[j])
                                      /\ call'[u] = call[u] /\ made'[u] = made[u]
  PROVE  RepliesInv'
<1> SUFFICES ASSUME NEW i \in DOMAIN replies', NEW u \in Threads,
                    OwnsThen(u, replies'[i]), replies'[i].type = "T_REPLY"
             PROVE  \E o \in OutcomesOf(replies'[i].name) :
                      /\ o.kind # "other" /\ Carried(u, o)'
                      /\ replies'[i].body = ResultSent(replies'[i].name, o)
  BY DEF RepliesInv, Owns, Waits, OwnsThen
<1>1. PICK j \in DOMAIN replies : replies'[i] = replies[j]
  OBVIOUS
<1>2. PICK o \in OutcomesOf(replies[j].name) :
        o.kind # "other" /\ Carried(u, o) /\ replies[j].body = ResultSent(replies[j].name, o)
  BY <1>1 DEF RepliesInv
<1>3. Carried(u, o)'
  BY <1>1, <1>2 DEF Carried
<1> QED
  BY <1>1, <1>2, <1>3

\* The gateway's answer is the one the history tells of.
LEMMA RepliesAnswered ==
  ASSUME TypeInv, SyncInv, MessageInv, RepliesInv, ~stop, requests # <<>>,
         NEW m \in ReplySet, Answered(m), UNCHANGED <<pc, call, seq, made>>,
         m.seqid = Serving.seqid, m.name = Serving.name,
         m.type = "T_REPLY" =>
           \E o \in OutcomesOf(m.name) : /\ o.kind # "other" /\ Carried(Serving.from, o)
                                         /\ m.body = ResultSent(m.name, o)
  PROVE  RepliesInv'
<1> SUFFICES ASSUME NEW i \in DOMAIN replies', NEW u \in Threads,
                    OwnsThen(u, replies'[i]), replies'[i].type = "T_REPLY"
             PROVE  \E o \in OutcomesOf(replies'[i].name) :
                      /\ o.kind # "other" /\ Carried(u, o)'
                      /\ replies'[i].body = ResultSent(replies'[i].name, o)
  BY DEF RepliesInv, Owns, Waits, OwnsThen
<1>1. \A w : Carried(u, w)' <=> Carried(u, w)
  BY DEF Carried
<1>2. \/ i \in DOMAIN replies /\ replies'[i] = replies[i]
      \/ replies'[i] = m
  BY AppendParts DEF Answered, TypeInv
<1>3. Owns(u, replies'[i])
  BY DEF Owns, Waits, OwnsThen
<1>4. CASE i \in DOMAIN replies /\ replies'[i] = replies[i]
  BY <1>1, <1>3, <1>4 DEF RepliesInv
<1>5. CASE replies'[i] = m
  <2>1. u = Serving.from
    BY <1>3, <1>5, ServingIsOwned DEF Owns, SyncInv, TypeInv, Waits
  <2> QED
    BY <1>1, <1>5, <2>1
<1> QED
  BY <1>2, <1>4, <1>5

\* An answer that says the call has returned tells what came of it.
LEMMA AnswerIsTrue ==
  ASSUME TypeInv, SyncInv, MessageInv, RepliesInv, ~stop, replies # <<>>,
         NEW t \in Threads, seq[t] # Nothing, Head(replies).seqid = seq[t],
         NEW a, a = Received(call[t].method, Head(replies)), a.kind = "return"
  PROVE  /\ made[t] # Nothing /\ made[t].call = call[t]
         /\ \/ made[t].outcome = a /\ made[t].ifaces = Ifaces
            \/ made[t].outcome.kind = "newer" /\ Void(call[t].method)
<1>1. /\ 1 \in DOMAIN replies /\ Head(replies) = replies[1]
      /\ replies[1] \in ReplySet /\ Owns(t, replies[1])
  BY TailParts, ReplyIsOwned DEF TypeInv
<1>2. replies[1].name = call[t].method /\ call[t].method \in Methods
  BY <1>1, MessageParts DEF Owns
<1>3. replies[1].type = "T_REPLY"
  BY <1>1 DEF Received, Application, Outcome, ReplySet
<1>4. PICK o \in OutcomesOf(call[t].method) :
        /\ o.kind # "other" /\ Carried(t, o)
        /\ replies[1].body = ResultSent(call[t].method, o)
  BY <1>1, <1>2, <1>3 DEF RepliesInv
<1>5. a = IF o.kind # "newer" THEN o
          ELSE IF Void(call[t].method) THEN Outcome("return", "none", Nothing)
          ELSE Missing
  BY <1>1, <1>2, <1>3, <1>4, ReplyMeansOutcome
<1>6. Missing.kind = "missing"
  BY DEF Missing, Outcome
<1> QED
  BY <1>4, <1>5, <1>6 DEF Carried

\* A step of threads leaves the gateway's work and the history of every call
\* that is going on as they are.
LEMMA ThreadSteps ==
  ASSUME TypeInv, MessageInv, ResultInv, RepliesInv, ~stop,
         UNCHANGED <<step, result>>, requests # <<>> => Serving' = Serving,
         \A i \in DOMAIN replies' : \E j \in DOMAIN replies : replies'[i] = replies[j],
         \A u \in Threads : InCall(u) => call'[u] = call[u] /\ made'[u] = made[u],
         \A u \in Threads : pc'[u] \in {"recv", "look", "wait"} =>
           /\ seq'[u] = seq[u] /\ InCall(u)
           /\ Waits(u) \/ \A i \in DOMAIN replies : replies[i].seqid # seq[u]
  PROVE  ResultInv' /\ RepliesInv'
<1>1. ASSUME step = Ifaces + 1
      PROVE  Carried(Serving.from, result)'
  <2>1. requests # <<>>
    BY <1>1, ServiceAssumption DEF TypeInv
  <2>2. InCall(Serving.from) /\ Serving.from \in Threads
    BY <2>1, ServingIsOwned DEF Owns, Waits, InCall
  <2> QED
    BY <1>1, <2>1, <2>2 DEF ResultInv, Carried
<1>2. ResultInv'
  BY <1>1 DEF ResultInv
<1>3. \A j \in DOMAIN replies, u \in Threads :
        OwnsThen(u, replies[j]) => /\ Owns(u, replies[j])
                                   /\ call'[u] = call[u] /\ made'[u] = made[u]
  BY DEF OwnsThen, Owns
<1> QED
  BY <1>2, <1>3, RepliesStay

\* Every step keeps the results and replies those the service gave.
LEMMA DoneInvStep ==
  TypeInv /\ SyncInv /\ MessageInv /\ ResultInv /\ RepliesInv /\ SuccessMeansDone /\ [Next]_vars
    => ResultInv' /\ RepliesInv' /\ SuccessMeansDone'
<1> SUFFICES ASSUME TypeInv, SyncInv, MessageInv, ResultInv, RepliesInv, SuccessMeansDone,
                    [Next]_vars
             PROVE  ResultInv' /\ RepliesInv' /\ SuccessMeansDone'
  OBVIOUS
<1> USE ServiceAssumption
<1> DEFINE Good == ResultInv' /\ RepliesInv'
<1>1. stop' => Good
  BY DEF ResultInv, RepliesInv
<1>2. stop => stop'
  BY StopIsForEver
<1> SUFFICES (~stop /\ ~stop' => Good) /\ SuccessMeansDone'
  BY <1>1, <1>2
<1> HIDE DEF Good
<1>3. ASSUME ~stop, UNCHANGED <<requests, step, result, replies, pc, call, seq, made>>
      PROVE  Good
  BY <1>3, ThreadSteps DEF Serving, Waits, InCall, Good
<1>4. CASE UNCHANGED vars
  BY <1>3, <1>4 DEF vars, SuccessMeansDone, InCall
<1>5. CASE DispatchCall
  <2>1. SuccessMeansDone'
    BY <1>5 DEF DispatchCall, SuccessMeansDone, InCall
  <2>2. ASSUME ~stop, Answered(Message("T_EXCEPTION", {}))
        PROVE  Good
    <3> DEFINE m == Message("T_EXCEPTION", {})
    <3>1. requests # <<>> /\ UNCHANGED <<pc, call, seq, made>>
      BY <1>5 DEF DispatchCall
    <3>2. m \in ReplySet /\ m.seqid = Serving.seqid /\ m.name = Serving.name /\ m.type # "T_REPLY"
      BY <2>2, <3>1, ServingIsOwned, MessageParts DEF Message, ReplySet
    <3>3. step' # Ifaces + 1
      BY <2>2 DEF Answered
    <3> HIDE DEF m
    <3>4. RepliesInv'
      BY <2>2, <3>1, <3>2, RepliesAnswered DEF m
    <3> QED
      BY <3>3, <3>4 DEF ResultInv, Good
  <2>3. ASSUME ~stop, step' = 1, UNCHANGED <<requests, result, replies>>
        PROVE  Good
    <3>1. ResultInv'
      BY <2>3 DEF ResultInv
    <3>2. RepliesInv'
      BY <1>5, <2>3, RepliesStay DEF DispatchCall, OwnsThen, Owns, Waits
    <3> QED
      BY <3>1, <3>2 DEF Good
  <2> QED
    BY <1>5, <2>1, <2>2, <2>3 DEF DispatchCall
<1>6. CASE CallIface
  <2>1. requests # <<>> /\ Serving \in RequestSet
        /\ UNCHANGED <<pc, call, seq, answer, requests, replies>> /\ step \in 1..Ifaces
    BY <1>6 DEF CallIface, TypeInv, Serving
  <2>2. Serving.from \in Threads
    BY <2>1, MessageParts
  <2>3. CASE UNCHANGED <<result, made>> /\ step' = step + 1 /\ step < Ifaces
    <3>1. SuccessMeansDone'
      BY <2>1, <2>3 DEF SuccessMeansDone, InCall
    <3>2. ResultInv'
      BY <2>1, <2>3 DEF ResultInv
    <3>3. ~stop => RepliesInv'
      BY <2>1, <2>3, RepliesStay DEF OwnsThen, Owns, Waits
    <3> QED
      BY <3>1, <3>2, <3>3 DEF Good
  <2>4. ASSUME NEW o \in OutcomesOf(Serving.name), step' = Ifaces + 1, result' = o,
               o.kind = "return" => step = Ifaces,
               made' = IF seq[Serving.from] # Serving.seqid THEN made
                       ELSE [made EXCEPT ![Serving.from] =
                              [call |-> [method |-> Serving.name, args |-> ArgsReceived],
                               outcome |-> o,
                               ifaces |-> IF o.kind = "return" THEN step ELSE step - 1]]
        PROVE  (~stop /\ ~stop' => Good) /\ SuccessMeansDone'
    <3> DEFINE f == Serving.from
               c == [method |-> Serving.name, args |-> ArgsReceived]
               n == IF o.kind = "return" THEN step ELSE step - 1
    <3>1. \A u \in Threads : ~InCall(u) => made'[u] = made[u]
      <4>1. seq[f] = Serving.seqid => InCall(f)
        BY <2>1, <2>2, MessageParts DEF TypeInv, InCall
      <4> QED
        BY <2>2, <2>4, <4>1 DEF TypeInv
    <3>2. SuccessMeansDone'
      BY <2>1, <3>1 DEF SuccessMeansDone, InCall
    <3>3. ASSUME ~stop
          PROVE  Good
      <4>1. Owns(f, Serving) /\ Serving.body = ArgsSent(call[f])
        BY <2>1, <3>3, ServingIsOwned
      <4>2. call[f] = c /\ call[f] \in GoodCalls
        <5>1. call[f] \in GoodCalls /\ call[f].method = Serving.name
          BY <2>2, <4>1 DEF Owns, Waits, TypeInv, InCall
        <5>2. ArgsReceived = call[f].args
          BY <4>1, <5>1, CallParts, ArgsArrive DEF ArgsReceived
        <5> QED
          BY <5>1, <5>2, CallParts
      <4>3. made'[f] = [call |-> c, outcome |-> o, ifaces |-> n]
        BY <2>2, <2>4, <4>1 DEF Owns, TypeInv
      <4>4. [call |-> c, outcome |-> o, ifaces |-> n] # Nothing
        <5>1. c \in AllCalls /\ o \in AllOutcomes /\ n \in Nat
          BY <2>1, <4>2, CallParts, MessageParts, OutcomesTyped
        <5> QED
          BY <5>1, HistoryAssumption
      <4>5. Carried(Serving.from, result)'
        BY <2>1, <2>4, <4>2, <4>3, <4>4 DEF Carried, Serving
      <4>6. ASSUME NEW j \in DOMAIN replies, NEW u \in Threads, OwnsThen(u, replies[j])
            PROVE  Owns(u, replies[j]) /\ call'[u] = call[u] /\ made'[u] = made[u]
        <5>1. Owns(u, replies[j])
          BY <2>1, <4>6 DEF OwnsThen, Owns, Waits
        <5>2. u # f
          BY <2>1, <3>3, <4>1, <5>1, ServingIsOwned DEF Owns
        <5> QED
          BY <2>1, <2>2, <2>4, <5>1, <5>2 DEF TypeInv
      <4>7. RepliesInv'
        BY <2>1, <3>3, <4>6, RepliesStay
      <4> QED
        BY <4>5, <4>7 DEF ResultInv, Good
    <3> QED
      BY <3>2, <3>3
  <2> QED
    BY <1>6, <2>3, <2>4 DEF CallIface
<1>7. CASE ProcessReply
  <2>1. SuccessMeansDone'
    BY <1>7 DEF ProcessReply, SuccessMeansDone, InCall
  <2>2. ASSUME ~stop
        PROVE  Good
    <3> DEFINE m == Reply(result)
    <3>1. /\ requests # <<>> /\ Answered(m) /\ UNCHANGED <<pc, call, seq, made>>
          /\ result \in OutcomesOf(Serving.name) /\ step' = 0
      BY <1>7 DEF ProcessReply, TypeInv, Answered
    <3>2. m \in ReplySet /\ m.seqid = Serving.seqid /\ m.name = Serving.name
      BY <2>2, <3>1, ServingIsOwned, MessageParts DEF Reply, Message, ReplySet
    <3>3. m.type = "T_REPLY" => result.kind # "other" /\ m.body = ResultSent(m.name, result)
      BY <3>2 DEF Reply, Message
    <3>4. Carried(Serving.from, result)
      BY <1>7, <2>2 DEF ProcessReply, ResultInv
    <3> HIDE DEF m
    <3>5. RepliesInv'
      BY <2>2, <3>1, <3>2, <3>3, <3>4, RepliesAnswered
    <3> QED
      BY <3>1, <3>5 DEF ResultInv, Good
  <2> QED
    BY <2>1, <2>2
<1>8. CASE Disconnect
  <2>1. SuccessMeansDone'
    BY <1>8 DEF Disconnect, SuccessMeansDone, InCall
  <2>2. ResultInv'
    BY <1>8 DEF Disconnect, ResultInv
  <2>3. \A i \in DOMAIN replies' : i \in DOMAIN replies /\ replies'[i] = replies[i]
    BY <1>8, PrefixParts DEF Disconnect, TypeInv
  <2>4. ~stop => RepliesInv'
    BY <1>8, <2>3, RepliesStay DEF Disconnect, OwnsThen, Owns, Waits
  <2> QED
    BY <2>1, <2>2, <2>4 DEF Good
<1>9. ASSUME NEW t \in Threads, Call(t)
      PROVE  (~stop => Good) /\ SuccessMeansDone'
  <2>1. /\ \A u \in Threads \ {t} : /\ pc'[u] = pc[u] /\ call'[u] = call[u] /\ seq'[u] = seq[u]
                                    /\ answer'[u] = answer[u] /\ made'[u] = made[u]
        /\ ~InCall(t) /\ answer'[t] = Nothing /\ pc'[t] \in {"number", "send"}
        /\ UNCHANGED <<requests, step, result, replies>>
    BY <1>9 DEF Call, TypeInv, TypeOK
  <2>2. SuccessMeansDone'
    BY <2>1, SuccessStays DEF InCall
  <2>3. ~stop => Good
    BY <2>1, ThreadSteps DEF Serving, Waits, InCall, Good
  <2> QED
    BY <2>2, <2>3
<1>10. ASSUME NEW t \in Threads, Send(t)
       PROVE  (~stop => Good) /\ SuccessMeansDone'
  <2>1. /\ \A u \in Threads \ {t} : pc'[u] = pc[u]
        /\ pc[t] = "send" /\ pc'[t] = "recv" /\ seq[t] # Nothing
        /\ UNCHANGED <<call, seq, answer, step, result, replies, made>>
    BY <1>10 DEF Send, TypeInv, TypeOK
  <2>2. SuccessMeansDone'
    BY <2>1, SuccessStays DEF InCall
  <2>3. requests # <<>> => Serving' = Serving
    <3>1. [from |-> t, name |-> call[t].method, seqid |-> seq[t], body |-> ArgsSent(call[t])]
            \in RequestSet
      BY <2>1, CallParts DEF TypeInv, TypeOK, InCall, RequestSet
    <3> QED
      BY <1>10, <3>1, AppendParts DEF Send, TypeInv, Serving
  <2>4. ~stop => \A i \in DOMAIN replies : replies[i].seqid # seq[t]
    BY <2>1, ReplyIsOwned DEF Owns, Waits
  <2>5. ~stop => Good
    BY <2>1, <2>3, <2>4, ThreadSteps DEF Waits, InCall, Good
  <2> QED
    BY <2>2, <2>5
<1>11. ASSUME NEW t \in Threads, NEW a, EndCall(t, a), a.kind # "return", UNCHANGED replies
       PROVE  (~stop => Good) /\ SuccessMeansDone'
  <2>1. /\ \A u \in Threads \ {t} : pc'[u] = pc[u] /\ seq'[u] = seq[u] /\ answer'[u] = answer[u]
        /\ pc'[t] = "idle" /\ answer'[t] = a
        /\ UNCHANGED <<call, requests, step, result, made>>
    BY <1>11 DEF EndCall, TypeInv, TypeOK
  <2>2. SuccessMeansDone'
    BY <1>11, <2>1, SuccessStays DEF InCall
  <2>3. ~stop => Good
    BY <1>11, <2>1, ThreadSteps DEF Serving, Waits, InCall, Good
  <2> QED
    BY <2>2, <2>3
<1>12. Transport.kind # "return" /\ Garbled.kind # "return"
  BY DEF Transport, Garbled, Outcome
<1>13. ASSUME NEW t \in Threads, SendFails(t) \/ RecvFails(t) \/ GenerateSeqIdFails(t) \/ LookFails(t)
       PROVE  (~stop => Good) /\ SuccessMeansDone'
  BY <1>11, <1>12, <1>13 DEF SendFails, RecvFails, GenerateSeqIdFails, LookFails, LeaveRecv
<1>14. ASSUME NEW t \in Threads, ~stop, replies # <<>>, seq[t] # Nothing, InCall(t),
              Head(replies).seqid = seq[t], replies' = Tail(replies),
              EndCall(t, Received(call[t].method, Head(replies)))
       PROVE  Good /\ SuccessMeansDone'
  <2> DEFINE a == Received(call[t].method, Head(replies))
  <2>1. /\ \A u \in Threads \ {t} : pc'[u] = pc[u] /\ seq'[u] = seq[u] /\ answer'[u] = answer[u]
        /\ pc'[t] = "idle" /\ answer'[t] = a
        /\ UNCHANGED <<call, requests, step, result, made>>
    BY <1>14 DEF EndCall, TypeInv, TypeOK
  <2>2. a.kind = "return" =>
          /\ made[t] # Nothing /\ made[t].call = call[t]
          /\ \/ made[t].outcome = a /\ made[t].ifaces = Ifaces
             \/ made[t].outcome.kind = "newer" /\ Void(call[t].method)
    BY <1>14, AnswerIsTrue
  <2> HIDE DEF a
  <2>3. SuccessMeansDone'
    BY <2>1, <2>2 DEF SuccessMeansDone, InCall
  <2>4. \A i \in DOMAIN replies' : \E j \in DOMAIN replies : replies'[i] = replies[j]
    BY <1>14, TailParts DEF TypeInv
  <2>5. Good
    BY <1>14, <2>1, <2>4, ThreadSteps DEF Serving, Waits, InCall, Good
  <2> QED
    BY <2>3, <2>5
<1>15. ASSUME NEW t \in Threads, Recv(t)
       PROVE  (~stop => Good) /\ SuccessMeansDone'
  <2>1. t = Main /\ ~stop /\ \A u \in Threads : Waits(u) => u = t
    BY <1>15 DEF Recv, SyncInv, Waits
  <2>2. Head(replies).seqid = seq[t] /\ seq[t] # Nothing
    BY <1>15, <2>1, TailParts DEF Recv, TypeInv, MessageInv, Owns
  <2> QED
    BY <1>14, <1>15, <2>1, <2>2 DEF Recv, InCall
<1>16. ASSUME NEW t \in Threads, TakeReply(t)
       PROVE  (~stop => Good) /\ SuccessMeansDone'
  <2>1. Head(replies).seqid = seq[t] /\ seq[t] # Nothing
    BY <1>16 DEF TakeReply, Rseqid, SyncInv, TypeInv
  <2> QED
    BY <1>14, <1>16, <2>1 DEF TakeReply, LeaveRecv, InCall
<1>17. ASSUME NEW t \in Threads, InCall(t), InCall(t)', pc'[t] = "send" \/ Waits(t),
              UNCHANGED <<requests, step, result, replies, call, made, answer>>,
              \A u \in Threads : pc'[u] = pc[u] \/ u = t,
              \A u \in Threads : seq'[u] = seq[u] \/ (u = t /\ pc'[t] = "send")
       PROVE  (~stop => Good) /\ SuccessMeansDone'
  <2>1. SuccessMeansDone'
    BY <1>17, SuccessStays DEF InCall
  <2>2. ~stop => Good
    BY <1>17, ThreadSteps DEF Serving, Waits, InCall, Good
  <2> QED
    BY <2>1, <2>2
<1>18. ASSUME NEW t \in Threads, GenerateSeqId(t) \/ EnterRecv(t) \/ WakeUp(t)
       PROVE  (~stop => Good) /\ SuccessMeansDone'
  <2>1. /\ InCall(t) /\ InCall(t)' /\ (pc'[t] = "send" \/ Waits(t))
        /\ UNCHANGED <<requests, step, result, replies, call, made, answer>>
        /\ \A u \in Threads : pc'[u] = pc[u] \/ u = t
        /\ \A u \in Threads : seq'[u] = seq[u] \/ (u = t /\ pc'[t] = "send")
    BY <1>18 DEF GenerateSeqId, EnterRecv, WakeUp, serverVars, InCall, Waits, TypeInv, TypeOK
  <2> QED
    BY <1>17, <2>1
<1>19. ASSUME NEW t \in Threads, HandOver(t)
       PROVE  (~stop => Good) /\ SuccessMeansDone'
  <2>1. CASE LeaveRecv(t, Garbled)
    BY <1>11, <1>12, <1>19, <2>1 DEF HandOver, LeaveRecv
  <2>2. CASE ~LeaveRecv(t, Garbled)
    <3>1. /\ pc[t] = "look" /\ pc' = [pc EXCEPT ![t] = "wait"] /\ UNCHANGED replies
          /\ UNCHANGED <<client, connected, call, seq, answer, serverVars, stop>>
      BY <1>19, <2>2 DEF HandOver
    <3>2. InCall(t) /\ InCall(t)' /\ Waits(t)
      BY <3>1 DEF InCall, Waits, TypeInv, TypeOK
    <3> QED
      BY <1>17, <3>1, <3>2 DEF serverVars, TypeInv, TypeOK
  <2> QED
    BY <2>1, <2>2
<1> QED
  BY <1>3, <1>4, <1>5, <1>6, <1>7, <1>8, <1>9, <1>10, <1>13, <1>15, <1>16, <1>18, <1>19
     DEF Next, Serve, Proceed

-------------------------------------------------------------------------------
\* The invariant: types, the calls' numbers, the messages of the calls under way,
\* and what the results and replies say of the calls carried out.
Inv == TypeInv /\ SyncInv /\ MessageInv /\ ResultInv /\ RepliesInv /\ SuccessMeansDone

\* The invariant holds in every reachable state.
LEMMA InvHolds == Spec => []Inv
<1>1. Init => Inv
  BY TypeInvInit, SyncInvInit, MessageInvInit, DoneInvInit DEF Inv
<1>2. Inv /\ [Next]_vars => Inv'
  BY TypeInvStep, SyncInvStep, MessageInvStep, DoneInvStep DEF Inv
<1> QED
  BY <1>1, <1>2, PTL DEF Spec

\* The state has its type, and the thread that holds the read lock is the one
\* that looks at the connection.
THEOREM TypeCorrect == Spec => []TypeOK
<1>1. Inv => TypeOK
  BY DEF Inv, TypeInv
<1> QED
  BY <1>1, InvHolds, PTL

\* Every message under way belongs to one thread, which waits for it: no
\* number of threads and no order of their steps (TConcurrentClientSyncInfo as
\* Hbase.cpp uses it, 16871-16925) makes a thread read another's reply.
THEOREM MessagesMatched == Spec => []Matched
<1>1. Inv => Matched
  <2> SUFFICES ASSUME TypeInv, MessageInv, ~stop PROVE Matched
    BY DEF Inv, Matched
  <2> DEFINE messages == requests \o replies
  <2>1. \A i \in DOMAIN messages :
          \/ i \in DOMAIN requests /\ messages[i] = requests[i]
          \/ i - Len(requests) \in DOMAIN replies /\ messages[i] = replies[i - Len(requests)]
    BY DEF TypeInv
  <2>2. \A i \in DOMAIN messages : i \in Int
    BY DEF TypeInv
  <2> HIDE DEF messages
  <2>3. \A i \in DOMAIN requests : requests[i].from \in Threads
    BY MessageParts DEF TypeInv
  <2>4. \A i \in DOMAIN messages : \E t \in Threads : Owns(t, messages[i])
    BY <2>1, <2>3 DEF MessageInv
  <2>5. \A i, j \in DOMAIN messages : messages[i].seqid = messages[j].seqid => i = j
    BY <2>1, <2>2 DEF MessageInv, TypeInv
  <2> QED
    BY <2>4, <2>5 DEF Matched, Owns, Waits, messages
<1> QED
  BY <1>1, InvHolds, PTL

\* A call that returns normally has been carried out as it was made.
THEOREM SuccessIsReal == Spec => []SuccessMeansDone
<1>1. Inv => SuccessMeansDone
  BY DEF Inv
<1> QED
  BY <1>1, InvHolds, PTL

-------------------------------------------------------------------------------
(* At most once, also when the connection is marked as bad *)

\* A request whose caller still waits is the caller's own call, and has a
\* number no other request has; until the gateway has worked on it, and before
\* it is sent, the history has nothing of it.
Answerable(message) == seq[message.from] = message.seqid
OnceInv ==
  /\ \A i, j \in DOMAIN requests : requests[i].seqid = requests[j].seqid => i = j
  /\ \A i \in DOMAIN requests, t \in Threads :
       seq[t] = requests[i].seqid => requests[i].from = t /\ Waits(t)
  /\ \A i \in DOMAIN requests : Answerable(requests[i]) =>
       /\ call[requests[i].from].method = requests[i].name
       /\ requests[i].body = ArgsSent(call[requests[i].from])
       /\ i # 1 \/ step <= Ifaces => made[requests[i].from] = Nothing
  /\ \A t \in Threads : pc[t] \in {"number", "send"} => made[t] = Nothing

\* Nothing has been sent before the first call.
LEMMA OnceInvInit == Init => OnceInv
BY DEF Init, OnceInv

\* A request comes from a thread and has a number.
LEMMA RequestParts ==
  ASSUME TypeInv, NEW i \in DOMAIN requests
  PROVE  /\ requests[i] \in RequestSet
         /\ requests[i].from \in Threads /\ requests[i].seqid # Nothing
BY MessageParts, ServiceAssumption DEF TypeInv

\* A step that leaves requests and history alone, in which threads only go on
\* waiting or end their calls.
LEMMA OnceStays ==
  ASSUME TypeInv, OnceInv, UNCHANGED <<requests, made>>, step' <= Ifaces => step <= Ifaces,
         \A u \in Threads :
           \/ seq'[u] = Nothing /\ pc'[u] = "idle"
           \/ /\ seq'[u] = seq[u] /\ call'[u] = call[u]
              /\ Waits(u) => pc'[u] \in {"recv", "look", "wait"}
              /\ pc'[u] \in {"number", "send"} => pc'[u] = pc[u]
  PROVE  OnceInv'
<1>1. ASSUME NEW i \in DOMAIN requests, NEW t \in Threads, seq'[t] = requests[i].seqid
      PROVE  /\ requests[i].from = t /\ pc'[t] \in {"recv", "look", "wait"}
             /\ seq[t] = requests[i].seqid /\ call'[t] = call[t]
  <2>1. requests[i].seqid # Nothing
    BY RequestParts
  <2>2. seq'[t] = seq[t] /\ call'[t] = call[t] /\ (Waits(t) => pc'[t] \in {"recv", "look", "wait"})
    BY <1>1, <2>1
  <2>3. seq[t] = requests[i].seqid
    BY <1>1, <2>2
  <2>4. requests[i].from = t /\ Waits(t)
    BY <2>3 DEF OnceInv
  <2> QED
    BY <2>2, <2>3, <2>4
<1>2. (\A i \in DOMAIN requests, t \in Threads :
         seq[t] = requests[i].seqid => requests[i].from = t /\ Waits(t))'
  BY <1>1 DEF Waits
<1>3. ASSUME NEW i \in DOMAIN requests, Answerable(requests[i])'
      PROVE  /\ call'[requests[i].from].method = requests[i].name
             /\ requests[i].body = ArgsSent(call'[requests[i].from])
             /\ i # 1 \/ step' <= Ifaces => made[requests[i].from] = Nothing
  <2>1. requests[i].from \in Threads
    BY RequestParts
  <2>2. Answerable(requests[i]) /\ call'[requests[i].from] = call[requests[i].from]
    BY <1>1, <1>3, <2>1 DEF Answerable
  <2> QED
    BY <2>2 DEF OnceInv
<1>4. (\A i \in DOMAIN requests : Answerable(requests[i]) =>
         /\ call[requests[i].from].method = requests[i].name
         /\ requests[i].body = ArgsSent(call[requests[i].from])
         /\ i # 1 \/ step <= Ifaces => made[requests[i].from] = Nothing)'
  BY <1>3
<1>5. \A t \in Threads : pc'[t] \in {"number", "send"} => made'[t] = Nothing
  BY DEF OnceInv
<1>6. (\A i, j \in DOMAIN requests : requests[i].seqid = requests[j].seqid => i = j)'
  BY DEF OnceInv
<1> QED
  BY <1>2, <1>4, <1>5, <1>6 DEF OnceInv

\* The gateway is done with a request.
LEMMA OnceAnswered ==
  ASSUME TypeInv, OnceInv, requests # <<>>, NEW m, Answered(m),
         UNCHANGED <<pc, call, seq, made>>
  PROVE  OnceInv'
<1>1. \A i \in DOMAIN requests' : /\ i \in Nat /\ i # 0 /\ i + 1 \in DOMAIN requests
                                  /\ requests'[i] = requests[i + 1]
  BY TailParts DEF TypeInv, Answered
<1>2. \A u : Waits(u)' <=> Waits(u)
  BY DEF Waits
<1>3. (\A i, j \in DOMAIN requests : requests[i].seqid = requests[j].seqid => i = j)'
  BY <1>1 DEF OnceInv
<1>4. (\A i \in DOMAIN requests, t \in Threads :
         seq[t] = requests[i].seqid => requests[i].from = t /\ Waits(t))'
  BY <1>1, <1>2 DEF OnceInv
<1>5. (\A i \in DOMAIN requests : Answerable(requests[i]) =>
         /\ call[requests[i].from].method = requests[i].name
         /\ requests[i].body = ArgsSent(call[requests[i].from])
         /\ i # 1 \/ step <= Ifaces => made[requests[i].from] = Nothing)'
  <2> SUFFICES ASSUME NEW i \in DOMAIN requests', Answerable(requests'[i])
               PROVE  /\ call[requests'[i].from].method = requests'[i].name
                      /\ requests'[i].body = ArgsSent(call[requests'[i].from])
                      /\ made[requests'[i].from] = Nothing
    BY DEF Answerable
  <2>1. i + 1 \in DOMAIN requests /\ requests'[i] = requests[i + 1] /\ i + 1 # 1
    BY <1>1
  <2> QED
    BY <2>1 DEF OnceInv
<1>6. (\A t \in Threads : pc[t] \in {"number", "send"} => made[t] = Nothing)'
  BY DEF OnceInv
<1> QED
  BY <1>3, <1>4, <1>5, <1>6 DEF OnceInv

\* A thread that ends its call, whatever the answer.
LEMMA OnceEnded ==
  ASSUME TypeInv, OnceInv, NEW t \in Threads, NEW a, EndCall(t, a)
  PROVE  OnceInv'
<1>1. \A u \in Threads \ {t} : pc'[u] = pc[u] /\ seq'[u] = seq[u] /\ call'[u] = call[u]
  BY DEF EndCall, TypeInv, TypeOK
<1>2. pc'[t] = "idle" /\ seq'[t] = Nothing
  BY DEF EndCall, TypeInv, TypeOK
<1>3. UNCHANGED <<requests, step, made>>
  BY DEF EndCall
<1> QED
  BY <1>1, <1>2, <1>3, OnceStays DEF Waits

\* Carrying out the call of the request in work.
LEMMA OnceCarried ==
  ASSUME TypeInv, OnceInv, CallIface
  PROVE  OnceInv'
<1>1. /\ requests # <<>> /\ UNCHANGED <<pc, call, seq, requests>>
      /\ 1 \in DOMAIN requests /\ Serving = requests[1]
      /\ Serving.from \in Threads /\ Serving.seqid # Nothing
  BY TailParts, RequestParts DEF CallIface, TypeInv, Serving
<1>2. CASE made' = made /\ step' = step + 1 /\ step < Ifaces
  <2>1. step <= Ifaces
    BY <1>2, ServiceAssumption DEF TypeInv, TypeOK
  <2> QED
    BY <1>1, <1>2, <2>1, OnceStays DEF Waits
<1>3. CASE step' = Ifaces + 1 /\ made' = made
  <2>1. step' <= Ifaces => step <= Ifaces
    BY <1>3, ServiceAssumption
  <2> QED
    BY <1>1, <1>3, <2>1, OnceStays DEF Waits
<1>4. ASSUME NEW h, step' = Ifaces + 1, Answerable(Serving),
             made' = [made EXCEPT ![Serving.from] = h]
      PROVE  OnceInv'
  <2>1. \A u \in Threads \ {Serving.from} : made'[u] = made[u]
    BY <1>4 DEF TypeInv
  <2>2. Waits(Serving.from)
    BY <1>1, <1>4 DEF OnceInv, Answerable
  <2>3. ASSUME NEW i \in DOMAIN requests, Answerable(requests[i]), i # 1
        PROVE  requests[i].from # Serving.from
    BY <1>1, <1>4, <2>3 DEF OnceInv, Answerable
  <2>4. ~(step' <= Ifaces)
    BY <1>4, ServiceAssumption
  <2>5. (\A i, j \in DOMAIN requests : requests[i].seqid = requests[j].seqid => i = j)'
    BY <1>1 DEF OnceInv
  <2>6. (\A i \in DOMAIN requests, t \in Threads :
           seq[t] = requests[i].seqid => requests[i].from = t /\ Waits(t))'
    BY <1>1 DEF OnceInv, Waits
  <2>7. (\A i \in DOMAIN requests : Answerable(requests[i]) =>
           /\ call[requests[i].from].method = requests[i].name
           /\ requests[i].body = ArgsSent(call[requests[i].from])
           /\ i # 1 \/ step <= Ifaces => made[requests[i].from] = Nothing)'
    <3> SUFFICES ASSUME NEW i \in DOMAIN requests, Answerable(requests[i])
                 PROVE  /\ call[requests[i].from].method = requests[i].name
                        /\ requests[i].body = ArgsSent(call[requests[i].from])
                        /\ i # 1 => made'[requests[i].from] = Nothing
      BY <1>1, <2>4 DEF Answerable
    <3>1. requests[i].from \in Threads
      BY RequestParts
    <3> QED
      BY <2>1, <2>3, <3>1 DEF OnceInv
  <2>8. (\A t \in Threads : pc[t] \in {"number", "send"} => made[t] = Nothing)'
    <3>1. \A t \in Threads : pc[t] \in {"number", "send"} => t # Serving.from
      BY <2>2 DEF Waits
    <3> QED
      BY <1>1, <2>1, <3>1 DEF OnceInv
  <2> QED
    BY <2>5, <2>6, <2>7, <2>8 DEF OnceInv
<1> QED
  BY <1>2, <1>3, <1>4 DEF CallIface, Answerable

\* A new number is on no request, and a new call has no history.
LEMMA OnceBegins ==
  ASSUME TypeInv, OnceInv, NEW t \in Threads, UNCHANGED <<requests, step>>,
         pc'[t] \in {"number", "send"}, made'[t] = Nothing, ~Waits(t),
         \A i \in DOMAIN requests : seq'[t] # requests[i].seqid,
         \A u \in Threads \ {t} : /\ pc'[u] = pc[u] /\ seq'[u] = seq[u]
                                  /\ call'[u] = call[u] /\ made'[u] = made[u]
  PROVE  OnceInv'
<1>1. ASSUME NEW i \in DOMAIN requests, NEW u \in Threads, seq'[u] = requests[i].seqid
      PROVE  u # t /\ requests[i].from = u /\ Waits(u)
  BY <1>1 DEF OnceInv
<1>2. (\A i, j \in DOMAIN requests : requests[i].seqid = requests[j].seqid => i = j)'
  BY DEF OnceInv
<1>3. (\A i \in DOMAIN requests, u \in Threads :
         seq[u] = requests[i].seqid => requests[i].from = u /\ Waits(u))'
  BY <1>1 DEF Waits
<1>4. (\A i \in DOMAIN requests : Answerable(requests[i]) =>
         /\ call[requests[i].from].method = requests[i].name
         /\ requests[i].body = ArgsSent(call[requests[i].from])
         /\ i # 1 \/ step <= Ifaces => made[requests[i].from] = Nothing)'
  <2> SUFFICES ASSUME NEW i \in DOMAIN requests, Answerable(requests[i])'
               PROVE  /\ call'[requests[i].from].method = requests[i].name
                      /\ requests[i].body = ArgsSent(call'[requests[i].from])
                      /\ i # 1 \/ step <= Ifaces => made'[requests[i].from] = Nothing
    OBVIOUS
  <2>1. requests[i].from \in Threads \ {t}
    BY <1>1, RequestParts DEF Answerable
  <2>2. Answerable(requests[i])
    BY <2>1 DEF Answerable
  <2> QED
    BY <2>1, <2>2 DEF OnceInv
<1>5. (\A u \in Threads : pc[u] \in {"number", "send"} => made[u] = Nothing)'
  BY DEF OnceInv
<1> QED
  BY <1>2, <1>3, <1>4, <1>5 DEF OnceInv

\* Sending a call.
LEMMA OnceSent ==
  ASSUME TypeInv, SyncInv, OnceInv, NEW t \in Threads, Send(t)
  PROVE  OnceInv'
<1> DEFINE q == [from |-> t, name |-> call[t].method, seqid |-> seq[t],
                 body |-> ArgsSent(call[t])]
<1>1. /\ pc[t] = "send" /\ seq[t] # Nothing /\ made[t] = Nothing /\ pc'[t] = "recv"
      /\ \A u \in Threads \ {t} : pc'[u] = pc[u]
      /\ UNCHANGED <<call, seq, step, made>>
  BY DEF Send, TypeInv, TypeOK, OnceInv
<1>2. q \in RequestSet
  BY <1>1, CallParts DEF TypeInv, TypeOK, InCall, RequestSet
<1>3. /\ q.from = t /\ q.seqid = seq[t] /\ q.name = call[t].method
      /\ q.body = ArgsSent(call[t])
  OBVIOUS
<1>4. requests' = Append(requests, q)
  BY DEF Send
<1> HIDE DEF q
<1>5. \A i \in DOMAIN requests' : \/ i \in DOMAIN requests /\ requests'[i] = requests[i]
                                  \/ i = Len(requests) + 1 /\ requests'[i] = q
  BY <1>2, <1>4, AppendParts DEF TypeInv
<1>6. \A i \in DOMAIN requests : requests[i].seqid # q.seqid
  BY <1>1, <1>3 DEF OnceInv, Waits
<1>7. \A u \in Threads : Waits(u) => Waits(u)'
  BY <1>1 DEF Waits
<1>8. (\A i, j \in DOMAIN requests : requests[i].seqid = requests[j].seqid => i = j)'
  BY <1>5, <1>6 DEF OnceInv
<1>9. (\A i \in DOMAIN requests, u \in Threads :
         seq[u] = requests[i].seqid => requests[i].from = u /\ Waits(u))'
  <2>1. ASSUME NEW u \in Threads, seq[u] = q.seqid PROVE u = t /\ Waits(u)'
    BY <1>1, <1>3, <2>1 DEF SyncInv, Waits
  <2>2. \A i \in DOMAIN requests, u \in Threads :
          seq[u] = requests[i].seqid => requests[i].from = u /\ Waits(u)'
    BY <1>7 DEF OnceInv
  <2>3. \A i \in DOMAIN requests', u \in Threads :
          seq[u] = requests'[i].seqid => requests'[i].from = u /\ Waits(u)'
    BY <1>3, <1>5, <2>1, <2>2
  <2> QED
    BY <1>1, <2>3
<1>10. (\A i \in DOMAIN requests : Answerable(requests[i]) =>
         /\ call[requests[i].from].method = requests[i].name
         /\ requests[i].body = ArgsSent(call[requests[i].from])
         /\ i # 1 \/ step <= Ifaces => made[requests[i].from] = Nothing)'
  <2> SUFFICES ASSUME NEW i \in DOMAIN requests', Answerable(requests'[i])
               PROVE  /\ call[requests'[i].from].method = requests'[i].name
                      /\ requests'[i].body = ArgsSent(call[requests'[i].from])
                      /\ i # 1 \/ step <= Ifaces => made[requests'[i].from] = Nothing
    BY <1>1 DEF Answerable
  <2>1. CASE i \in DOMAIN requests /\ requests'[i] = requests[i]
    BY <2>1 DEF OnceInv
  <2>2. CASE requests'[i] = q
    BY <1>1, <1>3, <2>2
  <2> QED
    BY <1>5, <2>1, <2>2
<1>11. (\A u \in Threads : pc[u] \in {"number", "send"} => made[u] = Nothing)'
  BY <1>1 DEF OnceInv
<1> QED
  BY <1>8, <1>9, <1>10, <1>11 DEF OnceInv

\* Every step keeps it.
LEMMA OnceInvStep ==
  TypeInv /\ SyncInv /\ MessageInv /\ OnceInv /\ [Next]_vars => OnceInv'
<1> SUFFICES ASSUME TypeInv, SyncInv, MessageInv, OnceInv, [Next]_vars PROVE OnceInv'
  OBVIOUS
<1>0. step \in Nat /\ Ifaces \in Nat \ {0}
  BY ServiceAssumption DEF TypeInv, TypeOK
<1>1. CASE UNCHANGED vars
  BY <1>1, OnceStays DEF vars, Waits
<1>2. CASE DispatchCall
  <2>1. requests # <<>> /\ step = 0 /\ UNCHANGED <<pc, call, seq, made>>
    BY <1>2 DEF DispatchCall
  <2>2. CASE \E m : Answered(m)
    BY <2>1, <2>2, OnceAnswered
  <2>3. CASE step' = 1 /\ UNCHANGED requests
    BY <1>0, <2>1, <2>3, OnceStays DEF Waits
  <2> QED
    BY <1>2, <2>2, <2>3 DEF DispatchCall
<1>3. CASE CallIface
  BY <1>3, OnceCarried
<1>4. CASE ProcessReply
  BY <1>4, OnceAnswered DEF ProcessReply
<1>5. CASE Disconnect
  BY <1>5 DEF Disconnect, OnceInv
<1>6. ASSUME NEW t \in Threads, Call(t) PROVE OnceInv'
  <2>1. /\ pc[t] = "idle" /\ pc'[t] \in {"number", "send"} /\ made'[t] = Nothing
        /\ UNCHANGED <<requests, step>>
        /\ \A u \in Threads \ {t} : /\ pc'[u] = pc[u] /\ seq'[u] = seq[u]
                                    /\ call'[u] = call[u] /\ made'[u] = made[u]
    BY <1>6 DEF Call, InCall, TypeInv, TypeOK
  <2>2. CASE client = Single
    <3>1. ~stop /\ \A u \in Threads : ~Waits(u)
      BY <1>6, <2>1, <2>2 DEF Call, SyncInv, Waits
    <3>2. \A i \in DOMAIN requests : FALSE
      BY <3>1, RequestParts DEF MessageInv, Owns
    <3> QED
      BY <2>1, <3>1, <3>2, OnceBegins
  <2>3. CASE client # Single
    <3>1. seq'[t] = Nothing
      BY <1>6, <2>1, <2>3 DEF Call, TypeInv
    <3>2. \A i \in DOMAIN requests : seq'[t] # requests[i].seqid
      BY <3>1, RequestParts
    <3> QED
      BY <2>1, <3>2, OnceBegins DEF Waits
  <2> QED
    BY <2>2, <2>3
<1>7. ASSUME NEW t \in Threads, Send(t) PROVE OnceInv'
  BY <1>7, OnceSent
<1>8. ASSUME NEW t \in Threads,
             \/ SendFails(t) \/ Recv(t) \/ RecvFails(t) \/ GenerateSeqIdFails(t)
             \/ TakeReply(t) \/ LookFails(t)
      PROVE  OnceInv'
  <2>1. \E a : EndCall(t, a)
    BY <1>8 DEF SendFails, Recv, RecvFails, GenerateSeqIdFails, TakeReply, LookFails,
       LeaveRecv
  <2> QED
    BY <2>1, OnceEnded
<1>9. ASSUME NEW t \in Threads, GenerateSeqId(t) PROVE OnceInv'
  <2>1. /\ pc[t] = "number" /\ pc'[t] = "send" /\ made'[t] = Nothing /\ ~stop
        /\ UNCHANGED <<requests, step>>
        /\ \A u \in Threads \ {t} : /\ pc'[u] = pc[u] /\ seq'[u] = seq[u]
                                    /\ call'[u] = call[u] /\ made'[u] = made[u]
        /\ \A u \in Threads : seq[u] # seq'[t]
    BY <1>9 DEF GenerateSeqId, serverVars, TypeInv, TypeOK, OnceInv
  <2>2. \A i \in DOMAIN requests : seq'[t] # requests[i].seqid
    BY <2>1, RequestParts DEF MessageInv, Owns
  <2> QED
    BY <2>1, <2>2, OnceBegins DEF Waits
<1>10. ASSUME NEW t \in Threads, EnterRecv(t) \/ WakeUp(t) PROVE OnceInv'
  <2>1. /\ UNCHANGED <<call, seq, requests, step, made>>
        /\ pc'[t] \in {"look", "wait"} /\ \A u \in Threads \ {t} : pc'[u] = pc[u]
    BY <1>10 DEF EnterRecv, WakeUp, serverVars, TypeInv, TypeOK
  <2> QED
    BY <2>1, OnceStays DEF Waits
<1>11. ASSUME NEW t \in Threads, HandOver(t) PROVE OnceInv'
  <2>1. CASE LeaveRecv(t, Garbled)
    BY <2>1, OnceEnded DEF LeaveRecv
  <2>2. CASE ~LeaveRecv(t, Garbled)
    <3>1. pc' = [pc EXCEPT ![t] = "wait"] /\ UNCHANGED <<call, seq, serverVars>>
      BY <1>11, <2>2 DEF HandOver
    <3>2. pc'[t] = "wait" /\ \A u \in Threads \ {t} : pc'[u] = pc[u]
      BY <3>1 DEF TypeInv, TypeOK
    <3> QED
      BY <3>1, <3>2, OnceStays DEF Waits, serverVars
  <2> QED
    BY <2>1, <2>2
<1> QED
  BY <1>1, <1>2, <1>3, <1>4, <1>5, <1>6, <1>7, <1>8, <1>9, <1>10, <1>11
  DEF Next, Serve, Proceed

\* The gateway carries a call out at most once, and only for a thread that
\* waits for it, also when the connection is marked as bad.
LEMMA CarriedOnce ==
  ASSUME TypeInv, OnceInv, requests # <<>>, step <= Ifaces, Answerable(Serving)
  PROVE  /\ Serving.from \in Threads /\ Waits(Serving.from)
         /\ made[Serving.from] = Nothing
         /\ call[Serving.from] = [method |-> Serving.name, args |-> ArgsReceived]
         /\ call[Serving.from] \in GoodCalls
<1>1. 1 \in DOMAIN requests /\ Serving = requests[1]
  BY TailParts DEF TypeInv, Serving
<1>2. Serving.from \in Threads /\ Waits(Serving.from) /\ made[Serving.from] = Nothing
  BY <1>1, RequestParts DEF OnceInv, Answerable
<1>3. /\ call[Serving.from] \in GoodCalls /\ call[Serving.from].method = Serving.name
      /\ Serving.body = ArgsSent(call[Serving.from])
  BY <1>1, <1>2 DEF OnceInv, Waits, InCall, TypeInv
<1>4. ArgsReceived = call[Serving.from].args
  BY <1>3, CallParts, ArgsArrive DEF ArgsReceived
<1> QED
  BY <1>2, <1>3, <1>4, CallParts

-------------------------------------------------------------------------------
(* What an exception of the application stands for *)

\* A reply that is an exception answers a call that was not carried out, or
\* that ended with an exception its method does not declare.
Excepted(t) == made[t] = Nothing \/ made[t].outcome.kind = "other"
ExceptInv ==
  ~stop =>
    \A i \in DOMAIN replies, t \in Threads :
      Owns(t, replies[i]) /\ replies[i].type = "T_EXCEPTION" => Excepted(t)

LEMMA ExceptInvInit == Init => ExceptInv
BY DEF Init, ExceptInv

\* A step that adds no reply, no owner and nothing to an owner's history.
LEMMA ExceptStays ==
  ASSUME ExceptInv, ~stop,
         \A i \in DOMAIN replies' : \E j \in DOMAIN replies : replies'[i] = replies[j],
         \A j \in DOMAIN replies, u \in Threads :
           OwnsThen(u, replies[j]) => Owns(u, replies[j]) /\ made'[u] = made[u]
  PROVE  ExceptInv'
<1> SUFFICES ASSUME NEW i \in DOMAIN replies', NEW u \in Threads,
                    OwnsThen(u, replies'[i]), replies'[i].type = "T_EXCEPTION"
             PROVE  Excepted(u)'
  BY DEF ExceptInv, Owns, Waits, OwnsThen
<1>1. PICK j \in DOMAIN replies : replies'[i] = replies[j]
  OBVIOUS
<1>2. Excepted(u) /\ made'[u] = made[u]
  BY <1>1 DEF ExceptInv
<1> QED
  BY <1>2 DEF Excepted

\* The gateway answers.
LEMMA ExceptAnswered ==
  ASSUME TypeInv, SyncInv, MessageInv, ExceptInv, ~stop, requests # <<>>,
         NEW m \in ReplySet, Answered(m), UNCHANGED <<pc, call, seq, made>>,
         m.seqid = Serving.seqid,
         m.type = "T_EXCEPTION" => Excepted(Serving.from)
  PROVE  ExceptInv'
<1> SUFFICES ASSUME NEW i \in DOMAIN replies', NEW u \in Threads,
                    OwnsThen(u, replies'[i]), replies'[i].type = "T_EXCEPTION"
             PROVE  Excepted(u)
  BY DEF ExceptInv, Owns, Waits, OwnsThen, Excepted
<1>1. \/ i \in DOMAIN replies /\ replies'[i] = replies[i]
      \/ replies'[i] = m
  BY AppendParts DEF Answered, TypeInv
<1>2. Owns(u, replies'[i])
  BY DEF Owns, Waits, OwnsThen
<1>3. CASE i \in DOMAIN replies /\ replies'[i] = replies[i]
  BY <1>2, <1>3 DEF ExceptInv
<1>4. CASE replies'[i] = m
  <2>1. u = Serving.from
    BY <1>2, <1>4, ServingIsOwned DEF Owns, SyncInv, TypeInv, Waits
  <2> QED
    BY <1>4, <2>1
<1> QED
  BY <1>1, <1>3, <1>4

\* Threads add no reply, no owner and nothing to an owner's history.
LEMMA ThreadsOwn ==
  ASSUME TypeInv, SyncInv, MessageInv, ~stop, NEW t \in Threads, Call(t) \/ Proceed(t)
  PROVE  /\ \A i \in DOMAIN replies' : \E j \in DOMAIN replies : replies'[i] = replies[j]
         /\ \A j \in DOMAIN replies, u \in Threads :
              OwnsThen(u, replies[j]) => Owns(u, replies[j]) /\ made'[u] = made[u]
<1> DEFINE Goal == /\ \A i \in DOMAIN replies' : \E j \in DOMAIN replies : replies'[i] = replies[j]
                   /\ \A j \in DOMAIN replies, u \in Threads :
                        OwnsThen(u, replies[j]) => Owns(u, replies[j]) /\ made'[u] = made[u]
<1>1. ASSUME \/ replies' = replies
             \/ replies # <<>> /\ replies' = Tail(replies),
             \A u \in Threads : pc'[u] \in {"recv", "look", "wait"} =>
               /\ seq'[u] = seq[u] /\ call'[u] = call[u] /\ made'[u] = made[u]
               /\ Waits(u) \/ \A j \in DOMAIN replies : replies[j].seqid # seq[u]
      PROVE  Goal
  <2>1. CASE replies' = replies
    BY <1>1, <2>1 DEF OwnsThen, Owns
  <2>2. CASE replies # <<>> /\ replies' = Tail(replies)
    <3>1. \A i \in DOMAIN Tail(replies) : i + 1 \in DOMAIN replies /\ Tail(replies)[i] = replies[i + 1]
      BY <2>2, TailParts DEF TypeInv
    <3>2. \A i \in DOMAIN replies' : \E j \in DOMAIN replies : replies'[i] = replies[j]
      BY <2>2, <3>1
    <3> QED
      BY <1>1, <3>2 DEF OwnsThen, Owns
  <2> QED
    BY <1>1, <2>1, <2>2
<1>2. CASE Call(t)
  <2>1. /\ UNCHANGED replies /\ pc'[t] \in {"number", "send"}
        /\ \A u \in Threads \ {t} : /\ pc'[u] = pc[u] /\ seq'[u] = seq[u]
                                    /\ call'[u] = call[u] /\ made'[u] = made[u]
    BY <1>2 DEF Call, TypeInv, TypeOK
  <2> QED
    BY <1>1, <2>1 DEF Waits
<1>3. CASE Send(t)
  <2>1. /\ UNCHANGED <<replies, call, seq, made>> /\ pc[t] = "send" /\ seq[t] # Nothing
        /\ \A u \in Threads \ {t} : pc'[u] = pc[u]
    BY <1>3 DEF Send, TypeInv, TypeOK
  <2>2. \A j \in DOMAIN replies : replies[j].seqid # seq[t]
    BY <2>1, ReplyIsOwned DEF Owns, Waits
  <2> QED
    BY <1>1, <2>1, <2>2 DEF Waits
<1>4. CASE GenerateSeqId(t)
  <2>1. /\ UNCHANGED <<replies, call, made>> /\ pc'[t] = "send"
        /\ \A u \in Threads \ {t} : pc'[u] = pc[u] /\ seq'[u] = seq[u]
    BY <1>4 DEF GenerateSeqId, serverVars, TypeInv, TypeOK
  <2> QED
    BY <1>1, <2>1 DEF Waits
<1>5. CASE EnterRecv(t) \/ WakeUp(t)
  <2>1. /\ UNCHANGED <<replies, call, seq, made>> /\ pc[t] \in {"recv", "wait"}
        /\ \A u \in Threads \ {t} : pc'[u] = pc[u]
    BY <1>5 DEF EnterRecv, WakeUp, serverVars, TypeInv, TypeOK
  <2> QED
    BY <1>1, <2>1 DEF Waits
<1>6. ASSUME NEW a, EndCall(t, a),
             replies' = replies \/ (replies # <<>> /\ replies' = Tail(replies))
      PROVE  Goal
  <2>1. /\ UNCHANGED <<call, made>> /\ pc'[t] = "idle"
        /\ \A u \in Threads \ {t} : pc'[u] = pc[u] /\ seq'[u] = seq[u]
    BY <1>6 DEF EndCall, TypeInv, TypeOK
  <2> QED
    BY <1>1, <1>6, <2>1 DEF Waits
<1>7. CASE \/ SendFails(t) \/ Recv(t) \/ RecvFails(t) \/ GenerateSeqIdFails(t)
           \/ TakeReply(t) \/ LookFails(t)
  <2>1. /\ \E a : EndCall(t, a)
        /\ replies' = replies \/ (replies # <<>> /\ replies' = Tail(replies))
    BY <1>7 DEF SendFails, Recv, RecvFails, GenerateSeqIdFails, TakeReply, LookFails,
       LeaveRecv
  <2> HIDE DEF Goal
  <2>2. Goal
    BY <1>6, <2>1
  <2> QED
    BY <2>2 DEF Goal
<1>8. CASE HandOver(t)
  <2>1. CASE LeaveRecv(t, Garbled)
    BY <1>6, <1>8, <2>1 DEF HandOver, LeaveRecv
  <2>2. CASE ~LeaveRecv(t, Garbled)
    <3>1. /\ pc[t] = "look" /\ pc' = [pc EXCEPT ![t] = "wait"]
          /\ UNCHANGED <<call, seq, serverVars, replies>>
      BY <1>8, <2>2 DEF HandOver
    <3>2. \A u \in Threads \ {t} : pc'[u] = pc[u]
      BY <3>1 DEF TypeInv, TypeOK
    <3> QED
      BY <1>1, <3>1, <3>2 DEF Waits, serverVars
  <2> QED
    BY <2>1, <2>2
<1> QED
  BY <1>2, <1>3, <1>4, <1>5, <1>7, <1>8 DEF Proceed

\* Every step keeps it.
LEMMA ExceptInvStep ==
  /\ TypeInv /\ SyncInv /\ MessageInv /\ ResultInv /\ OnceInv /\ ExceptInv
  /\ [Next]_vars
  => ExceptInv'
<1> SUFFICES ASSUME TypeInv, SyncInv, MessageInv, ResultInv, OnceInv, ExceptInv,
                    [Next]_vars, ~stop
             PROVE  ExceptInv'
  BY StopIsForEver DEF ExceptInv
<1>1. ASSUME UNCHANGED <<replies, pc, call, seq, made>> PROVE ExceptInv'
  BY <1>1, ExceptStays DEF Owns, OwnsThen, Waits
<1>2. CASE UNCHANGED vars
  BY <1>1, <1>2 DEF vars
<1>3. CASE DispatchCall
  <2>1. /\ requests # <<>> /\ step = 0 /\ UNCHANGED <<pc, call, seq, made>>
        /\ Serving = requests[1] /\ 1 \in DOMAIN requests
    BY <1>3, TailParts DEF DispatchCall, TypeInv, Serving
  <2>2. CASE Answered(Message("T_EXCEPTION", {}))
    <3> DEFINE m == Message("T_EXCEPTION", {})
    <3>1. m \in ReplySet /\ m.seqid = Serving.seqid
      BY <2>1, ServingIsOwned, MessageParts DEF Message, ReplySet
    <3>2. made[Serving.from] = Nothing
      <4>1. Answerable(requests[1]) /\ step <= Ifaces
        BY <2>1, ServingIsOwned, ServiceAssumption DEF Owns, Answerable
      <4> QED
        BY <2>1, <4>1 DEF OnceInv
    <3> HIDE DEF m
    <3> QED
      BY <2>1, <2>2, <3>1, <3>2, ExceptAnswered DEF m, Excepted
  <2>3. CASE UNCHANGED replies
    BY <1>1, <2>1, <2>3
  <2> QED
    BY <1>3, <2>2, <2>3 DEF DispatchCall
<1>4. CASE CallIface
  <2>1. requests # <<>> /\ UNCHANGED <<pc, call, seq, replies>>
    BY <1>4 DEF CallIface
  <2>2. \A u \in Threads \ {Serving.from} : made'[u] = made[u]
    BY <1>4 DEF CallIface, TypeInv
  <2>3. ASSUME NEW j \in DOMAIN replies, NEW u \in Threads, OwnsThen(u, replies[j])
        PROVE  Owns(u, replies[j]) /\ made'[u] = made[u]
    <3>1. Owns(u, replies[j])
      BY <2>1, <2>3 DEF OwnsThen, Owns, Waits
    <3>2. u # Serving.from
      BY <2>1, <3>1, ServingIsOwned DEF Owns
    <3> QED
      BY <2>2, <3>1, <3>2
  <2> QED
    BY <2>1, <2>3, ExceptStays
<1>5. CASE ProcessReply
  <2> DEFINE m == Reply(result)
  <2>1. /\ requests # <<>> /\ Answered(m) /\ UNCHANGED <<pc, call, seq, made>>
        /\ result \in OutcomesOf(Serving.name)
    BY <1>5 DEF ProcessReply, TypeInv
  <2>2. m \in ReplySet /\ m.seqid = Serving.seqid
    BY <2>1, ServingIsOwned, MessageParts DEF Reply, Message, ReplySet
  <2>3. m.type = "T_EXCEPTION" => result.kind = "other"
    BY DEF Reply, Message
  <2>4. Carried(Serving.from, result)
    BY <1>5 DEF ProcessReply, ResultInv
  <2> HIDE DEF m
  <2> QED
    BY <2>1, <2>2, <2>3, <2>4, ExceptAnswered DEF Excepted, Carried
<1>6. CASE Disconnect
  <2>1. /\ UNCHANGED <<pc, call, seq, made>>
        /\ \A i \in DOMAIN replies' : i \in DOMAIN replies /\ replies'[i] = replies[i]
    BY <1>6, PrefixParts DEF Disconnect, TypeInv
  <2> QED
    BY <2>1, ExceptStays DEF Owns, OwnsThen, Waits
<1>7. ASSUME NEW t \in Threads, Call(t) \/ Proceed(t) PROVE ExceptInv'
  BY <1>7, ThreadsOwn, ExceptStays
<1> QED
  BY <1>2, <1>3, <1>4, <1>5, <1>6, <1>7 DEF Next, Serve

-------------------------------------------------------------------------------
(* Every call does what module Rpc promises *)

\* The owner of the message whose header has been read is there to take it.
PendingInv == ~stop /\ pending # Nothing => \E t \in Threads : seq[t] = pending

LEMMA PendingInvInit == Init => PendingInv
BY DEF Init, PendingInv

\* Whoever cannot take the message marks the connection as bad.
LEMMA PendingInvStep == TypeInv /\ SyncInv /\ PendingInv /\ [Next]_vars => PendingInv'
<1> SUFFICES ASSUME TypeInv, SyncInv, PendingInv, [Next]_vars, ~stop, ~stop', pending' # Nothing
             PROVE  \E t \in Threads : seq'[t] = pending'
  BY StopIsForEver DEF PendingInv
<1>1. ASSUME pending' = pending,
             \A t \in Threads : seq[t] # Nothing => seq'[t] = seq[t]
      PROVE  \E t \in Threads : seq'[t] = pending'
  BY <1>1 DEF PendingInv
<1>2. CASE UNCHANGED vars \/ Serve \/ Disconnect
  BY <1>1, <1>2 DEF vars, Serve, DispatchCall, CallIface, ProcessReply, Disconnect, syncVars
<1>3. ASSUME NEW t \in Threads, Call(t) PROVE \E u \in Threads : seq'[u] = pending'
  <2>1. pending' = pending /\ seq[t] = Nothing /\ \A u \in Threads \ {t} : seq'[u] = seq[u]
    BY <1>3 DEF Call, InCall, TypeInv, TypeOK, syncVars
  <2> QED
    BY <1>1, <2>1
<1>4. ASSUME NEW t \in Threads, GenerateSeqId(t) PROVE \E u \in Threads : seq'[u] = pending'
  <2>1. pending' = pending /\ seq[t] = Nothing /\ \A u \in Threads \ {t} : seq'[u] = seq[u]
    BY <1>4 DEF GenerateSeqId, TypeInv, TypeOK, syncVars
  <2> QED
    BY <1>1, <2>1
<1>5. ASSUME NEW t \in Threads, Send(t) \/ EnterRecv(t) \/ WakeUp(t)
      PROVE  \E u \in Threads : seq'[u] = pending'
  BY <1>1, <1>5 DEF Send, EnterRecv, WakeUp, syncVars
<1>6. ASSUME NEW t \in Threads, SendFails(t) \/ Recv(t) \/ RecvFails(t)
      PROVE  FALSE
  <2>1. client = Single /\ pending' = pending
    BY <1>6 DEF SendFails, MarkBad, Recv, RecvFails, syncVars
  <2> QED
    BY <2>1 DEF SyncInv
<1>7. ASSUME NEW t \in Threads, GenerateSeqIdFails(t) \/ TakeReply(t) \/ LookFails(t)
      PROVE  FALSE
  BY <1>7 DEF GenerateSeqIdFails, TakeReply, LookFails, LeaveRecv, MarkBad, Transport, Outcome
<1>8. ASSUME NEW t \in Threads, HandOver(t) PROVE \E u \in Threads : seq'[u] = pending'
  <2>1. ~LeaveRecv(t, Garbled)
    BY DEF LeaveRecv, Garbled, Outcome, MarkBad
  <2>2. (\E u \in Threads : seq[u] = Rseqid) /\ pending' = Rseqid /\ UNCHANGED seq
    BY <1>8, <2>1 DEF HandOver
  <2> QED
    BY <2>2
<1> QED
  BY <1>2, <1>3, <1>4, <1>5, <1>6, <1>7, <1>8 DEF Next, Proceed

RpcInv == Inv /\ OnceInv /\ ExceptInv /\ PendingInv

\* The invariant holds in every reachable state.
LEMMA RpcInvHolds == Spec => []RpcInv
<1>1. Init => RpcInv
  BY TypeInvInit, SyncInvInit, MessageInvInit, DoneInvInit, OnceInvInit, ExceptInvInit,
     PendingInvInit
  DEF Inv, RpcInv
<1>2. RpcInv /\ [Next]_vars => RpcInv'
  BY TypeInvStep, SyncInvStep, MessageInvStep, DoneInvStep, OnceInvStep, ExceptInvStep,
     PendingInvStep
  DEF Inv, RpcInv
<1> QED
  BY <1>1, <1>2, PTL DEF Spec

\* What a caller sees of a call: nothing of a step that neither begins nor
\* ends one nor carries one out.
LEMMA QuietStep ==
  ASSUME UNCHANGED <<call, made, answer>>, \A u \in Threads : InCall(u)' <=> InCall(u)
  PROVE  UNCHANGED Abstract!rvars
<1>1. Asked' = Asked
  BY DEF Asked
<1>2. History' = History
  BY DEF History
<1> QED
  BY <1>1, <1>2 DEF Abstract!rvars

\* A call that begins.
LEMMA CallAsks ==
  ASSUME TypeInv, NEW t \in Threads, Call(t)
  PROVE  Abstract!Ask(t)
<1>1. /\ ~InCall(t) /\ InCall(t)' /\ call'[t] \in AllCalls
      /\ answer' = [answer EXCEPT ![t] = Nothing]
      /\ made' = [made EXCEPT ![t] = Nothing]
      /\ \A u \in Threads \ {t} : pc'[u] = pc[u] /\ call'[u] = call[u]
  <2>1. call'[t] \in AllCalls
    <3>1. PICK m \in Methods : \E a \in ArgValues[m] :
            call' = [call EXCEPT ![t] = [method |-> m, args |-> a]]
      BY ServiceAssumption DEF Call
    <3> QED
      BY <3>1, CallParts DEF TypeInv, TypeOK
  <2> QED
    BY <2>1 DEF Call, InCall, TypeInv, TypeOK
<1>2. Asked[t] = Nothing
  BY <1>1 DEF Asked
<1>3. Asked' = [Asked EXCEPT ![t] = call'[t]]
  BY <1>1 DEF Asked, InCall
<1>4. History' = [History EXCEPT ![t] = Nothing]
  <2>1. made'[t] = Nothing /\ \A u \in Threads \ {t} : made'[u] = made[u]
    BY <1>1 DEF TypeInv
  <2> QED
    BY <2>1 DEF History
<1> QED
  BY <1>1, <1>2, <1>3, <1>4 DEF Abstract!Ask

\* An implementation that returns, or throws, for a caller that waits.
LEMMA IfaceCarriesOut ==
  ASSUME TypeInv, OnceInv, CallIface
  PROVE  \/ Abstract!CarryOut(Serving.from) /\ Serving.from \in Threads
         \/ UNCHANGED Abstract!rvars
<1>1. /\ requests # <<>> /\ step \in 1..Ifaces
      /\ UNCHANGED <<pc, call, seq, answer, requests>>
  BY DEF CallIface
<1>2. CASE made' = made
  BY <1>1, <1>2, QuietStep DEF InCall
<1>3. ASSUME NEW o \in OutcomesOf(Serving.name), NEW n, seq[Serving.from] = Serving.seqid,
             made' = [made EXCEPT ![Serving.from] =
                       [call |-> [method |-> Serving.name, args |-> ArgsReceived],
                        outcome |-> o, ifaces |-> n]],
             n \in Nat
      PROVE  Abstract!CarryOut(Serving.from) /\ Serving.from \in Threads
  <2> DEFINE f == Serving.from
             c == [method |-> Serving.name, args |-> ArgsReceived]
             h == [call |-> c, outcome |-> o, ifaces |-> n]
  <2>1. f \in Threads /\ Waits(f) /\ made[f] = Nothing /\ call[f] = c /\ c \in GoodCalls
    BY <1>1, <1>3, CarriedOnce DEF Answerable
  <2>2. c \in AllCalls /\ o \in AllOutcomes
    <3>1. c.method \in Methods /\ c.method = Serving.name /\ c \in AllCalls
      BY <2>1, CallParts
    <3> QED
      BY <3>1, OutcomesTyped
  <2>3. h # Nothing /\ h.call = c /\ h.outcome = o
    BY <1>3, <2>2, HistoryAssumption
  <2> HIDE DEF h
  <2>4. made' = [made EXCEPT ![f] = h]
    BY <1>3 DEF h
  <2>5. /\ made'[f] = h /\ \A u \in Threads \ {f} : made'[u] = made[u]
    BY <2>1, <2>4 DEF TypeInv
  <2>6. Asked[f] = c /\ Asked[f] # Nothing
    BY <2>1, <2>2, HistoryAssumption DEF Asked, Waits, InCall
  <2>7. History[f] = Nothing
    BY <2>1 DEF History
  <2>8. History' = [History EXCEPT ![f] = [call |-> c, outcome |-> o]]
    <3> HIDE DEF c, f
    <3> DEFINE e == [call |-> c, outcome |-> o]
    <3>1. made'[f] # Nothing /\ made'[f].call = c /\ made'[f].outcome = o
      BY <2>3, <2>5
    <3>2. History' = [u \in Threads |-> IF u = f THEN e ELSE History[u]]
      BY <2>5, <3>1 DEF History
    <3> HIDE DEF e
    <3>3. History' = [History EXCEPT ![f] = e]
      BY <3>2 DEF History
    <3> QED
      BY <3>3 DEF e
  <2>9. o \in OutcomesOfCall(Asked[f])
    BY <2>6 DEF OutcomesOfCall
  <2>10. UNCHANGED <<Asked, answer>>
    BY <1>1 DEF Asked, InCall
  <2> HIDE DEF c, f
  <2>11. Abstract!CarryOut(f)
    BY <2>6, <2>7, <2>8, <2>9, <2>10 DEF Abstract!CarryOut
  <2> QED
    BY <2>1, <2>11 DEF f
<1>4. (\E o \in OutcomesOf(Serving.name) : \E n \in Nat :
         /\ seq[Serving.from] = Serving.seqid
         /\ made' = [made EXCEPT ![Serving.from] =
                       [call |-> [method |-> Serving.name, args |-> ArgsReceived],
                        outcome |-> o, ifaces |-> n]])
      \/ made' = made
  <2>1. step \in Nat /\ step - 1 \in Nat
    BY <1>1, ServiceAssumption
  <2> QED
    BY <2>1 DEF CallIface
<1> QED
  BY <1>2, <1>3, <1>4

\* A thread that ends its call with an answer Rpc allows.
LEMMA EndAnswers ==
  ASSUME TypeInv, NEW t \in Threads, NEW a, EndCall(t, a), InCall(t), a \in Abstract!Told(t)
  PROVE  Abstract!Answer(t)
<1>1. /\ ~InCall(t)' /\ UNCHANGED <<call, made>>
      /\ answer' = [answer EXCEPT ![t] = a]
      /\ \A u \in Threads \ {t} : pc'[u] = pc[u]
  BY DEF EndCall, InCall, TypeInv, TypeOK
<1>2. Asked[t] # Nothing
  BY CallParts, HistoryAssumption DEF Asked, TypeInv
<1>3. Asked' = [Asked EXCEPT ![t] = Nothing]
  BY <1>1 DEF Asked, InCall
<1>4. History' = History
  BY <1>1 DEF History
<1> QED
  BY <1>1, <1>2, <1>3, <1>4 DEF Abstract!Answer

\* Everybody may be told that the connection is broken.
LEMMA TransportIsTold ==
  ASSUME NEW t \in Threads PROVE Transport \in Abstract!Told(t)
<1>1. Transport.kind = "transport"
  BY DEF Transport, Outcome
<1>2. "transport" \in Abstract!Kinds(t)
  BY DEF Abstract!Kinds
<1> QED
  BY <1>1, <1>2 DEF Abstract!Told

\* What a thread makes of its reply is what Rpc lets it be told.
LEMMA ReplyIsTold ==
  ASSUME TypeInv, SyncInv, MessageInv, RepliesInv, ExceptInv, ~stop, replies # <<>>,
         NEW t \in Threads, seq[t] # Nothing, Head(replies).seqid = seq[t]
  PROVE  Received(call[t].method, Head(replies)) \in Abstract!Told(t)
<1> DEFINE a == Received(call[t].method, Head(replies))
<1>1. /\ 1 \in DOMAIN replies /\ Head(replies) = replies[1]
      /\ replies[1] \in ReplySet /\ Owns(t, replies[1])
  BY TailParts, ReplyIsOwned DEF TypeInv
<1>2. /\ replies[1].name = call[t].method /\ call[t].method \in Methods
      /\ call[t] \in AllCalls
  BY <1>1, MessageParts, CallParts DEF Owns, Waits, InCall, TypeInv
<1>3. CASE replies[1].type = "T_EXCEPTION"
  <2>1. a = Application /\ Application.kind = "application"
    BY <1>1, <1>3 DEF Received, Application, Outcome
  <2>2. Excepted(t)
    BY <1>1, <1>3 DEF ExceptInv
  <2>3. History[t] = Nothing \/ History[t].outcome.kind = "other"
    BY <2>2 DEF Excepted, History
  <2>4. "application" \in Abstract!Kinds(t)
    BY <2>3 DEF Abstract!Kinds
  <2> HIDE DEF a
  <2>5. a \in Abstract!Told(t)
    BY <2>1, <2>4 DEF Abstract!Told
  <2> QED
    BY <2>5 DEF a
<1>4. CASE replies[1].type = "T_REPLY"
  <2>1. PICK o \in OutcomesOf(call[t].method) :
          /\ o.kind # "other" /\ Carried(t, o)
          /\ replies[1].body = ResultSent(call[t].method, o)
    BY <1>1, <1>2, <1>4 DEF RepliesInv
  <2>2. a = IF o.kind # "newer" THEN o
            ELSE IF Void(call[t].method) THEN Outcome("return", "none", Nothing)
            ELSE Missing
    BY <1>1, <1>2, <1>4, <2>1, ReplyMeansOutcome
  <2>3. History[t] # Nothing /\ History[t].outcome = o
    <3>1. History[t] = [call |-> call[t], outcome |-> o]
      BY <2>1 DEF Carried, History
    <3>2. o \in AllOutcomes
      BY <1>2, <2>1, OutcomesTyped
    <3> QED
      BY <1>2, <3>1, <3>2, HistoryAssumption
  <2>4. o.kind \in {"return", "throw", "newer"}
    BY <1>2, <2>1, OutcomeCases
  <2> HIDE DEF a
  <2>5. CASE o.kind = "newer"
    <3>1. a \in {Outcome("return", "none", Nothing), Missing}
      BY <2>2, <2>5
    <3>2. a.kind \in {"return", "missing"}
      BY <3>1 DEF Outcome, Missing
    <3>3. {"return", "missing"} \subseteq Abstract!Kinds(t)
      BY <2>3, <2>5 DEF Abstract!Kinds
    <3> QED
      BY <3>1, <3>2, <3>3 DEF Abstract!Told, a
  <2>6. CASE o.kind \in {"return", "throw"}
    <3>1. a = o
      BY <2>2, <2>6
    <3>2. o \in {m.outcome : m \in {n \in {History[t]} \ {Nothing} :
                                      n.outcome.kind \in {"return", "throw"}}}
      BY <2>3, <2>6
    <3> QED
      BY <3>1, <3>2 DEF Abstract!Told, a
  <2> QED
    BY <2>4, <2>5, <2>6
<1> QED
  BY <1>1, <1>3, <1>4 DEF ReplySet

\* Every step is one of Rpc's or none of the caller's business.
LEMMA RpcStep == RpcInv /\ [Next]_vars => [Abstract!Next]_(Abstract!rvars)
<1> SUFFICES ASSUME RpcInv, [Next]_vars PROVE Abstract!Next \/ UNCHANGED Abstract!rvars
  OBVIOUS
<1>0. /\ TypeInv /\ SyncInv /\ MessageInv /\ ResultInv /\ RepliesInv
      /\ OnceInv /\ ExceptInv /\ PendingInv
  BY DEF RpcInv, Inv
<1> DEFINE Goal == Abstract!Next \/ UNCHANGED Abstract!rvars
<1>1. ASSUME UNCHANGED <<pc, call, made, answer>> PROVE Goal
  BY <1>1, QuietStep DEF InCall
<1>2. CASE UNCHANGED vars \/ DispatchCall \/ ProcessReply \/ Disconnect
  BY <1>1, <1>2 DEF vars, DispatchCall, ProcessReply, Disconnect
<1>3. CASE CallIface
  BY <1>0, <1>3, IfaceCarriesOut DEF Abstract!Next
<1>4. ASSUME NEW t \in Threads, Call(t) PROVE Goal
  BY <1>0, <1>4, CallAsks DEF Abstract!Next
<1>5. ASSUME NEW t \in Threads, NEW to \in {"send", "recv", "look", "wait"},
             InCall(t), pc' = [pc EXCEPT ![t] = to] \/ UNCHANGED pc,
             UNCHANGED <<call, made, answer>>
      PROVE  Goal
  <2>1. \A u \in Threads : InCall(u)' <=> InCall(u)
    BY <1>0, <1>5 DEF InCall, TypeInv, TypeOK
  <2> QED
    BY <1>5, <2>1, QuietStep
<1>6. ASSUME NEW t \in Threads, Send(t) \/ GenerateSeqId(t) \/ EnterRecv(t) \/ WakeUp(t)
      PROVE  Goal
  <2>1. /\ InCall(t) /\ UNCHANGED <<call, made, answer>>
        /\ \E to \in {"send", "recv", "look", "wait"} :
             pc' = [pc EXCEPT ![t] = to] \/ UNCHANGED pc
    BY <1>6 DEF Send, GenerateSeqId, EnterRecv, WakeUp, serverVars, InCall
  <2> HIDE DEF Goal
  <2>2. Goal
    BY <1>5, <2>1
  <2> QED
    BY <2>2 DEF Goal
<1>7. ASSUME NEW t \in Threads, NEW a, EndCall(t, a), InCall(t), a \in Abstract!Told(t)
      PROVE  Goal
  BY <1>0, <1>7, EndAnswers DEF Abstract!Next
<1>8. ASSUME NEW t \in Threads,
             SendFails(t) \/ RecvFails(t) \/ GenerateSeqIdFails(t) \/ LookFails(t)
      PROVE  Goal
  <2>1. EndCall(t, Transport) /\ InCall(t)
    BY <1>8 DEF SendFails, RecvFails, GenerateSeqIdFails, LookFails, LeaveRecv, InCall
  <2> QED
    BY <1>7, <2>1, TransportIsTold
<1>9. ASSUME NEW t \in Threads, Recv(t) PROVE Goal
  <2>1. t = Main /\ ~stop /\ replies # <<>> /\ \A u \in Threads : Waits(u) => u = t
    BY <1>0, <1>9 DEF Recv, SyncInv, Waits
  <2>2. Head(replies).seqid = seq[t] /\ seq[t] # Nothing
    BY <1>0, <1>9, <2>1, TailParts DEF Recv, TypeInv, MessageInv, Owns
  <2>3. Received(call[t].method, Head(replies)) \in Abstract!Told(t)
    BY <1>0, <2>1, <2>2, ReplyIsTold
  <2> QED
    BY <1>7, <1>9, <2>3 DEF Recv, InCall
<1>10. ASSUME NEW t \in Threads, TakeReply(t) PROVE Goal
  <2>1. ~stop /\ replies # <<>> /\ Head(replies).seqid = seq[t] /\ seq[t] # Nothing
    BY <1>0, <1>10 DEF TakeReply, Rseqid, SyncInv, TypeInv
  <2>2. Received(call[t].method, Head(replies)) \in Abstract!Told(t)
    BY <1>0, <2>1, ReplyIsTold
  <2> QED
    BY <1>7, <1>10, <2>2 DEF TakeReply, LeaveRecv, InCall
<1>11. ASSUME NEW t \in Threads, HandOver(t) PROVE Goal
  <2>1. \E u \in Threads : seq[u] = Rseqid
    <3>1. CASE pending # Nothing
      BY <1>0, <1>11, <3>1 DEF HandOver, Rseqid, PendingInv
    <3>2. CASE pending = Nothing
      <4>1. ~stop /\ Rseqid = replies[1].seqid /\ 1 \in DOMAIN replies
        BY <1>0, <1>11, <3>2, TailParts DEF HandOver, Rseqid, TypeInv
      <4> QED
        BY <1>0, <4>1 DEF MessageInv, Owns
    <3> QED
      BY <3>1, <3>2
  <2>2. /\ pc[t] = "look" /\ pc' = [pc EXCEPT ![t] = "wait"]
        /\ UNCHANGED <<call, answer, serverVars>>
    BY <1>11, <2>1 DEF HandOver
  <2> QED
    BY <1>5, <2>2 DEF serverVars, InCall
<1> QED
  BY <1>2, <1>3, <1>4, <1>6, <1>8, <1>9, <1>10, <1>11 DEF Next, Serve, Proceed

\* With either client every call does what module Rpc promises, as far as
\* safety goes: it is carried out at most once and with the caller's own
\* arguments, also by a connection that has broken or is marked as bad, and
\* its answer is what came of this very call.
THEOREM CallsAsPromised ==
  Spec => Abstract!Init /\ [][Abstract!Next]_(Abstract!rvars)
<1>1. Init => Abstract!Init
  BY DEF Init, Abstract!Init, Asked, History, InCall
<1> QED
  BY <1>1, RpcStep, RpcInvHolds, PTL DEF Spec
===============================================================================
