------------------------------ MODULE BusProofs ------------------------------
(***************************************************************************)
(* Invariants of the bus for any peers, connections, scripts, store        *)
(* failures and crashes.                                                   *)
(***************************************************************************)
EXTENDS BusProperties, TLAPS

----------------------------------------------------------------------------
(* The operations of the components keep their types *)

\* A peer name is never Direct, and the two kinds of row keys are row keys.
LEMMA KeyTypes ==
  /\ Direct \notin Names
  /\ \A i \in Ids : <<i, Direct>> \in RowIds /\ \A n \in Names : <<i, n>> \in RowIds
BY NamesAssumption DEF Direct, RowIds

\* Registering a peer keeps the tables well typed.
LEMMA RegisterType ==
  ASSUME StoreTypeOK, NEW n \in Names, Register(n) PROVE StoreTypeOK'
BY DEF StoreTypeOK, Register

\* Enqueue inserts a well typed row.
LEMMA EnqueueType ==
  ASSUME StoreTypeOK, NEW k \in RowIds, NEW from \in Names, NEW to \in Names,
         Enqueue(k, from, to)
  PROVE  StoreTypeOK'
<1> DEFINE r == [sender |-> from, recipient |-> to, delivered |-> 0,
                 acked |-> 0, attempts |-> 0, seq |-> senderSeq[from]]
<1>1. r \in Rows
  BY DEF StoreTypeOK, Rows, Bit
<1>2. messages' = [q \in DOMAIN messages \cup {k} |-> IF q = k THEN r ELSE messages[q]]
  BY DEF Enqueue
<1>3. DOMAIN messages' = DOMAIN messages \cup {k}
  BY <1>2
<1>4. messages' \in [DOMAIN messages' -> Rows]
  BY <1>1, <1>2, <1>3 DEF StoreTypeOK
<1>5. senderSeq' \in [Names -> Nat] /\ peers' \subseteq Names
  BY DEF Enqueue, StoreTypeOK
<1> QED
  BY <1>3, <1>4, <1>5 DEF StoreTypeOK

\* The three updates change flags of rows and nothing else.
LEMMA UpdateType ==
  ASSUME StoreTypeOK, NEW k, NEW n,
         MarkDelivered(k) \/ MarkAcked(k) \/ RequeueUnacked(n)
  PROVE  /\ StoreTypeOK'
         /\ DOMAIN messages' = DOMAIN messages
         /\ UNCHANGED <<peers, senderSeq>>
         /\ \A q \in DOMAIN messages :
              /\ messages'[q].sender = messages[q].sender
              /\ messages'[q].recipient = messages[q].recipient
              /\ messages'[q].seq = messages[q].seq
<1>1. DOMAIN messages' = DOMAIN messages /\ UNCHANGED <<peers, senderSeq>>
  BY DEF MarkDelivered, MarkAcked, RequeueUnacked
<1>2. ASSUME NEW q \in DOMAIN messages
      PROVE  /\ messages'[q] \in Rows
             /\ messages'[q].sender = messages[q].sender
             /\ messages'[q].recipient = messages[q].recipient
             /\ messages'[q].seq = messages[q].seq
  <2>1. messages[q] \in [sender : Names, recipient : Names, delivered : Bit, acked : Bit,
                         attempts : Nat, seq : Nat]
    BY DEF StoreTypeOK, Rows
  <2>2. CASE MarkDelivered(k)
    <3> DEFINE d == [messages[q] EXCEPT !.delivered = 1]
    <3>1. d \in [sender : {messages[q].sender}, recipient : {messages[q].recipient},
                 delivered : Bit, acked : Bit, attempts : Nat, seq : {messages[q].seq}]
      BY <2>1 DEF Bit
    <3>2. d.attempts = messages[q].attempts
      BY <2>1
    <3> HIDE DEF d
    <3>3. [d EXCEPT !.attempts = messages[q].attempts + 1]
            \in [sender : {messages[q].sender}, recipient : {messages[q].recipient},
                 delivered : Bit, acked : Bit, attempts : Nat, seq : {messages[q].seq}]
      BY <2>1, <3>1
    <3>4. messages'[q] \in {messages[q], [d EXCEPT !.attempts = messages[q].attempts + 1]}
      BY <2>2 DEF MarkDelivered, d
    <3> QED
      BY <2>1, <3>3, <3>4 DEF Rows
  <2>3. CASE MarkAcked(k)
    BY <2>1, <2>3 DEF MarkAcked, Rows, Bit
  <2>4. CASE RequeueUnacked(n)
    BY <2>1, <2>4 DEF RequeueUnacked, Rows, Bit
  <2> QED
    BY <2>2, <2>3, <2>4
<1>3. messages' = [q \in DOMAIN messages |-> messages'[q]]
  BY DEF MarkDelivered, MarkAcked, RequeueUnacked
<1>4. messages' \in [DOMAIN messages' -> Rows]
  BY <1>1, <1>2, <1>3
<1> QED
  BY <1>1, <1>2, <1>4 DEF StoreTypeOK

----------------------------------------------------------------------------
(* How a step of the bus changes each component *)

\* The name and token a connection registers with.
LEMMA ClaimType == \A c \in Conns : Name(c) \in Names /\ Claim[c].token \in Tokens
BY BrokerAssumption DEF Name, RegisterFrames

\* A step changes the store by at most one of its operations, with well typed
\* arguments, and marks rows only from the places that do.
StoreStep ==
  \/ UNCHANGED storeVars
  \/ \E n \in Names : Register(n) \/ RequeueUnacked(n)
  \/ \E k \in RowIds, from \in Names, to \in Names : Enqueue(k, from, to)
  \/ \E c \in Conns : pc[c] \in {"flushMark", "mark"} /\ MarkDelivered(cur[c].key)
  \/ \E c \in Conns : pc[c] = "acking" /\ MarkAcked(cur[c].key)

\* Every action of the bus is such a step.
LEMMA StoreEvolves ==
  ASSUME TypeOK, [Next]_vars PROVE StoreStep
<1> USE ClaimType DEF StoreStep
<1>1. ASSUME NEW c \in Conns, Handshake(c) PROVE StoreStep
  BY <1>1 DEF Handshake, ReadRegister, RefuseRegister, Persist, BindName, RefuseName,
              CloseTakenOver, Requeue, AckHandshake, AckHandshakeFails
<1>2. ASSUME NEW c \in Conns, FlushPending(c) PROVE StoreStep
  BY <1>2 DEF FlushPending, QueryPending, Flush, FlushFails, FlushDone, FlushMark,
              FlushAudit, MarkWritten, AuditStep, AuditEvent
<1>3. ASSUME NEW c \in Conns, RouteFrame(c) PROVE StoreStep
  <2>1. CASE RouteEnqueue(c)
    <3>1. PICK j \in todo[c] : Enqueue(j.key, Name(c), j.to)
      BY <2>1 DEF RouteEnqueue
    <3>2. j.key \in RowIds /\ j.to \in Names
      BY DEF TypeOK, BrokerTypeOK, Jobs
    <3> QED
      BY <3>1, <3>2
  <2>2. CASE DeliverMark(c) \/ HandleAck(c)
    BY <2>2 DEF DeliverMark, MarkWritten, HandleAck
  <2>3. CASE ~RouteEnqueue(c) /\ ~DeliverMark(c) /\ ~HandleAck(c)
    BY <1>3, <2>3 DEF RouteFrame, ReadAck, AckAudit, ReadPeers, HandlePeers, ReadEnvelope,
                      ReadIgnored, RouteSkip, RouteDone, SendAudit, GetRecipient, DeliverTo,
                      DeliverAudit, AuditStep, AuditEvent
  <2> QED
    BY <2>1, <2>2, <2>3
<1>4. ASSUME NEW c \in Conns, Leave(c) PROVE StoreStep
  BY <1>4 DEF Leave, ReadError, CloseNormal, RemoveName
<1>5. ASSUME NEW c \in Conns, PeerStep(c) \/ Drop(c) PROVE StoreStep
  BY <1>5 DEF PeerStep, Drop, Dial, Connected, ConnectFails, Send, Recv, RecvPeers, Hangup
<1>6. CASE Crash \/ Rest \/ UNCHANGED vars
  BY <1>6 DEF Crash, Rest, vars, brokerVars
<1> QED
  BY <1>1, <1>2, <1>3, <1>4, <1>5, <1>6 DEF Next, BrokerStep, Serve

\* The tables stay well typed.
LEMMA StoreTyped ==
  ASSUME TypeOK, [Next]_vars PROVE StoreTypeOK'
<1>1. StoreTypeOK
  BY DEF TypeOK
<1>2. StoreStep
  BY StoreEvolves
<1>3. CASE UNCHANGED storeVars
  BY <1>1, <1>3 DEF StoreTypeOK, storeVars
<1>4. ASSUME NEW n \in Names, Register(n) \/ RequeueUnacked(n) PROVE StoreTypeOK'
  BY <1>1, <1>4, RegisterType, UpdateType
<1>5. ASSUME NEW k \in RowIds, NEW from \in Names, NEW to \in Names, Enqueue(k, from, to)
      PROVE  StoreTypeOK'
  BY <1>1, <1>5, EnqueueType
<1>6. ASSUME NEW k, MarkDelivered(k) \/ MarkAcked(k) PROVE StoreTypeOK'
  BY <1>1, <1>6, UpdateType
<1> QED
  BY <1>2, <1>3, <1>4, <1>5, <1>6 DEF StoreStep

\* A step changes the registry by at most a Bind of a connection in "bind" under
\* its own name and token, a Remove, or the crash that empties it.
RegistryStep ==
  \/ UNCHANGED registry
  \/ \E c \in Conns : pc[c] = "bind" /\ Bind(Name(c), Claim[c].token, c)
  \/ \E c \in Conns : Remove(Name(c), c)
  \/ registry' = [n \in Names |-> NoBinding]

\* Every action of the bus is such a step.
LEMMA RegistryEvolves ==
  ASSUME [Next]_vars PROVE RegistryStep
<1> USE DEF RegistryStep
<1>1. ASSUME NEW c \in Conns, Handshake(c) PROVE RegistryStep
  BY <1>1 DEF Handshake, ReadRegister, RefuseRegister, Persist, BindName, RefuseName,
              CloseTakenOver, Requeue, AckHandshake, AckHandshakeFails
<1>2. ASSUME NEW c \in Conns, FlushPending(c) PROVE RegistryStep
  BY <1>2 DEF FlushPending, QueryPending, Flush, FlushFails, FlushDone, FlushMark,
              FlushAudit, MarkWritten, AuditStep, AuditEvent
<1>3. ASSUME NEW c \in Conns, RouteFrame(c) PROVE RegistryStep
  BY <1>3 DEF RouteFrame, ReadAck, HandleAck, AckAudit, ReadPeers, HandlePeers, ReadEnvelope,
              ReadIgnored, RouteEnqueue, RouteSkip, RouteDone, SendAudit, GetRecipient,
              DeliverTo, DeliverMark, MarkWritten, DeliverAudit, AuditStep, AuditEvent
<1>4. ASSUME NEW c \in Conns, Leave(c) PROVE RegistryStep
  BY <1>4 DEF Leave, ReadError, CloseNormal, RemoveName
<1>5. ASSUME NEW c \in Conns, PeerStep(c) \/ Drop(c) PROVE RegistryStep
  BY <1>5 DEF PeerStep, Drop, Dial, Connected, ConnectFails, Send, Recv, RecvPeers, Hangup
<1>6. CASE Crash \/ Rest \/ UNCHANGED vars
  BY <1>6 DEF Crash, Rest, vars, brokerVars
<1> QED
  BY <1>1, <1>2, <1>3, <1>4, <1>5, <1>6 DEF Next, BrokerStep, Serve

\* The registry stays well typed.
LEMMA RegistryTyped ==
  ASSUME TypeOK, [Next]_vars PROVE RegistryTypeOK'
<1>1. RegistryStep
  BY RegistryEvolves
<1> QED
  BY <1>1, ClaimType DEF RegistryStep, TypeOK, RegistryTypeOK, Bindings, Bind, Remove

\* A goroutine touches the links by at most one write, close or read.
LinkStep ==
  \/ UNCHANGED linkVars
  \/ \E d \in Conns, f \in OutFrames : Write(d, f)
  \/ \E d \in Conns : Close(d) \/ Read(d)

\* Every step of a goroutine is such a step.
LEMMA LinkEvolves ==
  ASSUME TypeOK, NEW c \in Conns, Serve(c) PROVE LinkStep
<1> USE DEF LinkStep
<1>0. \A d \in Conns : dst[d] \in Conns /\ Deliver(cur[d].key) \in OutFrames
  BY DEF TypeOK, BrokerTypeOK, Jobs, OutFrames, Deliver
<1>1. PeersFrame \in OutFrames
  BY DEF OutFrames
<1>2. CASE Handshake(c)
  BY <1>0, <1>1, <1>2
     DEF Handshake, ReadRegister, RefuseRegister, Persist, BindName, RefuseName,
         CloseTakenOver, Requeue, AckHandshake, AckHandshakeFails, WriteFails
<1>3. CASE FlushPending(c)
  <2>1. CASE Flush(c)
    <3>1. PICK j \in todo[c] : Write(c, Deliver(j.key))
      BY <2>1 DEF Flush
    <3>2. Deliver(j.key) \in OutFrames
      BY DEF TypeOK, BrokerTypeOK, Jobs, OutFrames, Deliver
    <3> QED
      BY <3>1, <3>2
  <2>2. CASE ~Flush(c)
    BY <1>3, <2>2 DEF FlushPending, QueryPending, FlushFails, FlushDone, FlushMark, FlushAudit,
                      MarkWritten, AuditStep, AuditEvent, WriteFails
  <2> QED
    BY <2>1, <2>2
<1>4. CASE RouteFrame(c)
  BY <1>0, <1>1, <1>4
     DEF RouteFrame, ReadAck, HandleAck, AckAudit, ReadPeers, HandlePeers, ReadEnvelope,
         ReadIgnored, RouteEnqueue, RouteSkip, RouteDone, SendAudit, GetRecipient,
         DeliverTo, DeliverMark, MarkWritten, DeliverAudit, AuditStep, AuditEvent, WriteFails
<1>5. CASE Leave(c)
  BY <1>5 DEF Leave, ReadError, CloseNormal, RemoveName
<1> QED
  BY <1>2, <1>3, <1>4, <1>5 DEF Serve

\* Both ends of the links stay well typed.
LEMMA LinkTyped ==
  ASSUME TypeOK, [Next]_vars PROVE LinkTypeOK'
<1>1. LinkTypeOK
  BY DEF TypeOK
<1>2. ASSUME LinkStep PROVE LinkTypeOK'
  <2>1. CASE UNCHANGED linkVars
    BY <1>1, <2>1 DEF LinkTypeOK, linkVars
  <2>2. ASSUME NEW d \in Conns, NEW f \in OutFrames, Write(d, f) PROVE LinkTypeOK'
    <3>1. out[d] \in Seq(OutFrames)
      BY <1>1 DEF LinkTypeOK
    <3>2. Append(out[d], f) \in Seq(OutFrames) /\ Len(Append(out[d], f)) = Len(out[d]) + 1
      BY <3>1
    <3>3. out' = [out EXCEPT ![d] = Append(out[d], f)] /\ UNCHANGED <<ws, cl, in, seen>>
      BY <2>2 DEF Write
    <3>4. Len(out[d]) \in Nat /\ seen[d] \in Nat /\ seen[d] <= Len(out[d])
      BY <1>1, <3>1 DEF LinkTypeOK
    <3>5. out' \in [Conns -> Seq(OutFrames)]
      BY <1>1, <3>2, <3>3 DEF LinkTypeOK
    <3>6. \A c \in Conns : seen'[c] <= Len(out'[c])
      BY <1>1, <3>2, <3>3, <3>4 DEF LinkTypeOK
    <3> QED
      BY <1>1, <3>3, <3>5, <3>6 DEF LinkTypeOK
  <2>3. ASSUME NEW d \in Conns, Close(d) PROVE LinkTypeOK'
    BY <1>1, <2>3 DEF LinkTypeOK, Close
  <2>4. ASSUME NEW d \in Conns, Read(d) PROVE LinkTypeOK'
    <3>1. in[d] \in Seq(InFrames) /\ in[d] # <<>>
      BY <1>1, <2>4 DEF LinkTypeOK, Read
    <3>2. Tail(in[d]) \in Seq(InFrames)
      BY <3>1
    <3> QED
      BY <1>1, <2>4, <3>2 DEF LinkTypeOK, Read
  <2> QED
    BY <1>2, <2>1, <2>2, <2>3, <2>4 DEF LinkStep
<1>3. ASSUME NEW c \in Conns, PeerStep(c) \/ Drop(c) PROVE LinkTypeOK'
  <2>1. CASE Dial(c)
    <3>1. Claim[c] \in InFrames
      BY BrokerAssumption DEF InFrames
    <3>2. <<Claim[c]>> \in Seq(InFrames)
      BY <3>1
    <3> QED
      BY <1>1, <2>1, <3>2 DEF LinkTypeOK, Dial
  <2>2. CASE Connected(c) \/ RecvPeers(c)
    <3>1. seen[c] \in Nat /\ Len(out[c]) \in Nat /\ seen[c] + 1 <= Len(out[c])
      BY <1>1, <2>2 DEF LinkTypeOK, Connected, RecvPeers, Unread
    <3>2. seen' = [seen EXCEPT ![c] = seen[c] + 1] /\ UNCHANGED <<ws, in, out>>
      BY <2>2 DEF Connected, RecvPeers, Advance
    <3>3. cl' \in [Conns -> {"none", "connecting", "up", "closed"}]
      BY <1>1, <2>2 DEF LinkTypeOK, Connected, RecvPeers
    <3>4. \A d \in Conns : seen'[d] <= Len(out'[d])
      BY <1>1, <3>1, <3>2 DEF LinkTypeOK
    <3>5. seen' \in [Conns -> Nat]
      BY <1>1, <3>1, <3>2 DEF LinkTypeOK
    <3> QED
      BY <1>1, <3>2, <3>3, <3>4, <3>5 DEF LinkTypeOK
  <2>3. CASE ConnectFails(c) \/ Hangup(c) \/ Drop(c)
    BY <1>1, <2>3 DEF LinkTypeOK, ConnectFails, Hangup, Drop
  <2>4. CASE Send(c)
    <3>1. Script[c] \in Seq(Requests) /\ sent[c] \in Nat /\ sent[c] < Len(Script[c])
      BY <2>4, BusAssumption DEF TypeOK, Send
    <3>2. Script[c][sent[c] + 1] \in Requests
      BY <3>1
    <3>3. Script[c][sent[c] + 1] \in InFrames
      BY <3>2 DEF InFrames
    <3>4. Append(in[c], Script[c][sent[c] + 1]) \in Seq(InFrames)
      BY <1>1, <3>3 DEF LinkTypeOK
    <3> QED
      BY <1>1, <2>4, <3>4 DEF LinkTypeOK, Send
  <2>5. CASE Recv(c)
    <3>1. NextFrame(c) \in OutFrames /\ NextFrame(c).type = "deliver"
      BY <1>1, <2>5 DEF LinkTypeOK, Recv, Unread, NextFrame
    <3>2. Ack(NextFrame(c).key) \in InFrames
      BY <3>1 DEF OutFrames, PeersFrame, Ack, Acks, Requests, InFrames
    <3>3. in[c] \in Seq(InFrames) /\ Append(in[c], Ack(NextFrame(c).key)) \in Seq(InFrames)
      BY <1>1, <3>2 DEF LinkTypeOK
    <3> QED
      BY <1>1, <2>5, <3>3 DEF LinkTypeOK, Recv, Unread, Advance
  <2> QED
    BY <1>3, <2>1, <2>2, <2>3, <2>4, <2>5 DEF PeerStep
<1>4. CASE Crash
  BY <1>1, <1>4 DEF LinkTypeOK, Crash
<1>5. CASE Rest \/ UNCHANGED vars
  BY <1>1, <1>5 DEF LinkTypeOK, Rest, vars, brokerVars, linkVars
<1> QED
  BY <1>2, <1>3, <1>4, <1>5, LinkEvolves DEF Next, BrokerStep

\* A frame read is a frame of the right kind: an ack names a row, an envelope an
\* id and a destination.
LEMMA HeadType ==
  ASSUME TypeOK, NEW c \in Conns, Read(c)
  PROVE  /\ Head(in[c]).type = "ack" => Head(in[c]).key \in RowIds
         /\ Head(in[c]).type = "env" =>
              Head(in[c]).id \in Ids /\ Head(in[c]).to \in Names \cup {Star}
<1>1. in[c] \in Seq(InFrames) /\ in[c] # <<>>
  BY DEF TypeOK, LinkTypeOK, Read
<1>2. Head(in[c]) \in InFrames
  BY <1>1
<1> QED
  BY <1>2 DEF InFrames, RegisterFrames, Requests, Envelopes, Acks, PeersFrame, OtherFrame

\* The jobs of an envelope are jobs, for names the registry lists or for the one
\* name it is addressed to.
LEMMA JobsOfType ==
  ASSUME NEW from \in Names, NEW e, e.id \in Ids, e.to \in Names \cup {Star}
  PROVE  /\ JobsOf(from, e) \subseteq Jobs
         /\ \A j \in JobsOf(from, e) : j.key[2] # Direct => Bound(j.to)
<1>1. CASE e.to = Star
  <2>1. \A n \in List : /\ [key |-> <<e.id, n>>, to |-> n] \in Jobs
                        /\ Bound(n)
    BY KeyTypes DEF Jobs, List
  <2> QED
    BY <1>1, <2>1 DEF JobsOf
<1>2. CASE e.to # Star
  BY <1>2, KeyTypes DEF JobsOf, Jobs
<1> QED
  BY <1>1, <1>2

\* The goroutines' own variables stay well typed.
LEMMA BrokerTyped ==
  ASSUME TypeOK, [Next]_vars PROVE BrokerTypeOK'
<1> USE DEF Goto, Places, Handshaking, Flushing, Serving, Routing, Leaving
<1>0. BrokerTypeOK /\ MaxFaults \in Nat
  BY BrokerAssumption DEF TypeOK
<1>1. ASSUME NEW c \in Conns, Handshake(c) PROVE BrokerTypeOK'
  <2>1. CASE BindName(c)
    <3>1. Bound(Name(c)) => registry[Name(c)].conn \in Conns
      BY ClaimType DEF TypeOK, RegistryTypeOK, Bindings, Bound
    <3> QED
      BY <1>0, <2>1, <3>1 DEF BrokerTypeOK, BindName
  <2>2. CASE ~BindName(c)
    BY <1>0, <1>1, <2>2
       DEF BrokerTypeOK, Handshake, ReadRegister, RefuseRegister, Persist, RefuseName,
           CloseTakenOver, Requeue, AckHandshake, AckHandshakeFails, Fault
  <2> QED
    BY <2>1, <2>2
<1>2. ASSUME NEW c \in Conns, FlushPending(c) PROVE BrokerTypeOK'
  <2>1. CASE QueryPending(c)
    <3>1. {[key |-> k, to |-> Name(c)] : k \in PendingFor(Name(c))} \subseteq Jobs
      BY ClaimType DEF Jobs, PendingFor, TypeOK, StoreTypeOK
    <3> QED
      BY <1>0, <2>1, <3>1 DEF BrokerTypeOK, QueryPending, Fault
  <2>2. CASE Flush(c) \/ FlushFails(c) \/ FlushDone(c)
    BY <1>0, <2>2 DEF BrokerTypeOK, Flush, FlushFails, FlushDone
  <2>3. CASE FlushMark(c)
    BY <1>0, <2>3 DEF BrokerTypeOK, FlushMark, MarkWritten, Fault
  <2>4. CASE FlushAudit(c)
    BY <1>0, <2>4 DEF BrokerTypeOK, FlushAudit, AuditStep, AuditEvent, AuditEvents, Jobs, Fault
  <2> QED
    BY <1>2, <2>1, <2>2, <2>3, <2>4 DEF FlushPending
<1>3. ASSUME NEW c \in Conns, RouteFrame(c) PROVE BrokerTypeOK'
  <2>1. CASE ReadAck(c)
    <3>1. [key |-> Head(in[c]).key, to |-> Name(c)] \in Jobs
      BY <2>1, ClaimType, HeadType DEF Jobs, ReadAck
    <3> QED
      BY <1>0, <2>1, <3>1 DEF BrokerTypeOK, ReadAck
  <2>2. CASE ReadEnvelope(c)
    <3>1. JobsOf(Name(c), Head(in[c])) \subseteq Jobs
      BY <2>2, ClaimType, HeadType, JobsOfType DEF ReadEnvelope
    <3> QED
      BY <1>0, <2>2, <3>1 DEF BrokerTypeOK, ReadEnvelope
  <2>3. CASE GetRecipient(c)
    <3>1. Bound(cur[c].to) => registry[cur[c].to].conn \in Conns
      BY <1>0 DEF TypeOK, RegistryTypeOK, BrokerTypeOK, Jobs, Bindings, Bound
    <3> QED
      BY <1>0, <2>3, <3>1 DEF BrokerTypeOK, GetRecipient
  <2>4. CASE HandleAck(c) \/ ReadPeers(c) \/ HandlePeers(c) \/ ReadIgnored(c)
    BY <1>0, <2>4 DEF BrokerTypeOK, HandleAck, ReadPeers, HandlePeers, ReadIgnored, Fault, procVars
  <2>5. CASE RouteEnqueue(c) \/ RouteSkip(c) \/ RouteDone(c) \/ DeliverTo(c)
    BY <1>0, <2>5 DEF BrokerTypeOK, RouteEnqueue, RouteSkip, RouteDone, DeliverTo, Fault
  <2>6. CASE DeliverMark(c)
    BY <1>0, <2>6 DEF BrokerTypeOK, DeliverMark, MarkWritten, Fault
  <2>7. CASE AckAudit(c) \/ SendAudit(c) \/ DeliverAudit(c)
    <3>1. cur[c].key \in RowIds
      BY <1>0 DEF BrokerTypeOK, Jobs
    <3>2. audit' \subseteq AuditEvents
      BY <1>0, <2>7, <3>1 DEF BrokerTypeOK, AckAudit, SendAudit, DeliverAudit, AuditStep,
                              AuditEvent, AuditEvents
    <3> QED
      BY <1>0, <2>7, <3>2 DEF BrokerTypeOK, AckAudit, SendAudit, DeliverAudit, AuditStep,
                              AuditEvent, Fault
  <2> QED
    BY <1>3, <2>1, <2>2, <2>3, <2>4, <2>5, <2>6, <2>7 DEF RouteFrame
<1>4. ASSUME NEW c \in Conns, Leave(c) PROVE BrokerTypeOK'
  BY <1>0, <1>4 DEF BrokerTypeOK, Leave, ReadError, CloseNormal, RemoveName
<1>5. ASSUME NEW c \in Conns, PeerStep(c) \/ Drop(c) PROVE BrokerTypeOK'
  BY <1>0, <1>5 DEF BrokerTypeOK, PeerStep, Drop, Dial, Connected, ConnectFails, Send, Recv,
                    RecvPeers, Hangup, procVars
<1>6. CASE Crash \/ Rest \/ UNCHANGED vars
  BY <1>0, <1>6 DEF BrokerTypeOK, Crash, Rest, vars, brokerVars, procVars
<1> QED
  BY <1>1, <1>2, <1>3, <1>4, <1>5, <1>6 DEF Next, BrokerStep, Serve

----------------------------------------------------------------------------
(* Type correctness *)

\* Every variable of the bus keeps its type: delivered and acked stay flags,
\* counters stay within their bounds, and a peer never reads past what was written.
THEOREM TypeCorrect == Spec => []TypeOK
<1>1. Init => TypeOK
  <2> SUFFICES ASSUME Init PROVE TypeOK
    OBVIOUS
  <2>1. StoreTypeOK /\ RegistryTypeOK
    BY DEF Init, StoreInit, StoreTypeOK, RegistryInit, RegistryTypeOK
  <2>2. LinkTypeOK
    BY DEF Init, LinkInit, LinkTypeOK
  <2>3. \E j : j \in Jobs
    <3>1. PICK i \in Ids, n \in Names : TRUE
      BY BrokerAssumption
    <3>2. [key |-> <<i, n>>, to |-> n] \in Jobs
      BY KeyTypes DEF Jobs
    <3> QED
      BY <3>2
  <2>4. BrokerTypeOK
    BY <2>3, BrokerAssumption DEF Init, BrokerInit, BrokerTypeOK, Places
  <2> QED
    BY <2>1, <2>2, <2>4, BusAssumption DEF Init, TypeOK
<1>2. TypeOK /\ [Next]_vars => TypeOK'
  <2> SUFFICES ASSUME TypeOK, [Next]_vars PROVE TypeOK'
    OBVIOUS
  <2>1. sent' \in [Conns -> Nat] /\ crashes' \in 0..MaxCrashes
    BY BusAssumption
       DEF TypeOK, Next, BrokerStep, PeerStep, Dial, Connected, ConnectFails, Send, Recv,
           RecvPeers, Hangup, Drop, Crash, Rest, vars
  <2> QED
    BY <2>1, StoreTyped, RegistryTyped, LinkTyped, BrokerTyped DEF TypeOK
<1> QED
  BY <1>1, <1>2, PTL DEF Spec

----------------------------------------------------------------------------
(* Sender sequence numbers *)

\* SenderOrder is inductive as it stands: the counter a row takes its number from
\* is raised in the same transaction.
THEOREM SeqsAreUnique == Spec => []SenderOrder
<1>1. Init => SenderOrder
  BY DEF Init, StoreInit, SenderOrder
<1>2. TypeOK /\ SenderOrder /\ [Next]_vars => SenderOrder'
  <2> SUFFICES ASSUME TypeOK, SenderOrder, [Next]_vars PROVE SenderOrder'
    OBVIOUS
  <2>0. StoreTypeOK
    BY DEF TypeOK
  <2>1. ASSUME DOMAIN messages' = DOMAIN messages, UNCHANGED senderSeq,
               \A q \in DOMAIN messages : /\ messages'[q].sender = messages[q].sender
                                          /\ messages'[q].seq = messages[q].seq
        PROVE  SenderOrder'
    BY <2>1 DEF SenderOrder
  <2>2. CASE UNCHANGED storeVars
    BY <2>1, <2>2 DEF storeVars
  <2>3. ASSUME NEW n \in Names, Register(n) PROVE SenderOrder'
    BY <2>1, <2>3 DEF Register
  <2>4. ASSUME NEW n \in Names, RequeueUnacked(n) PROVE SenderOrder'
    BY <2>0, <2>1, <2>4, UpdateType
  <2>5. ASSUME NEW k, MarkDelivered(k) \/ MarkAcked(k) PROVE SenderOrder'
    BY <2>0, <2>1, <2>5, UpdateType
  <2>6. ASSUME NEW k \in RowIds, NEW from \in Names, NEW to \in Names, Enqueue(k, from, to)
        PROVE  SenderOrder'
    <3>1. k \notin DOMAIN messages /\ DOMAIN messages' = DOMAIN messages \cup {k}
      BY <2>6 DEF Enqueue, ErrUnknownPeer, ErrDuplicateID, Stored
    <3>2. messages'[k].sender = from /\ messages'[k].seq = senderSeq[from]
      BY <2>6 DEF Enqueue
    <3>3. \A q \in DOMAIN messages : messages'[q] = messages[q]
      BY <2>6, <3>1 DEF Enqueue
    <3>4. senderSeq' = [senderSeq EXCEPT ![from] = senderSeq[from] + 1]
      BY <2>6 DEF Enqueue
    <3>5. \A q \in DOMAIN messages :
            /\ messages[q].sender \in Names /\ messages[q].seq \in Nat
            /\ messages[q].seq < senderSeq[messages[q].sender]
      BY <2>0 DEF StoreTypeOK, Rows, SenderOrder
    <3>6. \A n \in Names : /\ senderSeq[n] \in Nat /\ senderSeq'[n] \in Nat
                           /\ senderSeq[n] <= senderSeq'[n]
      BY <2>0, <3>4 DEF StoreTypeOK
    <3>7. \A q \in DOMAIN messages' : messages'[q].seq < senderSeq'[messages'[q].sender]
      <4>1. senderSeq[from] < senderSeq'[from]
        BY <2>0, <3>4 DEF StoreTypeOK
      <4>2. ASSUME NEW q \in DOMAIN messages PROVE messages'[q].seq < senderSeq'[messages'[q].sender]
        BY <3>3, <3>5, <3>6
      <4> QED
        BY <3>1, <3>2, <4>1, <4>2
    <3>8. \A q \in DOMAIN messages :
            messages'[q].sender = from => messages'[q].seq # senderSeq[from]
      BY <3>3, <3>5, <3>6
    <3> QED
      BY <3>1, <3>2, <3>3, <3>7, <3>8 DEF SenderOrder
  <2> QED
    BY <2>2, <2>3, <2>4, <2>5, <2>6, StoreEvolves DEF StoreStep
<1> QED
  BY <1>1, <1>2, TypeCorrect, PTL DEF Spec

----------------------------------------------------------------------------
(* The registry *)

\* Rows of table peers are never deleted.
LEMMA PeersGrow ==
  ASSUME TypeOK, [Next]_vars PROVE peers \subseteq peers'
<1>1. StoreStep
  BY StoreEvolves
<1> QED
  BY <1>1 DEF StoreStep, storeVars, Register, RequeueUnacked, Enqueue, MarkDelivered, MarkAcked

\* FanOutKnown with what makes it inductive: a goroutine reaches Bind only with
\* its name persisted.
KnownInv ==
  /\ FanOutKnown
  /\ \A c \in Conns : pc[c] = "bind" => Name(c) \in peers

\* A step of the goroutine of c keeps KnownInv.
LEMMA KnownInvServe ==
  ASSUME TypeOK, TypeOK', KnownInv, [Next]_vars, NEW c \in Conns, Serve(c) PROVE KnownInv'
<1> USE ClaimType DEF KnownInv, FanOutKnown, Goto, Routing
<1>0. BrokerTypeOK /\ peers \subseteq peers'
  BY PeersGrow DEF TypeOK
<1>1. \A n \in Names : Bound(n)' => n \in peers'
  <2>1. RegistryStep
    BY RegistryEvolves
  <2> QED
    BY <1>0, <2>1 DEF RegistryStep, Bind, Remove, Bound, TypeOK, RegistryTypeOK
<1>2. ASSUME NEW d \in Conns, pc'[d] = "bind" PROVE Name(d) \in peers'
  <2>1. CASE Persist(c)
    BY <1>0, <1>2, <2>1 DEF BrokerTypeOK, Persist, Register
  <2>2. CASE ~Persist(c)
    <3>1. CASE Handshake(c)
      BY <1>0, <1>2, <2>2, <3>1
         DEF BrokerTypeOK, Handshake, ReadRegister, RefuseRegister, BindName, RefuseName,
             CloseTakenOver, Requeue, AckHandshake, AckHandshakeFails
    <3>2. CASE FlushPending(c)
      BY <1>0, <1>2, <3>2
         DEF BrokerTypeOK, FlushPending, QueryPending, Flush, FlushFails, FlushDone,
             FlushMark, FlushAudit, MarkWritten, AuditStep
    <3>3. CASE RouteFrame(c)
      BY <1>0, <1>2, <3>3
         DEF BrokerTypeOK, RouteFrame, ReadAck, HandleAck, AckAudit, ReadPeers, HandlePeers,
             ReadEnvelope, ReadIgnored, procVars, RouteEnqueue, RouteSkip, RouteDone,
             SendAudit, GetRecipient, DeliverTo, DeliverMark, DeliverAudit, MarkWritten,
             AuditStep
    <3>4. CASE Leave(c)
      BY <1>0, <1>2, <3>4 DEF BrokerTypeOK, Leave, ReadError, CloseNormal, RemoveName
    <3> QED
      BY <3>1, <3>2, <3>3, <3>4 DEF Serve
  <2> QED
    BY <2>1, <2>2
<1>3. ASSUME NEW d \in Conns, pc'[d] \in Routing, NEW j \in todo'[d], j.key[2] # Direct
      PROVE  j.to \in peers'
  <2>1. CASE ReadEnvelope(c) /\ d = c
    <3>1. j \in JobsOf(Name(c), Head(in[c]))
      BY <1>0, <1>3, <2>1 DEF ReadEnvelope, BrokerTypeOK
    <3>2. Bound(j.to) /\ j \in Jobs
      BY <1>3, <2>1, <3>1, HeadType, JobsOfType DEF ReadEnvelope
    <3> QED
      BY <1>0, <3>2 DEF Jobs
  <2>2. CASE ~(ReadEnvelope(c) /\ d = c)
    <3>1. pc[d] \in Routing /\ todo'[d] \subseteq todo[d]
      <4>1. CASE Handshake(c)
        BY <1>0, <1>3, <4>1
           DEF BrokerTypeOK, Handshake, ReadRegister, RefuseRegister, Persist, BindName,
               RefuseName, CloseTakenOver, Requeue, AckHandshake, AckHandshakeFails
      <4>2. CASE FlushPending(c)
        BY <1>0, <1>3, <4>2
           DEF BrokerTypeOK, FlushPending, QueryPending, Flush, FlushFails, FlushDone,
               FlushMark, FlushAudit, MarkWritten, AuditStep
      <4>3. CASE RouteFrame(c)
        BY <1>0, <1>3, <2>2, <4>3
           DEF BrokerTypeOK, RouteFrame, ReadAck, HandleAck, AckAudit, ReadPeers, HandlePeers,
               ReadEnvelope, ReadIgnored, procVars, RouteEnqueue, RouteSkip, RouteDone,
               SendAudit, GetRecipient, DeliverTo, DeliverMark, DeliverAudit, MarkWritten,
               AuditStep
      <4>4. CASE Leave(c)
        BY <1>0, <1>3, <4>4 DEF BrokerTypeOK, Leave, ReadError, CloseNormal, RemoveName
      <4> QED
        BY <4>1, <4>2, <4>3, <4>4 DEF Serve
    <3> QED
      BY <1>0, <1>3, <3>1
  <2> QED
    BY <2>1, <2>2
<1> QED
  BY <1>1, <1>2, <1>3

\* Whatever a broadcast can be fanned out to has a peer row.
THEOREM FanOutIsKnown == Spec => []FanOutKnown
<1>1. Init => KnownInv
  BY ClaimType DEF Init, BrokerInit, RegistryInit, KnownInv, FanOutKnown, Bound, Routing
<1>2. TypeOK /\ TypeOK' /\ KnownInv /\ [Next]_vars => KnownInv'
  <2> SUFFICES ASSUME TypeOK, TypeOK', KnownInv, [Next]_vars PROVE KnownInv'
    OBVIOUS
  <2> USE DEF KnownInv, FanOutKnown, Routing
  <2>1. ASSUME NEW c \in Conns, Serve(c) PROVE KnownInv'
    BY <2>1, KnownInvServe
  <2>2. CASE UNCHANGED <<peers, registry, pc, todo>>
    BY <2>2 DEF Bound
  <2>3. ASSUME NEW c \in Conns, Dial(c) PROVE KnownInv'
    BY <2>3 DEF Dial, storeVars, Goto, Bound, TypeOK, BrokerTypeOK
  <2>4. CASE Crash
    BY <2>4 DEF Crash, storeVars, Bound
  <2>5. ASSUME NEW c \in Conns, (PeerStep(c) /\ ~Dial(c)) \/ Drop(c)
        PROVE  UNCHANGED <<peers, registry, pc, todo>>
    BY <2>5 DEF PeerStep, Connected, ConnectFails, Send, Recv, RecvPeers, Hangup, Drop,
                storeVars, procVars
  <2>6. CASE Rest \/ UNCHANGED vars
    BY <2>2, <2>6 DEF Rest, vars, brokerVars, storeVars, procVars
  <2> QED
    BY <2>1, <2>2, <2>3, <2>4, <2>5, <2>6 DEF Next, BrokerStep
<1>3. KnownInv => FanOutKnown
  BY DEF KnownInv
<1> QED
  BY <1>1, <1>2, <1>3, TypeCorrect, PTL DEF Spec

----------------------------------------------------------------------------
(* Nothing is marked delivered that was not written *)

\* Row k is stored and addressed to n.
StoredFor(k, n) == Stored(k) /\ messages[k].recipient = n

\* Rows are never deleted or readdressed.
LEMMA RowsStay ==
  ASSUME TypeOK, [Next]_vars, NEW k, NEW n, StoredFor(k, n) PROVE StoredFor(k, n)'
<1>1. StoreTypeOK /\ StoreStep
  BY StoreEvolves DEF TypeOK
<1>2. ASSUME NEW m \in Names, RequeueUnacked(m) PROVE StoredFor(k, n)'
  BY <1>1, <1>2, UpdateType DEF StoredFor, Stored
<1>3. ASSUME NEW q, MarkDelivered(q) \/ MarkAcked(q) PROVE StoredFor(k, n)'
  BY <1>1, <1>3, UpdateType DEF StoredFor, Stored
<1>4. ASSUME NEW q \in RowIds, NEW from \in Names, NEW to \in Names, Enqueue(q, from, to)
      PROVE  StoredFor(k, n)'
  BY <1>4 DEF Enqueue, ErrUnknownPeer, ErrDuplicateID, StoredFor, Stored
<1>5. ASSUME NEW m \in Names, Register(m) PROVE StoredFor(k, n)'
  BY <1>5 DEF Register, StoredFor, Stored
<1>6. CASE UNCHANGED storeVars
  BY <1>6 DEF storeVars, StoredFor, Stored
<1> QED
  BY <1>1, <1>2, <1>3, <1>4, <1>5, <1>6 DEF StoreStep

\* What was written stays written.
LEMMA WrittenStays ==
  ASSUME TypeOK, [Next]_vars, NEW k, NEW d \in Conns, WrittenTo(k, d) PROVE WrittenTo(k, d)'
<1>1. out' = out \/ \E e \in Conns, f \in OutFrames : Write(e, f)
  <2>1. ASSUME NEW c \in Conns, Serve(c)
        PROVE  out' = out \/ \E e \in Conns, f \in OutFrames : Write(e, f)
    BY <2>1, LinkEvolves DEF LinkStep, linkVars, Close, Read
  <2>2. ASSUME NEW c \in Conns, PeerStep(c) \/ Drop(c) PROVE out' = out
    BY <2>2 DEF PeerStep, Dial, Connected, ConnectFails, Send, Recv, RecvPeers, Hangup, Drop
  <2>3. CASE Crash \/ Rest \/ UNCHANGED vars
    BY <2>3 DEF Crash, Rest, vars, brokerVars, linkVars
  <2> QED
    BY <2>1, <2>2, <2>3 DEF Next, BrokerStep
<1>2. CASE out' = out
  BY <1>2 DEF WrittenTo
<1>3. ASSUME NEW e \in Conns, NEW f \in OutFrames, Write(e, f) PROVE WrittenTo(k, d)'
  <2>1. PICK i \in 1..Len(out[d]) : out[d][i] = Deliver(k)
    BY DEF WrittenTo
  <2>2. out[d] \in Seq(OutFrames) /\ out[e] \in Seq(OutFrames)
    BY DEF TypeOK, LinkTypeOK
  <2>3. out'[d] = out[d] \/ out'[d] = Append(out[d], f)
    BY <1>3 DEF Write, TypeOK, LinkTypeOK
  <2>4. i \in 1..Len(out'[d]) /\ out'[d][i] = out[d][i]
    BY <2>2, <2>3
  <2> QED
    BY <2>1, <2>4 DEF WrittenTo, Deliver
<1> QED
  BY <1>1, <1>2, <1>3

\* A write that goes through is a write to that connection.
LEMMA WriteWrites ==
  ASSUME TypeOK, NEW d \in Conns, NEW k, Write(d, Deliver(k)) PROVE WrittenTo(k, d)'
<1>1. out[d] \in Seq(OutFrames) /\ out'[d] = Append(out[d], Deliver(k))
  BY DEF TypeOK, LinkTypeOK, Write
<1>2. Len(out'[d]) = Len(out[d]) + 1 /\ out'[d][Len(out[d]) + 1] = Deliver(k)
  BY <1>1
<1>3. Len(out[d]) + 1 \in 1..Len(out'[d])
  BY <1>1, <1>2
<1> QED
  BY <1>2, <1>3 DEF WrittenTo, Deliver

\* What a goroutine knows of the rows it holds: its flush snapshot and its job in
\* hand are rows of the peer they are meant for, the connection it looked up is
\* that peer's, and when it comes to mark a row it has written it.
InHand(c) ==
  /\ pc[c] \in Flushing => \A j \in todo[c] : StoredFor(j.key, Name(c))
  /\ pc[c] = "flushMark" => StoredFor(cur[c].key, Name(c)) /\ WrittenTo(cur[c].key, c)
  /\ pc[c] \in {"sendAudit", "get", "write", "mark"} => StoredFor(cur[c].key, cur[c].to)
  /\ pc[c] \in {"write", "mark"} => Name(dst[c]) = cur[c].to
  /\ pc[c] = "mark" => WrittenTo(cur[c].key, dst[c])

\* The registry gives a name only connections that registered under it.
RightfulOwner == \A n \in Names : Bound(n) => Name(registry[n].conn) = n

WrittenInv == DeliveredWasWritten /\ RightfulOwner /\ \A c \in Conns : InHand(c)

\* A goroutine moves no other goroutine.
LEMMA OwnStep ==
  ASSUME TypeOK, NEW c \in Conns, Serve(c), NEW d \in Conns, d # c
  PROVE  pc'[d] = pc[d] /\ todo'[d] = todo[d] /\ cur'[d] = cur[d] /\ dst'[d] = dst[d]
<1> USE DEF Goto
<1>0. BrokerTypeOK
  BY DEF TypeOK
<1>1. CASE Handshake(c)
  BY <1>0, <1>1
     DEF BrokerTypeOK, Handshake, ReadRegister, RefuseRegister, Persist, BindName,
         RefuseName, CloseTakenOver, Requeue, AckHandshake, AckHandshakeFails
<1>2. CASE FlushPending(c)
  BY <1>0, <1>2
     DEF BrokerTypeOK, FlushPending, QueryPending, Flush, FlushFails, FlushDone,
         FlushMark, FlushAudit, MarkWritten, AuditStep
<1>3. CASE RouteFrame(c)
  BY <1>0, <1>3
     DEF BrokerTypeOK, RouteFrame, ReadAck, HandleAck, AckAudit, ReadPeers, HandlePeers,
         ReadEnvelope, ReadIgnored, procVars, RouteEnqueue, RouteSkip, RouteDone,
         SendAudit, GetRecipient, DeliverTo, DeliverMark, DeliverAudit, MarkWritten,
         AuditStep
<1>4. CASE Leave(c)
  BY <1>0, <1>4 DEF BrokerTypeOK, Leave, ReadError, CloseNormal, RemoveName
<1> QED
  BY <1>1, <1>2, <1>3, <1>4 DEF Serve

\* A goroutine whose own variables do not change keeps what it knows.
LEMMA InHandStays ==
  ASSUME TypeOK, [Next]_vars, NEW c \in Conns, InHand(c),
         pc'[c] = pc[c], todo'[c] = todo[c], cur'[c] = cur[c], dst'[c] = dst[c]
  PROVE  InHand(c)'
<1>1. \A k, n : StoredFor(k, n) => StoredFor(k, n)'
  BY RowsStay
<1>2. \A k : \A d \in Conns : WrittenTo(k, d) => WrittenTo(k, d)'
  BY WrittenStays
<1>3. dst[c] \in Conns
  BY DEF TypeOK, BrokerTypeOK
<1> QED
  BY <1>1, <1>2, <1>3 DEF InHand, Name

\* A goroutine that takes a step knows as much of what it holds afterwards.
LEMMA InHandServe ==
  ASSUME TypeOK, TypeOK', [Next]_vars, NEW c \in Conns, Serve(c), InHand(c), RightfulOwner
  PROVE  InHand(c)'
<1> USE DEF Goto, Flushing
<1>0. BrokerTypeOK
  BY DEF TypeOK
<1>1. \A k, n : StoredFor(k, n) => StoredFor(k, n)'
  BY RowsStay
<1>2. \A k : \A d \in Conns : WrittenTo(k, d) => WrittenTo(k, d)'
  BY WrittenStays
<1>3. \A d \in Conns : Name(d)' = Name(d)
  BY DEF Name
<1>4. CASE QueryPending(c)
  <2>1. \A k \in PendingFor(Name(c)) : StoredFor(k, Name(c))
    BY DEF PendingFor, StoredFor, Stored
  <2>2. pc'[c] \in {"flush", "serve"}
    BY <1>0, <1>4 DEF QueryPending, BrokerTypeOK
  <2>3. pc'[c] = "flush" => \A j \in todo'[c] : StoredFor(j.key, Name(c))'
    BY <1>0, <1>1, <1>4, <2>1 DEF QueryPending, BrokerTypeOK
  <2> QED
    BY <1>3, <2>2, <2>3 DEF InHand
<1>5. CASE Flush(c)
  <2>1. PICK j \in todo[c] : /\ Write(c, Deliver(j.key))
                             /\ cur' = [cur EXCEPT ![c] = j]
                             /\ todo' = [todo EXCEPT ![c] = @ \ {j}]
    BY <1>5 DEF Flush
  <2>2. WrittenTo(j.key, c)'
    BY <2>1, WriteWrites
  <2>3. pc[c] = "flush" /\ pc'[c] = "flushMark"
    BY <1>0, <1>5 DEF Flush, BrokerTypeOK
  <2>4. cur'[c] = j /\ todo'[c] \subseteq todo[c]
    BY <1>0, <2>1 DEF BrokerTypeOK
  <2>5. \A i \in todo[c] : StoredFor(i.key, Name(c))'
    BY <1>1, <2>3 DEF InHand
  <2> QED
    BY <1>3, <2>2, <2>3, <2>4, <2>5 DEF InHand
<1>6. CASE FlushMark(c) \/ FlushAudit(c)
  <2>1. pc[c] \in Flushing /\ pc'[c] \in {"flushAudit", "flush"} /\ todo'[c] = todo[c]
    BY <1>0, <1>6 DEF FlushMark, FlushAudit, MarkWritten, AuditStep, BrokerTypeOK
  <2>2. \A i \in todo[c] : StoredFor(i.key, Name(c))'
    BY <1>1, <2>1 DEF InHand
  <2> QED
    BY <1>3, <2>1, <2>2 DEF InHand
<1>7. CASE RouteEnqueue(c)
  <2>1. PICK j \in todo[c] : /\ Enqueue(j.key, Name(c), j.to)
                             /\ cur' = [cur EXCEPT ![c] = j]
    BY <1>7 DEF RouteEnqueue
  <2>2. StoredFor(j.key, j.to)'
    BY <2>1 DEF Enqueue, StoredFor, Stored
  <2>3. cur'[c] = j /\ pc'[c] = "sendAudit"
    BY <1>0, <1>7, <2>1 DEF RouteEnqueue, BrokerTypeOK
  <2> QED
    BY <2>2, <2>3 DEF InHand
<1>8. CASE SendAudit(c)
  <2>1. pc[c] = "sendAudit" /\ pc'[c] = "get" /\ cur'[c] = cur[c]
    BY <1>0, <1>8 DEF SendAudit, AuditStep, BrokerTypeOK
  <2> QED
    BY <1>1, <2>1 DEF InHand
<1>9. CASE GetRecipient(c)
  <2>1. cur[c].to \in Names /\ pc[c] = "get" /\ cur'[c] = cur[c]
    BY <1>0, <1>9 DEF GetRecipient, BrokerTypeOK, Jobs
  <2>2. StoredFor(cur[c].key, cur[c].to)'
    BY <1>1, <2>1 DEF InHand
  <2>3. CASE Bound(cur[c].to)
    <3>1. pc'[c] = "write" /\ dst'[c] = registry[cur[c].to].conn
      BY <1>0, <1>9, <2>3 DEF GetRecipient, BrokerTypeOK
    <3>2. Name(dst'[c]) = cur[c].to
      BY <2>1, <2>3, <3>1 DEF RightfulOwner
    <3> QED
      BY <2>1, <2>2, <3>1, <3>2 DEF InHand, Name
  <2>4. CASE ~Bound(cur[c].to)
    <3>1. pc'[c] = "route"
      BY <1>0, <1>9, <2>4 DEF GetRecipient, BrokerTypeOK
    <3> QED
      BY <3>1 DEF InHand
  <2> QED
    BY <2>3, <2>4
<1>10. CASE DeliverTo(c)
  <2>1. pc[c] = "write" /\ cur'[c] = cur[c] /\ dst'[c] = dst[c] /\ dst[c] \in Conns
    BY <1>0, <1>10 DEF DeliverTo, BrokerTypeOK
  <2>2. StoredFor(cur[c].key, cur[c].to)' /\ Name(dst[c]) = cur[c].to
    BY <1>1, <2>1 DEF InHand
  <2>3. pc'[c] = "route" \/ (pc'[c] = "mark" /\ Write(dst[c], Deliver(cur[c].key)))
    BY <1>0, <1>10 DEF DeliverTo, BrokerTypeOK
  <2>4. pc'[c] = "mark" => WrittenTo(cur[c].key, dst[c])'
    <3>1. CASE Write(dst[c], Deliver(cur[c].key))
      BY <2>1, <3>1, WriteWrites
    <3> QED
      BY <2>3, <3>1
  <2>5. WrittenTo(cur[c].key, dst[c])' => (\E i \in 1..Len(out'[dst'[c]]) : out'[dst'[c]][i] = Deliver(cur'[c].key))
    BY <2>1 DEF WrittenTo, Deliver
  <2> QED
    BY <2>1, <2>2, <2>3, <2>4, <2>5 DEF InHand, Name, WrittenTo, Deliver
<1>11. CASE \/ Handshake(c) \/ Leave(c) \/ FlushFails(c) \/ FlushDone(c)
            \/ ReadAck(c) \/ HandleAck(c) \/ AckAudit(c) \/ ReadPeers(c) \/ HandlePeers(c)
            \/ ReadEnvelope(c) \/ ReadIgnored(c) \/ RouteSkip(c) \/ RouteDone(c)
            \/ DeliverMark(c) \/ DeliverAudit(c)
  <2>1. pc'[c] \notin Flushing \cup {"sendAudit", "get", "write", "mark"}
    <3>1. CASE Handshake(c) \/ Leave(c) \/ FlushFails(c) \/ FlushDone(c)
      BY <1>0, <3>1
         DEF BrokerTypeOK, Handshake, ReadRegister, RefuseRegister, Persist, BindName,
             RefuseName, CloseTakenOver, Requeue, AckHandshake, AckHandshakeFails,
             Leave, ReadError, CloseNormal, RemoveName, FlushFails, FlushDone
    <3>2. CASE ~(Handshake(c) \/ Leave(c) \/ FlushFails(c) \/ FlushDone(c))
      BY <1>0, <1>11, <3>2
         DEF BrokerTypeOK, ReadAck, HandleAck, AckAudit, ReadPeers, HandlePeers, ReadEnvelope,
             ReadIgnored, procVars, RouteSkip, RouteDone, DeliverMark, MarkWritten,
             DeliverAudit, AuditStep
    <3> QED
      BY <3>1, <3>2
  <2> QED
    BY <2>1 DEF InHand
<1> QED
  BY <1>4, <1>5, <1>6, <1>7, <1>8, <1>9, <1>10, <1>11 DEF Serve, FlushPending, RouteFrame

\* A row is delivered because it was, or because a goroutine that has come to mark
\* it does.
LEMMA DeliveredBecause ==
  ASSUME TypeOK, [Next]_vars, NEW k \in DOMAIN messages', messages'[k].delivered = 1
  PROVE  \/ k \in DOMAIN messages /\ messages[k].delivered = 1
         \/ \E c \in Conns : pc[c] \in {"flushMark", "mark"} /\ cur[c].key = k
<1>1. StoreTypeOK /\ StoreStep
  BY StoreEvolves DEF TypeOK
<1>2. CASE UNCHANGED messages
  BY <1>2
<1>3. ASSUME NEW n \in Names, RequeueUnacked(n)
      PROVE  k \in DOMAIN messages /\ messages[k].delivered = 1
  <2>1. k \in DOMAIN messages /\ messages[k] \in Rows
    BY <1>1, <1>3 DEF RequeueUnacked, StoreTypeOK
  <2> DEFINE r == [messages[k] EXCEPT !.delivered = 0]
  <2>2. r.delivered = 0
    BY <2>1 DEF Rows
  <2>3. messages'[k] \in {messages[k], r}
    BY <1>3, <2>1 DEF RequeueUnacked
  <2> HIDE DEF r
  <2> QED
    BY <2>1, <2>2, <2>3
<1>4. ASSUME NEW q \in RowIds, NEW from \in Names, NEW to \in Names, Enqueue(q, from, to)
      PROVE  k \in DOMAIN messages /\ messages[k].delivered = 1
  BY <1>4 DEF Enqueue, ErrUnknownPeer, ErrDuplicateID, Stored
<1>5. ASSUME NEW c \in Conns, MarkDelivered(cur[c].key), cur[c].key # k
      PROVE  k \in DOMAIN messages /\ messages[k].delivered = 1
  BY <1>5 DEF MarkDelivered
<1>6. ASSUME NEW c \in Conns, MarkAcked(cur[c].key)
      PROVE  k \in DOMAIN messages /\ messages[k].delivered = 1
  <2>1. k \in DOMAIN messages /\ messages[k] \in Rows
    BY <1>1, <1>6 DEF MarkAcked, StoreTypeOK
  <2>2. [messages[k] EXCEPT !.acked = 1].delivered = messages[k].delivered
    BY <2>1 DEF Rows
  <2>3. messages'[k] \in {messages[k], [messages[k] EXCEPT !.acked = 1]}
    BY <1>6, <2>1 DEF MarkAcked
  <2> QED
    BY <2>1, <2>2, <2>3
<1> QED
  BY <1>1, <1>2, <1>3, <1>4, <1>5, <1>6 DEF StoreStep, storeVars, Register

\* WrittenInv is inductive: no step of another goroutine takes from a goroutine what it
\* knows of the rows in its hands.
THEOREM WrittenInvariant == Spec => []WrittenInv
<1>1. Init => WrittenInv
  BY DEF Init, StoreInit, RegistryInit, BrokerInit, WrittenInv, DeliveredWasWritten,
         RightfulOwner, Bound, InHand, Flushing
<1>2. TypeOK /\ TypeOK' /\ WrittenInv /\ [Next]_vars => WrittenInv'
  <2> SUFFICES ASSUME TypeOK, TypeOK', WrittenInv, [Next]_vars PROVE WrittenInv'
    OBVIOUS
  <2>1. DeliveredWasWritten'
    <3> SUFFICES ASSUME NEW k \in DOMAIN messages', messages'[k].delivered = 1
                 PROVE  \E c \in Conns : Name(c)' = messages'[k].recipient /\ WrittenTo(k, c)'
      BY DEF DeliveredWasWritten
    <3>1. CASE k \in DOMAIN messages /\ messages[k].delivered = 1
      <4>1. PICK c \in Conns : Name(c) = messages[k].recipient /\ WrittenTo(k, c)
        BY <3>1 DEF WrittenInv, DeliveredWasWritten
      <4>2. messages'[k].recipient = messages[k].recipient
        BY <3>1, RowsStay DEF StoredFor, Stored
      <4> QED
        BY <4>1, <4>2, WrittenStays DEF Name
    <3>2. CASE \E c \in Conns : pc[c] \in {"flushMark", "mark"} /\ cur[c].key = k
      <4>1. PICK c \in Conns : pc[c] \in {"flushMark", "mark"} /\ cur[c].key = k
        BY <3>2
      <4>2. PICK d \in Conns : StoredFor(k, Name(d)) /\ WrittenTo(k, d)
        <5>1. InHand(c) /\ dst[c] \in Conns
          BY DEF WrittenInv, TypeOK, BrokerTypeOK
        <5>2. CASE pc[c] = "flushMark"
          BY <4>1, <5>1, <5>2 DEF InHand
        <5>3. CASE pc[c] = "mark"
          BY <4>1, <5>1, <5>3 DEF InHand
        <5> QED
          BY <4>1, <5>2, <5>3
      <4>3. messages'[k].recipient = Name(d)
        BY <4>2, RowsStay DEF StoredFor
      <4> QED
        BY <4>2, <4>3, WrittenStays DEF Name
    <3> QED
      BY <3>1, <3>2, DeliveredBecause
  <2>2. RightfulOwner'
    <3>1. RegistryStep
      BY RegistryEvolves
    <3> SUFFICES ASSUME NEW n \in Names, Bound(n)' PROVE Name(registry'[n].conn) = n
      BY DEF RightfulOwner, Name
    <3>2. registry \in [Names -> Bindings \cup {NoBinding}]
      BY DEF TypeOK, RegistryTypeOK
    <3>3. CASE registry'[n] = registry[n]
      BY <3>3 DEF WrittenInv, RightfulOwner, Bound
    <3>4. ASSUME NEW c \in Conns, Bind(Name(c), Claim[c].token, c), registry'[n] # registry[n]
          PROVE  Name(registry'[n].conn) = n
      BY <3>2, <3>4, ClaimType DEF Bind
    <3>5. ASSUME NEW c \in Conns, Remove(Name(c), c) PROVE registry'[n] = registry[n]
      BY <3>2, <3>5, ClaimType DEF Remove, Bound
    <3> QED
      BY <3>1, <3>3, <3>4, <3>5 DEF RegistryStep, Bound
  <2>3. ASSUME NEW d \in Conns PROVE InHand(d)'
    <3>1. InHand(d) /\ RightfulOwner
      BY DEF WrittenInv
    <3>2. ASSUME NEW c \in Conns, Serve(c) PROVE InHand(d)'
      <4>1. CASE c = d
        BY <3>1, <3>2, <4>1, InHandServe
      <4>2. CASE c # d
        BY <3>1, <3>2, <4>2, OwnStep, InHandStays
      <4> QED
        BY <4>1, <4>2
    <3>3. CASE UNCHANGED procVars
      BY <3>1, <3>3, InHandStays DEF procVars
    <3>4. ASSUME NEW c \in Conns, (PeerStep(c) /\ ~Dial(c)) \/ Drop(c) PROVE UNCHANGED procVars
      BY <3>4 DEF PeerStep, Connected, ConnectFails, Send, Recv, RecvPeers, Hangup, Drop,
                  procVars
    <3>5. ASSUME NEW c \in Conns, Dial(c) PROVE InHand(d)'
      <4>1. CASE c = d
        <5>1. pc'[d] = "handshake"
          BY <3>5, <4>1 DEF Dial, Goto, TypeOK, BrokerTypeOK
        <5> QED
          BY <5>1 DEF InHand, Flushing
      <4>2. CASE c # d
        BY <3>1, <3>5, <4>2, InHandStays DEF Dial, Goto, TypeOK, BrokerTypeOK
      <4> QED
        BY <4>1, <4>2
    <3>6. CASE Crash
      <4>1. pc'[d] \in {"free", "done"}
        BY <3>6 DEF Crash
      <4> QED
        BY <4>1 DEF InHand, Flushing
    <3>7. CASE Rest \/ UNCHANGED vars
      BY <3>3, <3>7 DEF Rest, vars, brokerVars
    <3> QED
      BY <3>2, <3>3, <3>4, <3>5, <3>6, <3>7 DEF Next, BrokerStep
  <2> QED
    BY <2>1, <2>2, <2>3 DEF WrittenInv
<1> QED
  BY <1>1, <1>2, TypeCorrect, PTL DEF Spec

\* A row marked delivered was written to a connection of its recipient, whatever
\* takeovers, failed writes, store failures and crashes came between.
THEOREM DeliveredIsWritten == Spec => []DeliveredWasWritten
<1>1. WrittenInv => DeliveredWasWritten
  BY DEF WrittenInv
<1> QED
  BY <1>1, WrittenInvariant, PTL

==============================================================================
