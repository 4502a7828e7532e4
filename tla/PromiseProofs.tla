---------------------------- MODULE PromiseProofs ----------------------------
(***************************************************************************)
(* Frames and rows: what is on a connection belongs to its peer, an ack    *)
(* stands for a row its peer has read, and the audit log and the           *)
(* at-least-once promise rest on that.  For any peers, connections,        *)
(* scripts, store failures and crashes.                                    *)
(***************************************************************************)
EXTENDS BusProofs

----------------------------------------------------------------------------
(* What a step does to the frames *)

\* The broker writes peers frames, rows of its flush snapshot to its own connection,
\* and the row in hand to the connection it looked up.
WriteStep ==
  \/ out' = out
  \/ \E c \in Conns : pc[c] \in {"ack", "peers"} /\ Write(c, PeersFrame)
  \/ \E c \in Conns : pc[c] = "flush" /\ \E j \in todo[c] : Write(c, Deliver(j.key))
  \/ \E c \in Conns : pc[c] = "write" /\ Write(dst[c], Deliver(cur[c].key))

\* Every action of the bus is such a step.
LEMMA WritesEvolve == ASSUME [Next]_vars PROVE WriteStep
<1> USE DEF WriteStep
<1>1. ASSUME NEW c \in Conns, Handshake(c) PROVE WriteStep
  BY <1>1 DEF Handshake, ReadRegister, RefuseRegister, Persist, BindName, RefuseName,
              CloseTakenOver, Requeue, AckHandshake, AckHandshakeFails, linkVars, WriteFails,
              Close, Read
<1>2. ASSUME NEW c \in Conns, FlushPending(c) PROVE WriteStep
  BY <1>2 DEF FlushPending, QueryPending, Flush, FlushFails, FlushDone, FlushMark,
              FlushAudit, MarkWritten, AuditStep, AuditEvent, linkVars, WriteFails
<1>3. ASSUME NEW c \in Conns, RouteFrame(c) PROVE WriteStep
  BY <1>3 DEF RouteFrame, ReadAck, HandleAck, AckAudit, ReadPeers, HandlePeers, ReadEnvelope,
              ReadIgnored, RouteEnqueue, RouteSkip, RouteDone, SendAudit, GetRecipient,
              DeliverTo, DeliverMark, MarkWritten, DeliverAudit, AuditStep, AuditEvent,
              linkVars, WriteFails, Read
<1>4. ASSUME NEW c \in Conns, Leave(c) PROVE WriteStep
  BY <1>4 DEF Leave, ReadError, CloseNormal, RemoveName, linkVars, Close
<1>5. ASSUME NEW c \in Conns, PeerStep(c) \/ Drop(c) PROVE WriteStep
  BY <1>5 DEF PeerStep, Drop, Dial, Connected, ConnectFails, Send, Recv, RecvPeers, Hangup
<1>6. CASE Crash \/ Rest \/ UNCHANGED vars
  BY <1>6 DEF Crash, Rest, vars, brokerVars, linkVars
<1> QED
  BY <1>1, <1>2, <1>3, <1>4, <1>5, <1>6 DEF Next, BrokerStep, Serve

\* A write adds its own frame to its own connection and nothing else.
LEMMA WriteAdds ==
  ASSUME TypeOK, NEW d \in Conns, NEW f, Write(d, f),
         NEW k, NEW c \in Conns, WrittenTo(k, c)', ~WrittenTo(k, c)
  PROVE  d = c /\ f = Deliver(k)
<1>1. PICK i \in 1..Len(out'[c]) : out'[c][i] = Deliver(k)
  BY DEF WrittenTo, Deliver
<1>2. out[d] \in Seq(OutFrames) /\ out[c] \in Seq(OutFrames)
  BY DEF TypeOK, LinkTypeOK
<1>3. out'[c] = IF c = d THEN Append(out[d], f) ELSE out[c]
  BY DEF Write, TypeOK, LinkTypeOK
<1>4. \A n \in 1..Len(out[c]) : out[c][n] # Deliver(k)
  BY DEF WrittenTo
<1>5. CASE c # d
  BY <1>1, <1>3, <1>4, <1>5
<1>6. CASE c = d
  <2>1. Len(out'[c]) = Len(out[d]) + 1 /\ out'[c][Len(out[d]) + 1] = f
    BY <1>2, <1>3, <1>6
  <2>2. \A n \in 1..Len(out[d]) : out'[c][n] = out[d][n]
    BY <1>2, <1>3, <1>6
  <2> QED
    BY <1>1, <1>2, <1>4, <1>6, <2>1, <2>2
<1> QED
  BY <1>5, <1>6

\* A row comes onto a connection from the snapshot or from the hand of a goroutine.
LEMMA WrittenBecause ==
  ASSUME TypeOK, [Next]_vars, NEW k, NEW c \in Conns, WrittenTo(k, c)', ~WrittenTo(k, c)
  PROVE  \/ pc[c] = "flush" /\ \E j \in todo[c] : j.key = k
         \/ \E d \in Conns : pc[d] = "write" /\ dst[d] = c /\ cur[d].key = k
<1>1. WriteStep
  BY WritesEvolve
<1>2. \A q : Deliver(q) = Deliver(k) => q = k
  BY DEF Deliver
<1>3. PeersFrame # Deliver(k)
  BY DEF PeersFrame, Deliver
<1>4. out' # out
  BY DEF WrittenTo
<1>5. ASSUME NEW d \in Conns PROVE ~Write(d, PeersFrame)
  BY <1>3, WriteAdds
<1>6. ASSUME NEW d \in Conns, pc[d] = "flush", NEW j \in todo[d], Write(d, Deliver(j.key))
      PROVE  pc[c] = "flush" /\ \E i \in todo[c] : i.key = k
  <2>1. d = c /\ Deliver(j.key) = Deliver(k)
    BY <1>6, WriteAdds
  <2> QED
    BY <1>2, <1>6, <2>1
<1>7. ASSUME NEW d \in Conns, pc[d] = "write", Write(dst[d], Deliver(cur[d].key))
      PROVE  dst[d] = c /\ cur[d].key = k
  <2>1. dst[d] \in Conns
    BY DEF TypeOK, BrokerTypeOK
  <2>2. dst[d] = c /\ Deliver(cur[d].key) = Deliver(k)
    BY <1>7, <2>1, WriteAdds
  <2> QED
    BY <1>2, <2>2
<1> QED
  BY <1>1, <1>4, <1>5, <1>6, <1>7 DEF WriteStep

\* A peer reads one frame at a time: a peers frame, or a delivery, which it acks.
ReadStep ==
  \/ seen' = seen
  \/ \E c \in Conns : /\ Unread(c) /\ Advance(c) /\ UNCHANGED out
                      /\ NextFrame(c) = PeersFrame \/ Recv(c)

\* Every action of the bus is such a step.
LEMMA ReadsEvolve == ASSUME TypeOK, [Next]_vars PROVE ReadStep
<1>1. ASSUME NEW c \in Conns, Serve(c) PROVE seen' = seen
  BY <1>1, LinkEvolves DEF LinkStep, linkVars, Close, Read, Write
<1>2. ASSUME NEW c \in Conns, PeerStep(c) \/ Drop(c) PROVE ReadStep
  BY <1>2 DEF ReadStep, PeerStep, Drop, Dial, Connected, ConnectFails, Send, Recv, RecvPeers,
              Hangup
<1>3. CASE Crash \/ Rest \/ UNCHANGED vars
  BY <1>3 DEF ReadStep, Crash, Rest, vars, brokerVars, linkVars
<1> QED
  BY <1>1, <1>2, <1>3 DEF Next, BrokerStep, ReadStep

\* What was read stays read.
LEMMA ReadStays ==
  ASSUME TypeOK, [Next]_vars, NEW k, NEW c \in Conns, ReadFrom(k, c) PROVE ReadFrom(k, c)'
<1>1. PICK i \in 1..seen[c] : out[c][i] = Deliver(k)
  BY DEF ReadFrom
<1>2. /\ seen[c] \in Nat /\ Len(out[c]) \in Nat /\ seen[c] <= Len(out[c])
      /\ out[c] \in Seq(OutFrames) /\ seen \in [Conns -> Nat] /\ out \in [Conns -> Seq(OutFrames)]
  BY DEF TypeOK, LinkTypeOK
<1>3. seen'[c] = seen[c] \/ seen'[c] = seen[c] + 1
  BY <1>2, ReadsEvolve DEF ReadStep, Advance
<1>4. out'[c] = out[c] \/ \E f : out'[c] = Append(out[c], f)
  <2>1. WriteStep
    BY WritesEvolve
  <2>2. out' = out \/ \E d, f : out' = [out EXCEPT ![d] = Append(@, f)]
    BY <2>1, ZenonT(60) DEF WriteStep, Write
  <2> QED
    BY <1>2, <2>2
<1>5. out'[c][i] = out[c][i]
  <2>1. i \in 1..Len(out[c])
    BY <1>1, <1>2
  <2> QED
    BY <1>2, <1>4, <2>1
<1>6. i \in 1..seen'[c]
  BY <1>1, <1>2, <1>3
<1> QED
  BY <1>1, <1>5, <1>6 DEF ReadFrom, Deliver

\* A row becomes read when the peer receives it.
LEMMA ReadBecause ==
  ASSUME TypeOK, [Next]_vars, NEW k, NEW c \in Conns, ReadFrom(k, c)', ~ReadFrom(k, c)
  PROVE  Recv(c) /\ NextFrame(c) = Deliver(k)
<1>1. PICK i \in 1..seen'[c] : out'[c][i] = Deliver(k)
  BY DEF ReadFrom, Deliver
<1>2. /\ seen[c] \in Nat /\ Len(out[c]) \in Nat /\ seen[c] <= Len(out[c])
      /\ out[c] \in Seq(OutFrames) /\ seen \in [Conns -> Nat] /\ out \in [Conns -> Seq(OutFrames)]
  BY DEF TypeOK, LinkTypeOK
<1>3. \A n \in 1..seen[c] : out[c][n] # Deliver(k)
  BY DEF ReadFrom
<1>4. out'[c] = out[c] \/ \E f : out'[c] = Append(out[c], f)
  <2>1. WriteStep
    BY WritesEvolve
  <2>2. out' = out \/ \E d, f : out' = [out EXCEPT ![d] = Append(@, f)]
    BY <2>1, ZenonT(60) DEF WriteStep, Write
  <2> QED
    BY <1>2, <2>2
<1>5. \A n \in 1..seen[c] : out'[c][n] = out[c][n]
  BY <1>2, <1>4
<1>6. i \notin 1..seen[c]
  BY <1>1, <1>3, <1>5
<1>7. PICK d \in Conns : /\ Unread(d) /\ Advance(d) /\ UNCHANGED out
                         /\ NextFrame(d) = PeersFrame \/ Recv(d)
  BY <1>1, <1>6, ReadsEvolve DEF ReadStep
<1>8. d = c /\ i = seen[c] + 1
  BY <1>1, <1>2, <1>6, <1>7 DEF Advance
<1>9. NextFrame(c) = Deliver(k)
  BY <1>1, <1>7, <1>8 DEF NextFrame
<1>10. NextFrame(c) # PeersFrame
  BY <1>9 DEF PeersFrame, Deliver
<1> QED
  BY <1>7, <1>8, <1>9, <1>10

\* An ack of row k is on its way from the peer to the broker.
OnItsWay(k, c) == \E i \in 1..Len(in[c]) : in[c][i] = Ack(k)

\* A frame enters the broker's queue when the peer dials, sends or receives.
InStep ==
  \/ in' = in
  \/ \E c \in Conns : Read(c) \/ Dial(c) \/ Send(c) \/ Recv(c)

\* Every action of the bus is such a step.
LEMMA QueuesEvolve == ASSUME TypeOK, [Next]_vars PROVE InStep
<1>1. ASSUME NEW c \in Conns, Serve(c) PROVE InStep
  BY <1>1, LinkEvolves DEF InStep, LinkStep, linkVars, Close, Write
<1>2. ASSUME NEW c \in Conns, PeerStep(c) \/ Drop(c) PROVE InStep
  BY <1>2 DEF InStep, PeerStep, Drop, Connected, ConnectFails, RecvPeers, Hangup
<1>3. CASE Crash \/ Rest \/ UNCHANGED vars
  BY <1>3 DEF InStep, Crash, Rest, vars, brokerVars, linkVars
<1> QED
  BY <1>1, <1>2, <1>3 DEF Next, BrokerStep

\* The frame a peer receives is the delivery it acks.
LEMMA RecvDelivers ==
  ASSUME TypeOK, NEW c \in Conns, Recv(c)
  PROVE  NextFrame(c) = Deliver(NextFrame(c).key)
<1>1. out[c] \in Seq(OutFrames) /\ seen[c] \in Nat /\ seen[c] < Len(out[c])
  BY DEF TypeOK, LinkTypeOK, Recv, Unread
<1>2. NextFrame(c) \in OutFrames
  BY <1>1 DEF NextFrame
<1> QED
  BY <1>2 DEF OutFrames, Recv, PeersFrame, Deliver

\* An ack is sent when its row is received, or of the peer's own accord.
LEMMA AckBecause ==
  ASSUME TypeOK, [Next]_vars, NEW k, NEW c \in Conns, OnItsWay(k, c)', ~OnItsWay(k, c),
         ~Unprompted(k)
  PROVE  Recv(c) /\ NextFrame(c) = Deliver(k)
<1>1. PICK i \in 1..Len(in'[c]) : in'[c][i] = Ack(k)
  BY DEF OnItsWay, Ack
<1>2. \A n \in 1..Len(in[c]) : in[c][n] # Ack(k)
  BY DEF OnItsWay
<1>3. in \in [Conns -> Seq(InFrames)] /\ in[c] \in Seq(InFrames)
  BY DEF TypeOK, LinkTypeOK
<1>4. in'[c] # in[c]
  BY <1>1, <1>2
<1>5. ASSUME NEW d \in Conns PROVE ~Read(d)
  <2> SUFFICES ASSUME Read(d) PROVE FALSE
    OBVIOUS
  <2>1. d = c /\ in'[c] = Tail(in[c]) /\ in[c] # <<>>
    BY <1>3, <1>4 DEF Read
  <2>2. i + 1 \in 1..Len(in[c]) /\ in'[c][i] = in[c][i + 1]
    BY <1>1, <1>3, <2>1
  <2> QED
    BY <1>1, <1>2, <2>2
<1>6. ASSUME NEW d \in Conns PROVE ~Dial(d)
  <2> SUFFICES ASSUME Dial(d) PROVE FALSE
    OBVIOUS
  <2>1. in'[c] = <<Claim[c]>>
    BY <1>3, <1>4 DEF Dial
  <2>2. Claim[c] = Ack(k)
    BY <1>1, <2>1
  <2> QED
    BY <2>2, BrokerAssumption DEF RegisterFrames, Ack
<1>7. ASSUME NEW d \in Conns PROVE ~Send(d)
  <2> SUFFICES ASSUME Send(d) PROVE FALSE
    OBVIOUS
  <2>1. d = c /\ in'[c] = Append(in[c], Script[c][sent[c] + 1])
    BY <1>3, <1>4 DEF Send
  <2>2. Script[c] \in Seq(Requests) /\ sent[c] \in Nat /\ sent[c] < Len(Script[c])
    BY <2>1, BusAssumption DEF TypeOK, Send
  <2>3. sent[c] + 1 \in 1..Len(Script[c])
    BY <2>2
  <2>4. Script[c][sent[c] + 1] # Ack(k)
    BY <2>3 DEF Unprompted
  <2> QED
    BY <1>1, <1>2, <1>3, <2>1, <2>4
<1>8. PICK d \in Conns : Recv(d)
  BY <1>4, <1>5, <1>6, <1>7, QueuesEvolve DEF InStep
<1>9. d = c /\ in'[c] = Append(in[c], Ack(NextFrame(c).key))
  BY <1>3, <1>4, <1>8 DEF Recv
<1>10. Ack(NextFrame(c).key) = Ack(k)
  BY <1>1, <1>2, <1>3, <1>9
<1>11. NextFrame(c).key = k
  BY <1>10 DEF Ack
<1> QED
  BY <1>8, <1>9, <1>11, RecvDelivers

\* Which keys are acked unprompted is a matter of the scripts.
LEMMA UnpromptedFixed == \A k : Unprompted(k)' <=> Unprompted(k)
  BY DEF Unprompted, Ack

\* The ack a goroutine takes off its connection was on its way.
LEMMA ReadAckTakes ==
  ASSUME TypeOK, NEW c \in Conns, ReadAck(c) PROVE OnItsWay(cur'[c].key, c)
<1>1. in[c] \in Seq(InFrames) /\ in[c] # <<>> /\ Head(in[c]).type = "ack"
  BY DEF ReadAck, Read, TypeOK, LinkTypeOK
<1>2. Head(in[c]) \in InFrames /\ Head(in[c]) = in[c][1] /\ 1 \in 1..Len(in[c])
  BY <1>1
<1>3. Head(in[c]) = Ack(Head(in[c]).key)
  BY <1>1, <1>2 DEF InFrames, RegisterFrames, Requests, Envelopes, PeersFrame, OtherFrame,
                    Acks, Ack
<1>4. cur'[c].key = Head(in[c]).key
  BY DEF ReadAck, TypeOK, BrokerTypeOK
<1> QED
  BY <1>2, <1>3, <1>4 DEF OnItsWay

----------------------------------------------------------------------------
(* What a step does to the acked flags *)

\* Row k is stored and acked.
Settles(k) == Stored(k) /\ messages[k].acked = 1

\* What is acked stays acked.
LEMMA AckedStays ==
  ASSUME TypeOK, [Next]_vars, NEW k, Settles(k) PROVE Settles(k)'
<1>1. StoreTypeOK /\ StoreStep /\ messages[k] \in Rows
  BY StoreEvolves DEF TypeOK, StoreTypeOK, Settles, Stored
<1>2. ASSUME NEW n, RequeueUnacked(n) PROVE Settles(k)'
  BY <1>1, <1>2 DEF RequeueUnacked, Settles, Stored, Rows
<1>3. ASSUME NEW q, MarkDelivered(q) PROVE Settles(k)'
  <2> DEFINE d == [messages[k] EXCEPT !.delivered = 1]
  <2>1. d.acked = 1 /\ d \in [sender : Names, recipient : Names, delivered : Bit, acked : Bit,
                              attempts : Nat, seq : Nat]
    BY <1>1 DEF Rows, Bit, Settles
  <2> HIDE DEF d
  <2>2. [d EXCEPT !.attempts = messages[k].attempts + 1].acked = 1
    BY <2>1
  <2>3. [messages[k] EXCEPT !.delivered = 1, !.attempts = @ + 1].acked = 1
    BY <1>1, <2>2 DEF d, Rows
  <2>4. messages'[k] \in {messages[k], [messages[k] EXCEPT !.delivered = 1, !.attempts = @ + 1]}
    BY <1>3 DEF MarkDelivered, Settles, Stored
  <2> QED
    BY <1>3, <2>3, <2>4 DEF MarkDelivered, Settles, Stored
<1>4. ASSUME NEW q, MarkAcked(q) PROVE Settles(k)'
  BY <1>1, <1>4 DEF MarkAcked, Settles, Stored, Rows
<1>5. ASSUME NEW q \in RowIds, NEW from \in Names, NEW to \in Names, Enqueue(q, from, to)
      PROVE  Settles(k)'
  BY <1>5 DEF Enqueue, ErrUnknownPeer, ErrDuplicateID, Settles, Stored
<1>6. CASE UNCHANGED storeVars \/ \E n \in Names : Register(n)
  BY <1>6 DEF storeVars, Register, Settles, Stored
<1> QED
  BY <1>1, <1>2, <1>3, <1>4, <1>5, <1>6 DEF StoreStep

\* A row is acked because it was, or because the goroutine that holds its ack says so.
LEMMA AckedBecause ==
  ASSUME TypeOK, [Next]_vars, NEW k, Settles(k)', ~Settles(k)
  PROVE  Stored(k) /\ \E c \in Conns : pc[c] = "acking" /\ cur[c].key = k
<1>1. StoreTypeOK /\ StoreStep
  BY StoreEvolves DEF TypeOK
<1>2. ASSUME NEW n PROVE ~RequeueUnacked(n)
  <2> SUFFICES ASSUME RequeueUnacked(n) PROVE FALSE
    OBVIOUS
  <2>1. k \in DOMAIN messages /\ messages[k] \in Rows
    BY <1>1 DEF RequeueUnacked, StoreTypeOK, Settles, Stored
  <2>2. [messages[k] EXCEPT !.delivered = 0].acked = messages[k].acked
    BY <2>1 DEF Rows
  <2>3. messages'[k] \in {messages[k], [messages[k] EXCEPT !.delivered = 0]}
    BY <2>1 DEF RequeueUnacked
  <2> QED
    BY <2>1, <2>2, <2>3 DEF Settles, Stored
<1>3. ASSUME NEW q PROVE ~MarkDelivered(q)
  <2> SUFFICES ASSUME MarkDelivered(q) PROVE FALSE
    OBVIOUS
  <2>1. k \in DOMAIN messages /\ messages[k] \in Rows
    BY <1>1 DEF MarkDelivered, StoreTypeOK, Settles, Stored
  <2> DEFINE d == [messages[k] EXCEPT !.delivered = 1]
  <2>2. d.acked = messages[k].acked /\ d.attempts = messages[k].attempts
        /\ d \in [sender : Names, recipient : Names, delivered : Bit, acked : Bit,
                  attempts : Nat, seq : Nat]
    BY <2>1 DEF Rows, Bit
  <2> HIDE DEF d
  <2>3. [d EXCEPT !.attempts = messages[k].attempts + 1].acked = messages[k].acked
    BY <2>2
  <2>4. messages'[k] \in {messages[k], [d EXCEPT !.attempts = messages[k].attempts + 1]}
    BY <2>1 DEF MarkDelivered, d
  <2> QED
    BY <2>1, <2>3, <2>4 DEF Settles, Stored
<1>4. ASSUME NEW q \in RowIds, NEW from \in Names, NEW to \in Names
      PROVE  ~Enqueue(q, from, to)
  BY DEF Enqueue, ErrUnknownPeer, ErrDuplicateID, Settles, Stored
<1>5. ~(UNCHANGED storeVars) /\ \A n \in Names : ~Register(n)
  BY DEF storeVars, Register, Settles, Stored
<1>6. PICK c \in Conns : pc[c] = "acking" /\ MarkAcked(cur[c].key)
  BY <1>1, <1>2, <1>3, <1>4, <1>5 DEF StoreStep
<1> QED
  BY <1>6 DEF MarkAcked, Settles, Stored

----------------------------------------------------------------------------
(* The invariant *)

\* What a goroutine knows when it handles an ack or audits what it has done: the
\* acking peer has read the row, unless that ack is sent unprompted, and an ack or a
\* delivery is audited after the fact.
Knows(c) ==
  /\ pc[c] \in {"acking", "ackAudit"} =>
       Unprompted(cur[c].key) \/ ReadFrom(cur[c].key, c)
  /\ pc[c] = "ackAudit" => Unprompted(cur[c].key) \/ Settles(cur[c].key)
  /\ pc[c] = "flushAudit" => WrittenTo(cur[c].key, c)
  /\ pc[c] = "deliverAudit" => WrittenTo(cur[c].key, dst[c])

\* A connection carries only rows of its own peer, prompted acks come only from peers
\* that have read the row, and so only rows that were read, or are acked unprompted by
\* someone, are acked.
FramesInv ==
  /\ \A c \in Conns : \A k \in RowIds : WrittenTo(k, c) => StoredFor(k, Name(c))
  /\ \A c \in Conns : \A k \in RowIds : OnItsWay(k, c) => Unprompted(k) \/ ReadFrom(k, c)
  /\ \A k \in RowIds : Settles(k) =>
       \/ Unprompted(k)
       \/ \E c \in Conns : Name(c) = messages[k].recipient /\ ReadFrom(k, c)
  /\ \A c \in Conns : Knows(c)

\* What was read was written.
LEMMA ReadWasWritten ==
  ASSUME TypeOK, NEW k, NEW c \in Conns, ReadFrom(k, c) PROVE WrittenTo(k, c)
<1>1. seen[c] \in Nat /\ Len(out[c]) \in Nat /\ seen[c] <= Len(out[c])
  BY DEF TypeOK, LinkTypeOK
<1> QED
  BY <1>1 DEF ReadFrom, WrittenTo

\* Receiving a delivery is reading it.
LEMMA RecvReads ==
  ASSUME TypeOK, NEW c \in Conns, Recv(c), NEW k, NextFrame(c) = Deliver(k)
  PROVE  ReadFrom(k, c)'
<1>1. /\ seen \in [Conns -> Nat] /\ seen[c] \in Nat /\ UNCHANGED out
      /\ seen' = [seen EXCEPT ![c] = seen[c] + 1]
  BY DEF TypeOK, LinkTypeOK, Recv, Advance
<1>2. seen[c] + 1 \in 1..seen'[c] /\ out'[c][seen[c] + 1] = Deliver(k)
  BY <1>1 DEF NextFrame
<1> QED
  BY <1>2 DEF ReadFrom, Deliver

\* A goroutine that does not move keeps what it knows.
LEMMA KnowsStays ==
  ASSUME TypeOK, [Next]_vars, NEW c \in Conns, Knows(c),
         pc'[c] = pc[c], cur'[c] = cur[c], dst'[c] = dst[c]
  PROVE  Knows(c)'
<1>1. dst[c] \in Conns
  BY DEF TypeOK, BrokerTypeOK
<1>2. \A k : \A d \in Conns : WrittenTo(k, d) => WrittenTo(k, d)'
  BY WrittenStays
<1>3. \A k : \A d \in Conns : ReadFrom(k, d) => ReadFrom(k, d)'
  BY ReadStays
<1>4. \A k : Settles(k) => Settles(k)'
  BY AckedStays
<1> QED
  BY <1>1, <1>2, <1>3, <1>4, UnpromptedFixed DEF Knows

\* A goroutine that takes a step knows what it has to afterwards.
LEMMA KnowsServe ==
  ASSUME TypeOK, TypeOK', WrittenInv, FramesInv, [Next]_vars, NEW c \in Conns, Serve(c)
  PROVE  Knows(c)'
<1> USE DEF Goto
<1>0. BrokerTypeOK /\ StoreTypeOK /\ InHand(c) /\ Knows(c) /\ dst[c] \in Conns
      /\ cur[c].key \in RowIds /\ cur'[c].key \in RowIds
  BY DEF TypeOK, BrokerTypeOK, WrittenInv, FramesInv, Jobs
<1>1. \A k : \A d \in Conns : WrittenTo(k, d) => WrittenTo(k, d)'
  BY WrittenStays
<1>2. \A k : \A d \in Conns : ReadFrom(k, d) => ReadFrom(k, d)'
  BY ReadStays
<1>3. CASE ReadAck(c)
  <2>1. PICK k \in RowIds : k = cur'[c].key
    BY <1>0
  <2>2. Unprompted(k) \/ ReadFrom(k, c)
    BY <1>3, <2>1, ReadAckTakes DEF FramesInv
  <2>3. pc'[c] = "acking"
    BY <1>0, <1>3 DEF ReadAck, BrokerTypeOK
  <2>4. Unprompted(k)' \/ ReadFrom(k, c)'
    BY <1>2, <2>2, UnpromptedFixed
  <2> QED
    BY <2>1, <2>3, <2>4 DEF Knows
<1>4. CASE HandleAck(c)
  <2>0. PICK k \in RowIds : k = cur[c].key
    BY <1>0
  <2>1. (Unprompted(k) \/ ReadFrom(k, c)) /\ UNCHANGED cur
    BY <1>0, <1>4, <2>0 DEF Knows, HandleAck
  <2>2. ReadFrom(k, c) => k \in DOMAIN messages
    BY ReadWasWritten DEF FramesInv, StoredFor, Stored
  <2>4. pc'[c] = "serve" \/ (pc'[c] = "ackAudit" /\ MarkAcked(k))
    BY <1>0, <1>4, <2>0 DEF HandleAck, BrokerTypeOK
  <2>5. MarkAcked(k) /\ ReadFrom(k, c) => Settles(k)'
    BY <1>0, <2>2 DEF MarkAcked, Settles, Stored, StoreTypeOK, Rows
  <2> QED
    BY <1>2, <2>0, <2>1, <2>4, <2>5, UnpromptedFixed DEF Knows
<1>5. CASE FlushMark(c) \/ DeliverMark(c)
  <2>1. \/ pc[c] = "flushMark" /\ pc'[c] = "flushAudit"
        \/ pc[c] = "mark" /\ pc'[c] = "deliverAudit"
    BY <1>0, <1>5 DEF FlushMark, DeliverMark, MarkWritten, BrokerTypeOK
  <2>2. UNCHANGED <<cur, dst>>
    BY <1>5 DEF FlushMark, DeliverMark, MarkWritten
  <2> QED
    BY <1>0, <1>1, <2>1, <2>2 DEF InHand, Knows
<1>6. CASE ~(ReadAck(c) \/ HandleAck(c) \/ FlushMark(c) \/ DeliverMark(c))
  <2>1. pc'[c] \notin {"acking", "ackAudit", "flushAudit", "deliverAudit"}
    <3>1. CASE Handshake(c)
      BY <1>0, <3>1
         DEF BrokerTypeOK, Handshake, ReadRegister, RefuseRegister, Persist, BindName,
             RefuseName, CloseTakenOver, Requeue, AckHandshake, AckHandshakeFails
    <3>2. CASE FlushPending(c)
      BY <1>0, <1>6, <3>2
         DEF BrokerTypeOK, FlushPending, QueryPending, Flush, FlushFails, FlushDone,
             FlushAudit, AuditStep
    <3>3. CASE RouteFrame(c)
      BY <1>0, <1>6, <3>3
         DEF BrokerTypeOK, RouteFrame, AckAudit, ReadPeers, HandlePeers, ReadEnvelope,
             ReadIgnored, procVars, RouteEnqueue, RouteSkip, RouteDone, SendAudit,
             GetRecipient, DeliverTo, DeliverAudit, AuditStep
    <3>4. CASE Leave(c)
      BY <1>0, <3>4 DEF BrokerTypeOK, Leave, ReadError, CloseNormal, RemoveName
    <3> QED
      BY <3>1, <3>2, <3>3, <3>4 DEF Serve
  <2> QED
    BY <2>1 DEF Knows
<1> QED
  BY <1>3, <1>4, <1>5, <1>6

\* FramesInv is inductive, given what goroutines know of the rows in their hands.
THEOREM FramesInvariant == Spec => []FramesInv
<1>1. Init => FramesInv
  BY DEF Init, StoreInit, LinkInit, BrokerInit, FramesInv, Knows, WrittenTo, OnItsWay, Settles,
         Stored
<1>2. TypeOK /\ TypeOK' /\ WrittenInv /\ FramesInv /\ [Next]_vars => FramesInv'
  <2> SUFFICES ASSUME TypeOK, TypeOK', WrittenInv, FramesInv, [Next]_vars PROVE FramesInv'
    OBVIOUS
  <2>0. \A k : \A c \in Conns : ReadFrom(k, c) => ReadFrom(k, c)'
    BY ReadStays
  <2>1. ASSUME NEW c \in Conns, NEW k \in RowIds, WrittenTo(k, c)'
        PROVE  StoredFor(k, Name(c))'
    <3>1. StoredFor(k, Name(c))
      <4>1. CASE WrittenTo(k, c)
        BY <4>1 DEF FramesInv
      <4>2. CASE ~WrittenTo(k, c) /\ pc[c] = "flush" /\ \E j \in todo[c] : j.key = k
        BY <4>2 DEF WrittenInv, InHand, Flushing
      <4>3. ASSUME NEW d \in Conns, pc[d] = "write", dst[d] = c, cur[d].key = k
            PROVE  StoredFor(k, Name(c))
        BY <4>3 DEF WrittenInv, InHand
      <4> QED
        BY <2>1, <4>1, <4>2, <4>3, WrittenBecause
    <3>2. Name(c)' = Name(c)
      BY DEF Name
    <3> QED
      BY <3>1, <3>2, RowsStay
  <2>2. ASSUME NEW c \in Conns, NEW k \in RowIds, OnItsWay(k, c)', ~Unprompted(k)
        PROVE  ReadFrom(k, c)'
    <3>1. CASE OnItsWay(k, c)
      BY <2>0, <2>2, <3>1 DEF FramesInv
    <3>2. CASE ~OnItsWay(k, c)
      BY <2>2, <3>2, AckBecause, RecvReads
    <3> QED
      BY <3>1, <3>2
  <2>3. ASSUME NEW k \in RowIds, Settles(k)', ~Unprompted(k)
        PROVE  \E c \in Conns : Name(c)' = messages'[k].recipient /\ ReadFrom(k, c)'
    <3>1. PICK c \in Conns : StoredFor(k, Name(c)) /\ ReadFrom(k, c)
      <4>1. CASE Settles(k)
        BY <2>3, <4>1 DEF FramesInv, Settles, StoredFor
      <4>2. CASE ~Settles(k)
        <5>1. PICK c \in Conns : pc[c] = "acking" /\ cur[c].key = k
          BY <2>3, <4>2, AckedBecause
        <5>2. ReadFrom(k, c)
          BY <2>3, <5>1 DEF FramesInv, Knows
        <5>3. StoredFor(k, Name(c))
          BY <5>2, ReadWasWritten DEF FramesInv
        <5> QED
          BY <5>2, <5>3
      <4> QED
        BY <4>1, <4>2
    <3>2. StoredFor(k, Name(c))'
      BY <3>1, RowsStay DEF StoredFor, Stored, Name
    <3> QED
      BY <2>0, <3>1, <3>2 DEF StoredFor
  <2>4. ASSUME NEW d \in Conns PROVE Knows(d)'
    <3>1. Knows(d)
      BY DEF FramesInv
    <3>2. ASSUME NEW c \in Conns, Serve(c) PROVE Knows(d)'
      <4>1. CASE c = d
        BY <3>2, <4>1, KnowsServe
      <4>2. CASE c # d
        BY <3>1, <3>2, <4>2, OwnStep, KnowsStays
      <4> QED
        BY <4>1, <4>2
    <3>3. CASE UNCHANGED procVars
      BY <3>1, <3>3, KnowsStays DEF procVars
    <3>4. ASSUME NEW c \in Conns, (PeerStep(c) /\ ~Dial(c)) \/ Drop(c) PROVE UNCHANGED procVars
      BY <3>4 DEF PeerStep, Connected, ConnectFails, Send, Recv, RecvPeers, Hangup, Drop,
                  procVars
    <3>5. ASSUME NEW c \in Conns, Dial(c) PROVE Knows(d)'
      <4>1. CASE c = d
        <5>1. pc'[d] = "handshake"
          BY <3>5, <4>1 DEF Dial, Goto, TypeOK, BrokerTypeOK
        <5> QED
          BY <5>1 DEF Knows
      <4>2. CASE c # d
        BY <3>1, <3>5, <4>2, KnowsStays DEF Dial, Goto, TypeOK, BrokerTypeOK
      <4> QED
        BY <4>1, <4>2
    <3>6. CASE Crash
      <4>1. pc'[d] \in {"free", "done"}
        BY <3>6 DEF Crash
      <4> QED
        BY <4>1 DEF Knows
    <3>7. CASE Rest \/ UNCHANGED vars
      BY <3>3, <3>7 DEF Rest, vars, brokerVars
    <3> QED
      BY <3>2, <3>3, <3>4, <3>5, <3>6, <3>7 DEF Next, BrokerStep
  <2> QED
    BY <2>1, <2>2, <2>3, <2>4, UnpromptedFixed DEF FramesInv
<1> QED
  BY <1>1, <1>2, TypeCorrect, WrittenInvariant, PTL DEF Spec

----------------------------------------------------------------------------
(* The audit log *)

\* The event a goroutine is about to append.
Logs(c, e) ==
  \/ pc[c] = "sendAudit" /\ e = <<"send", cur[c].key>>
  \/ pc[c] \in {"flushAudit", "deliverAudit"} /\ e = <<"deliver", cur[c].key>>
  \/ pc[c] = "ackAudit" /\ e = <<"ack", cur[c].key>>

\* The log only grows, by the events of goroutines that have come to audit.
LEMMA AuditEvolves ==
  ASSUME [Next]_vars
  PROVE  UNCHANGED audit \/ \E c \in Conns : \E e : Logs(c, e) /\ audit' = audit \cup {e}
<1>1. ASSUME NEW c \in Conns, Handshake(c) PROVE UNCHANGED audit
  BY <1>1 DEF Handshake, ReadRegister, RefuseRegister, Persist, BindName, RefuseName,
              CloseTakenOver, Requeue, AckHandshake, AckHandshakeFails
<1>2. ASSUME NEW c \in Conns, FlushPending(c) \/ RouteFrame(c)
      PROVE  UNCHANGED audit \/ \E e : Logs(c, e) /\ audit' = audit \cup {e}
  <2>1. CASE FlushAudit(c) \/ AckAudit(c) \/ SendAudit(c) \/ DeliverAudit(c)
    BY <2>1 DEF FlushAudit, AckAudit, SendAudit, DeliverAudit, AuditStep, AuditEvent, Logs
  <2>2. CASE ~(FlushAudit(c) \/ AckAudit(c) \/ SendAudit(c) \/ DeliverAudit(c))
    BY <1>2, <2>2
       DEF FlushPending, QueryPending, Flush, FlushFails, FlushDone, FlushMark, MarkWritten,
           RouteFrame, ReadAck, HandleAck, ReadPeers, HandlePeers, ReadEnvelope, ReadIgnored,
           RouteEnqueue, RouteSkip, RouteDone, GetRecipient, DeliverTo, DeliverMark
  <2> QED
    BY <2>1, <2>2
<1>3. ASSUME NEW c \in Conns, Leave(c) PROVE UNCHANGED audit
  BY <1>3 DEF Leave, ReadError, CloseNormal, RemoveName
<1>4. ASSUME NEW c \in Conns, PeerStep(c) \/ Drop(c) PROVE UNCHANGED audit
  BY <1>4 DEF PeerStep, Drop, Dial, Connected, ConnectFails, Send, Recv, RecvPeers, Hangup
<1>5. CASE Crash \/ Rest \/ UNCHANGED vars
  BY <1>5 DEF Crash, Rest, vars, brokerVars
<1> QED
  BY <1>1, <1>2, <1>3, <1>4, <1>5 DEF Next, BrokerStep, Serve

\* The audit log claims nothing that did not happen: rows, writes and acks are never
\* undone, and a goroutine comes to audit one only after it is done.
THEOREM AuditIsTruthful == Spec => []AuditTruthful
<1>1. Init => AuditTruthful
  BY DEF Init, BrokerInit, AuditTruthful
<1>2. TypeOK /\ TypeOK' /\ WrittenInv /\ FramesInv /\ AuditTruthful /\ [Next]_vars
        => AuditTruthful'
  <2> SUFFICES ASSUME TypeOK, TypeOK', WrittenInv, FramesInv, AuditTruthful, [Next]_vars,
                      NEW k \in RowIds
               PROVE  /\ <<"send", k>> \in audit' => Stored(k)'
                      /\ <<"deliver", k>> \in audit' => \E c \in Conns : WrittenTo(k, c)'
                      /\ <<"ack", k>> \in audit' =>
                           Unprompted(k) \/ (Stored(k)' /\ ~Unacked(k)')
    BY UnpromptedFixed DEF AuditTruthful
  <2>1. Settles(k) <=> Stored(k) /\ ~Unacked(k)
    BY DEF Settles, Stored, Unacked, TypeOK, StoreTypeOK, Rows, Bit
  <2>2. Settles(k)' => Stored(k)' /\ ~Unacked(k)'
    BY DEF Settles, Unacked
  <2>3. Stored(k) => Stored(k)'
    BY RowsStay DEF StoredFor
  <2>4. /\ Settles(k) => Settles(k)'
        /\ \A c \in Conns : WrittenTo(k, c) => WrittenTo(k, c)'
    BY AckedStays, WrittenStays
  <2>5. ASSUME <<"send", k>> \in audit' PROVE Stored(k)
    <3>1. CASE <<"send", k>> \in audit
      BY <3>1 DEF AuditTruthful
    <3>2. ASSUME NEW c \in Conns, Logs(c, <<"send", k>>) PROVE Stored(k)
      BY <3>2 DEF Logs, WrittenInv, InHand, StoredFor
    <3> QED
      BY <2>5, <3>1, <3>2, AuditEvolves
  <2>6. ASSUME <<"deliver", k>> \in audit' PROVE \E c \in Conns : WrittenTo(k, c)
    <3>1. CASE <<"deliver", k>> \in audit
      BY <3>1 DEF AuditTruthful
    <3>2. ASSUME NEW c \in Conns, Logs(c, <<"deliver", k>>)
          PROVE  \E d \in Conns : WrittenTo(k, d)
      <4>1. dst[c] \in Conns
        BY DEF TypeOK, BrokerTypeOK
      <4> QED
        BY <3>2, <4>1 DEF Logs, FramesInv, Knows
    <3> QED
      BY <2>6, <3>1, <3>2, AuditEvolves
  <2>7. ASSUME <<"ack", k>> \in audit', ~Unprompted(k) PROVE Settles(k)
    <3>1. CASE <<"ack", k>> \in audit
      BY <2>1, <2>7, <3>1 DEF AuditTruthful
    <3>2. ASSUME NEW c \in Conns, Logs(c, <<"ack", k>>) PROVE Settles(k)
      BY <2>7, <3>2 DEF Logs, FramesInv, Knows
    <3> QED
      BY <2>7, <3>1, <3>2, AuditEvolves
  <2> QED
    BY <2>2, <2>3, <2>4, <2>5, <2>6, <2>7
<1> QED
  BY <1>1, <1>2, TypeCorrect, WrittenInvariant, FramesInvariant, PTL DEF Spec

\* What is worth an audit event has happened.
Happened(e) ==
  \E k \in DOMAIN messages :
    \/ e = <<"send", k>>
    \/ e = <<"deliver", k>> /\ messages[k].delivered = 1
    \/ e = <<"ack", k>> /\ messages[k].acked = 1

\* Only these actions touch the rows.
LEMMA RowActions ==
  ASSUME [Next]_vars
  PROVE  \/ UNCHANGED messages
         \/ \E c \in Conns : Requeue(c) \/ RouteEnqueue(c) \/ FlushMark(c) \/ DeliverMark(c)
                             \/ HandleAck(c)
<1>1. ASSUME NEW c \in Conns, Handshake(c), ~Requeue(c) PROVE UNCHANGED messages
  BY <1>1 DEF Handshake, ReadRegister, RefuseRegister, Persist, BindName, RefuseName,
              CloseTakenOver, AckHandshake, AckHandshakeFails, storeVars, Register
<1>2. ASSUME NEW c \in Conns, FlushPending(c), ~FlushMark(c) PROVE UNCHANGED messages
  BY <1>2 DEF FlushPending, QueryPending, Flush, FlushFails, FlushDone, FlushAudit, AuditStep,
              AuditEvent, storeVars
<1>3. ASSUME NEW c \in Conns, RouteFrame(c), ~RouteEnqueue(c), ~DeliverMark(c), ~HandleAck(c)
      PROVE  UNCHANGED messages
  BY <1>3 DEF RouteFrame, ReadAck, AckAudit, ReadPeers, HandlePeers, ReadEnvelope,
              ReadIgnored, RouteSkip, RouteDone, SendAudit, GetRecipient, DeliverTo,
              DeliverAudit, AuditStep, AuditEvent, storeVars
<1>4. ASSUME NEW c \in Conns, Leave(c) \/ PeerStep(c) \/ Drop(c) PROVE UNCHANGED messages
  BY <1>4 DEF Leave, ReadError, CloseNormal, RemoveName, PeerStep, Drop, Dial, Connected,
              ConnectFails, Send, Recv, RecvPeers, Hangup, storeVars
<1>5. CASE Crash \/ Rest \/ UNCHANGED vars
  BY <1>5 DEF Crash, Rest, vars, brokerVars, storeVars
<1> QED
  BY <1>1, <1>2, <1>3, <1>4, <1>5 DEF Next, BrokerStep, Serve

\* What happens leaves its goroutine about to audit it, unless the store fails.
LEMMA HappensThenLogs ==
  ASSUME TypeOK, TypeOK', [Next]_vars, faults' = faults, NEW e, Happened(e)', ~Happened(e)
  PROVE  \E c \in Conns : Logs(c, e)'
<1> USE DEF Goto
<1>0. BrokerTypeOK /\ StoreTypeOK /\ faults \in Nat
  BY DEF TypeOK, BrokerTypeOK
<1>1. messages' # messages
  BY DEF Happened
<1>2. ~Fault
  BY <1>0 DEF Fault
<1>3. ASSUME NEW c \in Conns PROVE ~Requeue(c)
  <2> SUFFICES ASSUME Requeue(c) PROVE FALSE
    OBVIOUS
  <2>1. RequeueUnacked(Name(c))
    BY <1>2 DEF Requeue
  <2>2. DOMAIN messages' = DOMAIN messages
    BY <2>1 DEF RequeueUnacked
  <2>3. ASSUME NEW q \in DOMAIN messages
        PROVE  /\ messages'[q].delivered = 1 => messages[q].delivered = 1
               /\ messages'[q].acked = messages[q].acked
    BY <1>0, <2>1 DEF RequeueUnacked, StoreTypeOK, Rows
  <2> QED
    BY <2>2, <2>3 DEF Happened
<1>4. ASSUME NEW c \in Conns, RouteEnqueue(c) PROVE Logs(c, e)'
  <2>1. PICK j \in todo[c] : Enqueue(j.key, Name(c), j.to) /\ cur' = [cur EXCEPT ![c] = j]
    BY <1>4 DEF RouteEnqueue
  <2>2. pc'[c] = "sendAudit" /\ cur'[c] = j
    BY <1>0, <1>4, <2>1 DEF RouteEnqueue, BrokerTypeOK
  <2>3. e = <<"send", j.key>>
    BY <2>1 DEF Enqueue, Happened
  <2> QED
    BY <2>2, <2>3 DEF Logs
<1>5. ASSUME NEW c \in Conns, FlushMark(c) \/ DeliverMark(c) PROVE Logs(c, e)'
  <2>1. MarkDelivered(cur[c].key) /\ pc'[c] \in {"flushAudit", "deliverAudit"} /\ UNCHANGED cur
    BY <1>0, <1>2, <1>5 DEF FlushMark, DeliverMark, MarkWritten, BrokerTypeOK
  <2>2. DOMAIN messages' = DOMAIN messages
    BY <2>1 DEF MarkDelivered
  <2>3. ASSUME NEW q \in DOMAIN messages, messages'[q].acked = 1 PROVE messages[q].acked = 1
    <3> SUFFICES ASSUME messages[q].acked # 1 PROVE FALSE
      OBVIOUS
    <3>1. Settles(q)' /\ ~Settles(q)
      BY <2>2, <2>3 DEF Settles, Stored
    <3>2. PICK d \in Conns : pc[d] = "acking" /\ cur[d].key = q
      BY <3>1, AckedBecause
    <3>3. messages[q] \in Rows
      BY <1>0 DEF StoreTypeOK
    <3> DEFINE r == [messages[q] EXCEPT !.delivered = 1]
    <3>4. r.acked = messages[q].acked /\ r \in Rows /\ r.attempts = messages[q].attempts
      BY <3>3 DEF Rows, Bit
    <3> HIDE DEF r
    <3>5. [r EXCEPT !.attempts = messages[q].attempts + 1].acked = messages[q].acked
      BY <3>4 DEF Rows
    <3>6. messages'[q] \in {messages[q], [r EXCEPT !.attempts = messages[q].attempts + 1]}
      BY <2>1, <3>3 DEF MarkDelivered, r, Rows
    <3> QED
      BY <2>3, <3>5, <3>6
  <2>4. \A q \in DOMAIN messages : q # cur[c].key => messages'[q] = messages[q]
    BY <2>1 DEF MarkDelivered
  <2>5. e = <<"deliver", cur[c].key>>
    BY <2>2, <2>3, <2>4 DEF Happened
  <2> QED
    BY <2>1, <2>5 DEF Logs
<1>6. ASSUME NEW c \in Conns, HandleAck(c) PROVE Logs(c, e)'
  <2>1. MarkAcked(cur[c].key) /\ pc'[c] = "ackAudit" /\ UNCHANGED cur
    BY <1>0, <1>2, <1>6 DEF HandleAck, BrokerTypeOK
  <2>2. DOMAIN messages' = DOMAIN messages
    BY <2>1 DEF MarkAcked
  <2>3. ASSUME NEW q \in DOMAIN messages
        PROVE  /\ messages'[q].delivered = messages[q].delivered
               /\ q # cur[c].key => messages'[q] = messages[q]
    BY <1>0, <2>1 DEF MarkAcked, StoreTypeOK, Rows
  <2>4. e = <<"ack", cur[c].key>>
    BY <2>2, <2>3 DEF Happened
  <2> QED
    BY <2>1, <2>4 DEF Logs
<1> QED
  BY <1>1, <1>3, <1>4, <1>5, <1>6, RowActions

\* A goroutine about to audit does, unless the append fails or the broker crashes.
LEMMA LogsGetsDone ==
  ASSUME TypeOK, [Next]_vars, faults' = faults, crashes' = crashes,
         NEW d \in Conns, NEW e, Logs(d, e)
  PROVE  Logs(d, e)' \/ e \in audit'
<1> USE DEF Goto
<1>0. BrokerTypeOK /\ ~Fault /\ crashes \in Nat
  BY DEF TypeOK, BrokerTypeOK, Fault
<1>1. pc[d] \in {"sendAudit", "flushAudit", "deliverAudit", "ackAudit"}
  BY DEF Logs
<1>2. ASSUME pc'[d] = pc[d], cur'[d] = cur[d] PROVE Logs(d, e)'
  BY <1>2 DEF Logs
<1>3. ASSUME NEW c \in Conns, Serve(c) PROVE Logs(d, e)' \/ e \in audit'
  <2>1. CASE c # d
    BY <1>2, <1>3, <2>1, OwnStep
  <2>2. CASE c = d
    <3>1. FlushAudit(d) \/ AckAudit(d) \/ SendAudit(d) \/ DeliverAudit(d)
      <4>1. ~Handshake(d) /\ ~Leave(d)
        BY <1>1 DEF Handshake, ReadRegister, RefuseRegister, Persist, BindName, RefuseName,
                    CloseTakenOver, Requeue, AckHandshake, AckHandshakeFails,
                    Leave, ReadError, CloseNormal, RemoveName
      <4>2. FlushPending(d) => FlushAudit(d)
        BY <1>1 DEF FlushPending, QueryPending, Flush, FlushFails, FlushDone, FlushMark,
                    MarkWritten
      <4>3. RouteFrame(d) => AckAudit(d) \/ SendAudit(d) \/ DeliverAudit(d)
        BY <1>1 DEF RouteFrame, ReadAck, HandleAck, ReadPeers, HandlePeers, ReadEnvelope,
                    ReadIgnored, RouteEnqueue, RouteSkip, RouteDone, GetRecipient, DeliverTo,
                    DeliverMark, MarkWritten
      <4> QED
        BY <1>3, <2>2, <4>1, <4>2, <4>3 DEF Serve
    <3> QED
      BY <1>0, <3>1 DEF FlushAudit, AckAudit, SendAudit, DeliverAudit, AuditStep, AuditEvent, Logs
  <2> QED
    BY <2>1, <2>2
<1>4. ASSUME NEW c \in Conns, PeerStep(c) \/ Drop(c) PROVE pc'[d] = pc[d] /\ cur'[d] = cur[d]
  BY <1>0, <1>1, <1>4
     DEF BrokerTypeOK, PeerStep, Drop, Dial, Connected, ConnectFails, Send, Recv, RecvPeers,
         Hangup, procVars
<1>5. ~Crash
  BY <1>0 DEF Crash
<1>6. CASE Rest \/ UNCHANGED vars
  BY <1>2, <1>6 DEF Rest, vars, brokerVars, procVars
<1> QED
  BY <1>2, <1>3, <1>4, <1>5, <1>6 DEF Next, BrokerStep

\* Faults and crashes are only counted up.
LEMMA CountsUp ==
  ASSUME TypeOK, [Next]_vars
  PROVE  (faults' = 0 => faults' = faults) /\ (crashes' = 0 => crashes' = crashes)
<1>0. faults \in Nat /\ crashes \in Nat
  BY DEF TypeOK, BrokerTypeOK
<1>1. faults' = faults \/ Fault
  <2>1. ASSUME NEW c \in Conns, Handshake(c) PROVE faults' = faults \/ Fault
    BY <2>1 DEF Handshake, ReadRegister, RefuseRegister, Persist, BindName, RefuseName,
                CloseTakenOver, Requeue, AckHandshake, AckHandshakeFails
  <2>2. ASSUME NEW c \in Conns, FlushPending(c) PROVE faults' = faults \/ Fault
    BY <2>2 DEF FlushPending, QueryPending, Flush, FlushFails, FlushDone, FlushMark,
                FlushAudit, MarkWritten, AuditStep, AuditEvent
  <2>3. ASSUME NEW c \in Conns, RouteFrame(c) PROVE faults' = faults \/ Fault
    BY <2>3 DEF RouteFrame, ReadAck, HandleAck, AckAudit, ReadPeers, HandlePeers, ReadEnvelope,
                ReadIgnored, RouteEnqueue, RouteSkip, RouteDone, SendAudit, GetRecipient,
                DeliverTo, DeliverMark, MarkWritten, DeliverAudit, AuditStep, AuditEvent
  <2>4. ASSUME NEW c \in Conns, Leave(c) \/ PeerStep(c) \/ Drop(c) PROVE faults' = faults
    BY <2>4 DEF Leave, ReadError, CloseNormal, RemoveName, PeerStep, Drop, Dial, Connected,
                ConnectFails, Send, Recv, RecvPeers, Hangup
  <2>5. CASE Crash \/ Rest \/ UNCHANGED vars
    BY <2>5 DEF Crash, Rest, vars, brokerVars
  <2> QED
    BY <2>1, <2>2, <2>3, <2>4, <2>5 DEF Next, BrokerStep, Serve
<1>2. crashes' = crashes \/ crashes' = crashes + 1
  BY DEF Next, BrokerStep, PeerStep, Dial, Connected, ConnectFails, Send, Recv, RecvPeers,
         Hangup, Drop, Crash, Rest, vars
<1> QED
  BY <1>0, <1>1, <1>2 DEF Fault

\* Without crashes and store errors the audit log misses nothing.
THEOREM AuditIsComplete == Spec => []AuditComplete
<1> DEFINE Told == (faults = 0 /\ crashes = 0) =>
                     \A e : Happened(e) => e \in audit \/ \E d \in Conns : Logs(d, e)
<1>1. Init => Told
  BY DEF Init, StoreInit, Happened
<1>2. TypeOK /\ TypeOK' /\ Told /\ [Next]_vars => Told'
  <2> SUFFICES ASSUME TypeOK, TypeOK', Told, [Next]_vars, faults' = 0, crashes' = 0,
                      NEW e, Happened(e)'
               PROVE  e \in audit' \/ \E d \in Conns : Logs(d, e)'
    OBVIOUS
  <2>1. faults' = faults /\ crashes' = crashes
    BY CountsUp
  <2>2. CASE ~Happened(e)
    BY <2>1, <2>2, HappensThenLogs
  <2>3. CASE Happened(e) /\ e \in audit
    BY <2>3, AuditEvolves
  <2>4. CASE Happened(e) /\ \E d \in Conns : Logs(d, e)
    BY <2>1, <2>4, LogsGetsDone
  <2> QED
    BY <2>1, <2>2, <2>3, <2>4
<1>3. TypeOK /\ Told => AuditComplete
  <2> SUFFICES ASSUME TypeOK, Told, faults = 0, crashes = 0, NEW k \in DOMAIN messages
               PROVE  /\ \/ <<"send", k>> \in audit
                         \/ \E d \in Conns : pc[d] = "sendAudit" /\ cur[d].key = k
                      /\ messages[k].delivered = 1 =>
                           \/ <<"deliver", k>> \in audit
                           \/ \E d \in Conns : /\ pc[d] \in {"flushAudit", "deliverAudit"}
                                               /\ cur[d].key = k
                      /\ ~Unacked(k) =>
                           \/ <<"ack", k>> \in audit
                           \/ \E d \in Conns : pc[d] = "ackAudit" /\ cur[d].key = k
    BY DEF AuditComplete
  <2>1. Happened(<<"send", k>>)
    BY DEF Happened
  <2>2. messages[k].delivered = 1 => Happened(<<"deliver", k>>)
    BY DEF Happened
  <2>3. ~Unacked(k) => Happened(<<"ack", k>>)
    BY DEF Happened, Unacked, TypeOK, StoreTypeOK, Rows, Bit
  <2> QED
    BY <2>1, <2>2, <2>3 DEF Logs
<1> HIDE DEF Told
<1> QED
  BY <1>1, <1>2, <1>3, TypeCorrect, PTL DEF Spec

----------------------------------------------------------------------------
(* The promise *)

\* What the promise calls received and settled.
ReceivedRows == {k \in DOMAIN messages :
                   \E c \in Conns : Name(c) = messages[k].recipient /\ ReadFrom(k, c)}
SettledRows == {k \in DOMAIN messages : messages[k].acked = 1 /\ ~Unprompted(k)}

\* No step changes both the rows and the streams.
LEMMA RowsOrStreams ==
  ASSUME [Next]_vars PROVE UNCHANGED messages \/ UNCHANGED <<out, seen>>
<1>1. ASSUME NEW c \in Conns, Handshake(c)
      PROVE  UNCHANGED messages \/ UNCHANGED <<out, seen>>
  BY <1>1 DEF Handshake, ReadRegister, RefuseRegister, Persist, BindName, RefuseName,
              CloseTakenOver, Requeue, AckHandshake, AckHandshakeFails, storeVars, linkVars
<1>2. ASSUME NEW c \in Conns, FlushPending(c)
      PROVE  UNCHANGED messages \/ UNCHANGED <<out, seen>>
  BY <1>2 DEF FlushPending, QueryPending, Flush, FlushFails, FlushDone, FlushMark,
              FlushAudit, MarkWritten, AuditStep, AuditEvent, storeVars, linkVars
<1>3. ASSUME NEW c \in Conns, RouteFrame(c)
      PROVE  UNCHANGED messages \/ UNCHANGED <<out, seen>>
  BY <1>3 DEF RouteFrame, ReadAck, HandleAck, AckAudit, ReadPeers, HandlePeers, ReadEnvelope,
              ReadIgnored, RouteEnqueue, RouteSkip, RouteDone, SendAudit, GetRecipient,
              DeliverTo, DeliverMark, MarkWritten, DeliverAudit, AuditStep, AuditEvent,
              storeVars, linkVars
<1>4. ASSUME NEW c \in Conns, Leave(c) \/ PeerStep(c) \/ Drop(c) PROVE UNCHANGED messages
  BY <1>4 DEF Leave, ReadError, CloseNormal, RemoveName, PeerStep, Drop, Dial, Connected,
              ConnectFails, Send, Recv, RecvPeers, Hangup, storeVars
<1>5. CASE Crash \/ Rest \/ UNCHANGED vars
  BY <1>5 DEF Crash, Rest, vars, brokerVars, storeVars
<1> QED
  BY <1>1, <1>2, <1>3, <1>4, <1>5 DEF Next, BrokerStep, Serve

\* A step of the bus that changes the rows accepts one, settles one that was received,
\* or changes nothing the promise speaks of.
LEMMA RowStepKeeps ==
  ASSUME TypeOK, FramesInv, [Next]_vars, UNCHANGED <<out, seen>>
  PROVE  Promise!Next \/ UNCHANGED Promise!promise
<1>0. StoreTypeOK /\ StoreStep
  BY StoreEvolves DEF TypeOK
<1>1. \A k, c : ReadFrom(k, c)' <=> ReadFrom(k, c)
  BY DEF ReadFrom, Deliver
<1>2. ASSUME DOMAIN messages' = DOMAIN messages,
             \A q \in DOMAIN messages : messages'[q].recipient = messages[q].recipient
      PROVE  UNCHANGED ReceivedRows
  BY <1>1, <1>2 DEF ReceivedRows, Name
<1>3. ASSUME NEW k \in RowIds, NEW from \in Names, NEW to \in Names, Enqueue(k, from, to)
      PROVE  Promise!Next
  <2>1. k \notin DOMAIN messages /\ DOMAIN messages' = DOMAIN messages \cup {k}
    BY <1>3 DEF Enqueue, ErrUnknownPeer, ErrDuplicateID, Stored
  <2>2. (\A q \in DOMAIN messages : messages'[q] = messages[q]) /\ messages'[k].acked = 0
    BY <1>3, <2>1 DEF Enqueue
  <2>3. \A c \in Conns : ~ReadFrom(k, c)
    BY <2>1, ReadWasWritten DEF FramesInv, StoredFor, Stored
  <2>4. UNCHANGED ReceivedRows
    BY <1>1, <2>1, <2>2, <2>3 DEF ReceivedRows, Name
  <2>5. UNCHANGED SettledRows
    BY <2>1, <2>2, UnpromptedFixed DEF SettledRows
  <2>6. Promise!Accept(k)
    BY <2>1, <2>4, <2>5 DEF Promise!Accept, ReceivedRows, SettledRows
  <2> QED
    BY <1>3, <2>6 DEF Promise!Next
<1>4. ASSUME NEW c \in Conns, pc[c] = "acking", MarkAcked(cur[c].key), ~Unprompted(cur[c].key)
      PROVE  Promise!Next
  <2>0. PICK k \in RowIds : k = cur[c].key
    BY DEF TypeOK, BrokerTypeOK, Jobs
  <2>1. ReadFrom(k, c) /\ MarkAcked(k) /\ ~Unprompted(k)
    BY <1>4, <2>0 DEF FramesInv, Knows, MarkAcked
  <2>2. StoredFor(k, Name(c))
    BY <2>1, ReadWasWritten DEF FramesInv
  <2>3. k \in ReceivedRows
    BY <2>1, <2>2 DEF ReceivedRows, StoredFor, Stored
  <2>4. UNCHANGED ReceivedRows /\ DOMAIN messages' = DOMAIN messages
    BY <1>0, <1>2, <2>1, UpdateType
  <2>5. messages'[k].acked = 1 /\ \A q \in DOMAIN messages : q # k => messages'[q] = messages[q]
    BY <1>0, <2>1, <2>2 DEF MarkAcked, StoredFor, Stored, StoreTypeOK, Rows
  <2>6. SettledRows' = SettledRows \cup {k}
    BY <2>1, <2>2, <2>4, <2>5, UnpromptedFixed DEF SettledRows, StoredFor, Stored
  <2>7. Promise!Settle(k)
    BY <2>3, <2>4, <2>6 DEF Promise!Settle, ReceivedRows, SettledRows
  <2> QED
    BY <2>7 DEF Promise!Next
<1>5. ASSUME DOMAIN messages' = DOMAIN messages,
             \A q \in DOMAIN messages : messages'[q].recipient = messages[q].recipient,
             \A q \in DOMAIN messages : Unprompted(q) \/ messages'[q].acked = messages[q].acked
      PROVE  UNCHANGED Promise!promise
  <2>1. UNCHANGED SettledRows
    BY <1>5, UnpromptedFixed DEF SettledRows
  <2> QED
    BY <1>2, <1>5, <2>1 DEF Promise!promise, ReceivedRows, SettledRows
<1>6. CASE UNCHANGED messages
  BY <1>5, <1>6
<1>7. ASSUME NEW n \in Names, RequeueUnacked(n) PROVE UNCHANGED Promise!promise
  <2>1. /\ DOMAIN messages' = DOMAIN messages
        /\ \A q \in DOMAIN messages : messages'[q].recipient = messages[q].recipient
    BY <1>0, <1>7, UpdateType
  <2>2. \A q \in DOMAIN messages : messages'[q].acked = messages[q].acked
    BY <1>0, <1>7 DEF RequeueUnacked, StoreTypeOK, Rows
  <2> QED
    BY <1>5, <2>1, <2>2
<1>8. ASSUME NEW k, MarkDelivered(k) PROVE UNCHANGED Promise!promise
  <2>1. /\ DOMAIN messages' = DOMAIN messages /\ StoreTypeOK'
        /\ \A q \in DOMAIN messages : messages'[q].recipient = messages[q].recipient
    BY <1>0, <1>8, UpdateType
  <2>2. ASSUME NEW q \in DOMAIN messages PROVE messages'[q].acked = messages[q].acked
    <3>1. Settles(q) => Settles(q)'
      BY AckedStays
    <3>2. Settles(q)' => Settles(q)
      <4> SUFFICES ASSUME Settles(q)', ~Settles(q) PROVE FALSE
        OBVIOUS
      <4>1. messages[q] \in Rows
        BY <1>0 DEF StoreTypeOK
      <4> DEFINE d == [messages[q] EXCEPT !.delivered = 1]
      <4>2. d.acked = messages[q].acked /\ d \in Rows
        BY <4>1 DEF Rows, Bit
      <4> HIDE DEF d
      <4>3. [d EXCEPT !.attempts = messages[q].attempts + 1].acked = messages[q].acked
        BY <4>2 DEF Rows
      <4>4. messages'[q] \in {messages[q], [d EXCEPT !.attempts = messages[q].attempts + 1]}
        BY <1>8, <4>1 DEF MarkDelivered, d, Rows
      <4> QED
        BY <4>3, <4>4 DEF Settles, Stored
    <3>3. messages[q].acked \in Bit /\ messages'[q].acked \in Bit
      BY <1>0, <2>1 DEF StoreTypeOK, Rows
    <3> QED
      BY <2>1, <3>1, <3>2, <3>3 DEF Settles, Stored, Bit
  <2> QED
    BY <1>5, <2>1, <2>2
<1>9. ASSUME NEW c \in Conns, MarkAcked(cur[c].key), Unprompted(cur[c].key)
      PROVE  UNCHANGED Promise!promise
  <2>0. PICK k : k = cur[c].key
    OBVIOUS
  <2>1. /\ DOMAIN messages' = DOMAIN messages
        /\ \A q \in DOMAIN messages : messages'[q].recipient = messages[q].recipient
    BY <1>0, <1>9, <2>0, UpdateType
  <2>2. \A q \in DOMAIN messages : q # k => messages'[q] = messages[q]
    BY <1>9, <2>0 DEF MarkAcked
  <2> QED
    BY <1>5, <1>9, <2>0, <2>1, <2>2
<1> QED
  BY <1>0, <1>3, <1>4, <1>6, <1>7, <1>8, <1>9 DEF StoreStep, storeVars, Register

\* A step of the bus that leaves the rows alone is the receipt of a row, or changes
\* nothing the promise speaks of.
LEMMA StreamStepKeeps ==
  ASSUME TypeOK, FramesInv, [Next]_vars, UNCHANGED messages
  PROVE  Promise!Next \/ UNCHANGED Promise!promise
<1>0. UNCHANGED SettledRows
  BY UnpromptedFixed DEF SettledRows
<1>1. \A k : \A c \in Conns : ReadFrom(k, c) => ReadFrom(k, c)'
  BY ReadStays
<1>2. CASE \A k : \A c \in Conns : ReadFrom(k, c)' => ReadFrom(k, c)
  <2>1. UNCHANGED ReceivedRows
    BY <1>1, <1>2 DEF ReceivedRows, Name
  <2> QED
    BY <1>0, <2>1 DEF Promise!promise, ReceivedRows, SettledRows
<1>3. ASSUME NEW k, NEW c \in Conns, ReadFrom(k, c)', ~ReadFrom(k, c) PROVE Promise!Next
  <2>1. Recv(c) /\ NextFrame(c) = Deliver(k)
    BY <1>3, ReadBecause
  <2>2. \A q : \A d \in Conns : (ReadFrom(q, d)' /\ ~ReadFrom(q, d)) => q = k /\ d = c
    <3> SUFFICES ASSUME NEW q, NEW d \in Conns, ReadFrom(q, d)', ~ReadFrom(q, d)
                 PROVE  q = k /\ d = c
      OBVIOUS
    <3>1. Recv(d) /\ NextFrame(d) = Deliver(q)
      BY ReadBecause
    <3>2. seen \in [Conns -> Nat]
      BY DEF TypeOK, LinkTypeOK
    <3>3. d = c
      BY <2>1, <3>1, <3>2 DEF Recv, Advance
    <3> QED
      BY <2>1, <3>1, <3>3 DEF Deliver
  <2>3. k \in RowIds /\ WrittenTo(k, c)
    <3>1. out[c] \in Seq(OutFrames) /\ seen[c] \in Nat /\ seen[c] < Len(out[c])
      BY <2>1 DEF TypeOK, LinkTypeOK, Recv, Unread
    <3>2. NextFrame(c) \in OutFrames /\ seen[c] + 1 \in 1..Len(out[c])
      BY <3>1 DEF NextFrame
    <3>3. Deliver(k) \in [type : {"deliver"}, key : RowIds]
      BY <2>1, <3>2 DEF OutFrames, PeersFrame, Deliver
    <3> QED
      BY <2>1, <3>2, <3>3 DEF Deliver, NextFrame, WrittenTo
  <2>4. StoredFor(k, Name(c))
    BY <2>3 DEF FramesInv
  <2>5. ReceivedRows' = ReceivedRows \cup {k}
    BY <1>1, <1>3, <2>2, <2>4 DEF ReceivedRows, StoredFor, Stored, Name
  <2>6. Promise!Receive(k)
    BY <1>0, <2>4, <2>5 DEF Promise!Receive, ReceivedRows, SettledRows, StoredFor, Stored
  <2> QED
    BY <2>3, <2>6 DEF Promise!Next
<1> QED
  BY <1>2, <1>3

\* The bus implements the at-least-once promise.
THEOREM BusKeepsPromise == Spec => KeepsPromise
<1>1. Init => Promise!Init
  BY DEF Init, StoreInit, Promise!Init
<1>2. TypeOK /\ FramesInv /\ [Next]_vars => [Promise!Next]_(Promise!promise)
  BY RowsOrStreams, RowStepKeeps, StreamStepKeeps
<1> QED
  BY <1>1, <1>2, TypeCorrect, FramesInvariant, PTL DEF Spec, KeepsPromise, Promise!Spec
==============================================================================
