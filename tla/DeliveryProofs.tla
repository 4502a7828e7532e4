--------------------------- MODULE DeliveryProofs ---------------------------
(***************************************************************************)
(* No message is left behind: what a peer has read is acked or its ack is  *)
(* under way, and what was never delivered has been written to the owner   *)
(* of its name or is under way there.  For any peers, connections, scripts *)
(* and crashes, as long as no store operation fails.                       *)
(***************************************************************************)
EXTENDS PromiseProofs, RegistryProofs

----------------------------------------------------------------------------
(* Connections that no goroutine has bound yet *)

\* A goroutine that has not come past Bind.
Unbound == {"free", "handshake", "persist", "bind"}

\* Nothing is written to a connection before its name is bound to it, and the
\* connection a goroutine has looked up is past that.
FreshInv ==
  /\ \A c \in Conns : pc[c] \in Unbound => out[c] = <<>>
  /\ \A d \in Conns : pc[d] = "write" => pc[dst[d]] \notin Unbound

\* A goroutine past Bind never comes back before it.
LEMMA BoundForGood ==
  ASSUME TypeOK, [Next]_vars, NEW c \in Conns, pc[c] \notin Unbound PROVE pc'[c] \notin Unbound
<1> USE DEF Goto, Unbound
<1>0. BrokerTypeOK
  BY DEF TypeOK
<1>1. ASSUME NEW d \in Conns, Serve(d) PROVE pc'[c] \notin Unbound
  <2>1. CASE d # c
    BY <1>1, <2>1, OwnStep
  <2>2. CASE d = c
    <3>1. CASE Handshake(c)
      BY <1>0, <3>1
         DEF BrokerTypeOK, Handshake, ReadRegister, RefuseRegister, Persist, BindName,
             RefuseName, CloseTakenOver, Requeue, AckHandshake, AckHandshakeFails
    <3>2. CASE FlushPending(c)
      BY <1>0, <3>2
         DEF BrokerTypeOK, FlushPending, QueryPending, Flush, FlushFails, FlushDone, FlushMark,
             FlushAudit, MarkWritten, AuditStep
    <3>3. CASE RouteFrame(c)
      BY <1>0, <3>3
         DEF BrokerTypeOK, RouteFrame, ReadAck, HandleAck, AckAudit, ReadPeers, HandlePeers,
             ReadEnvelope, ReadIgnored, procVars, RouteEnqueue, RouteSkip, RouteDone,
             SendAudit, GetRecipient, DeliverTo, DeliverMark, DeliverAudit, MarkWritten,
             AuditStep
    <3>4. CASE Leave(c)
      BY <1>0, <3>4 DEF BrokerTypeOK, Leave, ReadError, CloseNormal, RemoveName
    <3> QED
      BY <1>1, <2>2, <3>1, <3>2, <3>3, <3>4 DEF Serve
  <2> QED
    BY <2>1, <2>2
<1>2. ASSUME NEW d \in Conns, PeerStep(d) \/ Drop(d) PROVE pc'[c] \notin Unbound
  BY <1>0, <1>2
     DEF BrokerTypeOK, PeerStep, Drop, Dial, Connected, ConnectFails, Send, Recv, RecvPeers,
         Hangup, procVars
<1>3. CASE Crash \/ Rest \/ UNCHANGED vars
  BY <1>0, <1>3 DEF BrokerTypeOK, Crash, Rest, vars, brokerVars, procVars
<1> QED
  BY <1>1, <1>2, <1>3 DEF Next, BrokerStep

\* A goroutine holds a looked up connection because it did, or because it has just found
\* it in the registry.
LEMMA LookedUpBecause ==
  ASSUME TypeOK, [Next]_vars, NEW d \in Conns, pc'[d] = "write"
  PROVE  \/ pc[d] = "write" /\ dst'[d] = dst[d] /\ cur'[d] = cur[d]
         \/ /\ GetRecipient(d) /\ Bound(cur[d].to) /\ dst'[d] = registry[cur[d].to].conn
            /\ cur[d].to \in Names
<1> USE DEF Goto
<1>0. BrokerTypeOK /\ cur[d].to \in Names
  BY DEF TypeOK, BrokerTypeOK, Jobs
<1>1. ASSUME NEW c \in Conns, Serve(c), c # d
      PROVE  pc[d] = "write" /\ dst'[d] = dst[d] /\ cur'[d] = cur[d]
  BY <1>1, OwnStep
<1>2. CASE Serve(d)
  <2>1. ~Handshake(d)
    BY <1>0
       DEF BrokerTypeOK, Handshake, ReadRegister, RefuseRegister, Persist, BindName,
           RefuseName, CloseTakenOver, Requeue, AckHandshake, AckHandshakeFails
  <2>2. ~FlushPending(d)
    BY <1>0
       DEF BrokerTypeOK, FlushPending, QueryPending, Flush, FlushFails, FlushDone, FlushMark,
           FlushAudit, MarkWritten, AuditStep
  <2>3. ~Leave(d)
    BY <1>0 DEF BrokerTypeOK, Leave, ReadError, CloseNormal, RemoveName
  <2>4. RouteFrame(d) => GetRecipient(d)
    BY <1>0
       DEF BrokerTypeOK, RouteFrame, ReadAck, HandleAck, AckAudit, ReadPeers, HandlePeers,
           ReadEnvelope, ReadIgnored, procVars, RouteEnqueue, RouteSkip, RouteDone,
           SendAudit, DeliverTo, DeliverMark, DeliverAudit, MarkWritten, AuditStep
  <2>5. GetRecipient(d) => Bound(cur[d].to) /\ dst'[d] = registry[cur[d].to].conn
    BY <1>0 DEF BrokerTypeOK, GetRecipient
  <2> QED
    BY <1>0, <1>2, <2>1, <2>2, <2>3, <2>4, <2>5 DEF Serve
<1>3. ASSUME NEW c \in Conns, PeerStep(c) \/ Drop(c)
      PROVE  pc[d] = "write" /\ dst'[d] = dst[d] /\ cur'[d] = cur[d]
  BY <1>0, <1>3
     DEF BrokerTypeOK, PeerStep, Drop, Dial, Connected, ConnectFails, Send, Recv, RecvPeers,
         Hangup, procVars
<1>4. ~Crash
  BY DEF Crash
<1>5. CASE Rest \/ UNCHANGED vars
  BY <1>5 DEF Rest, vars, brokerVars, procVars
<1> QED
  BY <1>1, <1>2, <1>3, <1>4, <1>5 DEF Next, BrokerStep

\* FreshInv is inductive, since the registry holds only connections past Bind.
THEOREM FreshInvariant == Spec => []FreshInv
<1>1. Init => FreshInv
  BY DEF Init, LinkInit, BrokerInit, FreshInv
<1>2. TypeOK /\ RegistryExact /\ FreshInv /\ [Next]_vars => FreshInv'
  <2> SUFFICES ASSUME TypeOK, RegistryExact, FreshInv, [Next]_vars PROVE FreshInv'
    OBVIOUS
  <2>0. /\ pc \in [Conns -> Places] /\ dst \in [Conns -> Conns]
        /\ out \in [Conns -> Seq(OutFrames)] /\ registry \in [Names -> Bindings \cup {NoBinding}]
    BY DEF TypeOK, BrokerTypeOK, LinkTypeOK, RegistryTypeOK
  <2>1. ASSUME NEW c \in Conns, pc'[c] \in Unbound PROVE out'[c] = <<>>
    <3>1. pc[c] \in Unbound /\ out[c] = <<>>
      BY <2>1, BoundForGood DEF FreshInv
    <3>2. WriteStep
      BY WritesEvolve
    <3>3. ASSUME NEW d \in Conns, NEW f, Write(d, f), d # c PROVE out'[c] = out[c]
      BY <2>0, <3>3 DEF Write
    <3>4. \A d \in Conns : pc[d] \in {"ack", "peers", "flush"} => d # c
      BY <3>1 DEF Unbound
    <3>5. \A d \in Conns : pc[d] = "write" => dst[d] \in Conns /\ dst[d] # c
      BY <2>0, <3>1 DEF FreshInv
    <3> QED
      BY <3>1, <3>2, <3>3, <3>4, <3>5 DEF WriteStep
  <2>2. ASSUME NEW d \in Conns, pc'[d] = "write" PROVE pc'[dst'[d]] \notin Unbound
    <3>1. PICK e \in Conns : e = dst'[d] /\ pc[e] \notin Unbound
      <4>1. CASE pc[d] = "write" /\ dst'[d] = dst[d]
        BY <2>0, <4>1 DEF FreshInv
      <4>2. CASE cur[d].to \in Names /\ Bound(cur[d].to) /\ dst'[d] = registry[cur[d].to].conn
        <5>1. registry[cur[d].to].conn \in Conns
          BY <2>0, <4>2 DEF Bound, Bindings
        <5>2. pc[registry[cur[d].to].conn] \in Owning \cup Leaving
          BY <4>2 DEF RegistryExact
        <5> QED
          BY <4>2, <5>1, <5>2 DEF Owning, Handshaking, Flushing, Serving, Routing, Leaving, Unbound
      <4> QED
        BY <2>2, <4>1, <4>2, LookedUpBecause
    <3> QED
      BY <3>1, BoundForGood
  <2> QED
    BY <2>1, <2>2 DEF FreshInv, Unbound
<1> QED
  BY <1>1, <1>2, TypeCorrect, RegistryIsExact, PTL DEF Spec

----------------------------------------------------------------------------
(* The acks *)

\* A connection works because it did, or because the peer has just dialled it.
LEMMA AliveBecause ==
  ASSUME TypeOK, [Next]_vars, NEW c \in Conns, Alive(c)' PROVE Alive(c) \/ pc[c] = "free"
<1>0. /\ ws \in [Conns -> {"none", "open", "closed"}]
      /\ cl \in [Conns -> {"none", "connecting", "up", "closed"}]
  BY DEF TypeOK, LinkTypeOK
<1>1. ASSUME NEW d \in Conns, Serve(d) PROVE Alive(c)
  BY <1>0, <1>1, LinkEvolves DEF Alive, LinkStep, linkVars, Write, Close, Read
<1>2. ASSUME NEW d \in Conns, PeerStep(d) \/ Drop(d) PROVE Alive(c) \/ pc[c] = "free"
  BY <1>0, <1>2
     DEF Alive, PeerStep, Drop, Dial, Connected, ConnectFails, Send, Recv, RecvPeers, Hangup
<1>3. ~Crash
  BY <1>0 DEF Alive, Crash
<1>4. CASE Rest \/ UNCHANGED vars
  BY <1>4 DEF Alive, Rest, vars, brokerVars, linkVars
<1> QED
  BY <1>1, <1>2, <1>3, <1>4 DEF Next, BrokerStep

\* A goroutine that takes a frame off its connection is at one of the two places that
\* do, and an ack it takes in the serve loop is what it handles next.
LEMMA TakesBecause ==
  ASSUME TypeOK, NEW c \in Conns, NEW d \in Conns, Serve(d), in'[c] # in[c]
  PROVE  /\ c = d /\ Read(c)
         /\ pc[c] = "handshake" \/ (Head(in[c]).type = "ack" => ReadAck(c))
<1>0. in \in [Conns -> Seq(InFrames)]
  BY DEF TypeOK, LinkTypeOK
<1>1. ASSUME Read(d) PROVE c = d
  BY <1>0, <1>1 DEF Read
<1>2. CASE Handshake(d)
  BY <1>1, <1>2
     DEF Handshake, ReadRegister, RefuseRegister, Persist, BindName, RefuseName,
         CloseTakenOver, Requeue, AckHandshake, AckHandshakeFails, linkVars, Write, WriteFails,
         Close
<1>3. ~FlushPending(d)
  BY DEF FlushPending, QueryPending, Flush, FlushFails, FlushDone, FlushMark, FlushAudit,
         MarkWritten, AuditStep, AuditEvent, linkVars, Write, WriteFails
<1>4. CASE RouteFrame(d)
  <2>1. ReadAck(d) \/ ReadPeers(d) \/ ReadEnvelope(d) \/ ReadIgnored(d)
    BY <1>4
       DEF RouteFrame, HandleAck, AckAudit, HandlePeers, RouteEnqueue, RouteSkip, RouteDone,
           SendAudit, GetRecipient, DeliverTo, DeliverMark, DeliverAudit, MarkWritten,
           AuditStep, AuditEvent, linkVars, Write, WriteFails
  <2>2. Read(d)
    BY <2>1 DEF ReadAck, ReadPeers, ReadEnvelope, ReadIgnored
  <2>3. Head(in[d]).type = "ack" => ReadAck(d)
    BY <2>1 DEF ReadPeers, ReadEnvelope, ReadIgnored, PeersFrame
  <2> QED
    BY <1>1, <2>2, <2>3
<1>5. ~Leave(d)
  BY DEF Leave, ReadError, CloseNormal, RemoveName, linkVars, Close
<1> QED
  BY <1>2, <1>3, <1>4, <1>5 DEF Serve

\* An ack on its way to a bound connection stays there until the goroutine takes it to
\* handle it.
LEMMA AckStays ==
  ASSUME TypeOK, [Next]_vars, NEW c \in Conns, pc[c] \notin Unbound, NEW k, OnItsWay(k, c)
  PROVE  OnItsWay(k, c)' \/ (pc'[c] = "acking" /\ cur'[c].key = k)
<1>1. PICK i \in 1..Len(in[c]) : in[c][i] = Ack(k)
  BY DEF OnItsWay
<1>2. in \in [Conns -> Seq(InFrames)] /\ in[c] \in Seq(InFrames) /\ BrokerTypeOK
  BY DEF TypeOK, LinkTypeOK
<1>3. CASE in'[c] = in[c]
  BY <1>1, <1>3 DEF OnItsWay, Ack
<1>4. ASSUME NEW f, in'[c] = Append(in[c], f) PROVE OnItsWay(k, c)'
  <2>1. i \in 1..Len(in'[c]) /\ in'[c][i] = Ack(k)
    BY <1>1, <1>2, <1>4
  <2> QED
    BY <2>1 DEF OnItsWay, Ack
<1>5. ASSUME NEW d \in Conns, Serve(d), in'[c] # in[c]
      PROVE  OnItsWay(k, c)' \/ (pc'[c] = "acking" /\ cur'[c].key = k)
  <2>1. Read(c) /\ (Head(in[c]).type = "ack" => ReadAck(c))
    BY <1>5, TakesBecause DEF Unbound
  <2>2. in[c] # <<>> /\ in'[c] = Tail(in[c])
    BY <1>2, <2>1 DEF Read
  <2>3. CASE i = 1
    <3>1. Head(in[c]) = Ack(k) /\ ReadAck(c)
      BY <1>1, <1>2, <2>1, <2>2, <2>3 DEF Ack
    <3> QED
      BY <1>2, <3>1 DEF ReadAck, Goto, Ack, BrokerTypeOK
  <2>4. CASE i # 1
    <3>1. i - 1 \in 1..Len(in'[c]) /\ in'[c][i - 1] = Ack(k)
      BY <1>1, <1>2, <2>2, <2>4
    <3> QED
      BY <3>1 DEF OnItsWay, Ack
  <2> QED
    BY <2>3, <2>4
<1>6. ASSUME NEW d \in Conns, PeerStep(d) \/ Drop(d)
      PROVE  in'[c] = in[c] \/ \E f : in'[c] = Append(in[c], f)
  <2>1. CASE Dial(d)
    BY <1>2, <2>1 DEF Dial, Unbound
  <2>2. CASE Send(d)
    BY <1>2, <2>2 DEF Send
  <2>3. CASE Recv(d)
    BY <1>2, <2>3 DEF Recv
  <2> QED
    BY <1>6, <2>1, <2>2, <2>3
       DEF PeerStep, Drop, Connected, ConnectFails, RecvPeers, Hangup
<1>7. CASE Crash \/ Rest \/ UNCHANGED vars
  BY <1>3, <1>7 DEF Crash, Rest, vars, brokerVars, linkVars
<1> QED
  BY <1>3, <1>4, <1>5, <1>6, <1>7 DEF Next, BrokerStep

\* A goroutine with an ack in hand marks its row, unless the store fails or the broker
\* crashes, which closes the connection.
LEMMA AckGetsDone ==
  ASSUME TypeOK, [Next]_vars, faults' = faults, NEW c \in Conns, Alive(c)',
         pc[c] = "acking", NEW k \in DOMAIN messages, cur[c].key = k
  PROVE  Settles(k)' \/ (pc'[c] = "acking" /\ cur'[c] = cur[c])
<1>0. BrokerTypeOK /\ StoreTypeOK /\ ~Fault
  BY DEF TypeOK, BrokerTypeOK, Fault
<1>1. ASSUME NEW d \in Conns, Serve(d), d # c PROVE pc'[c] = "acking" /\ cur'[c] = cur[c]
  BY <1>1, OwnStep
<1>2. CASE Serve(c)
  <2>1. HandleAck(c)
    <3>1. ~Handshake(c) /\ ~Leave(c)
      BY DEF Handshake, ReadRegister, RefuseRegister, Persist, BindName, RefuseName,
             CloseTakenOver, Requeue, AckHandshake, AckHandshakeFails,
             Leave, ReadError, CloseNormal, RemoveName
    <3>2. ~FlushPending(c)
      BY DEF FlushPending, QueryPending, Flush, FlushFails, FlushDone, FlushMark, FlushAudit,
             MarkWritten, AuditStep
    <3>3. RouteFrame(c) => HandleAck(c)
      BY DEF RouteFrame, ReadAck, AckAudit, ReadPeers, HandlePeers, ReadEnvelope,
             ReadIgnored, RouteEnqueue, RouteSkip, RouteDone, SendAudit, GetRecipient,
             DeliverTo, DeliverMark, DeliverAudit, MarkWritten, AuditStep
    <3> QED
      BY <1>2, <3>1, <3>2, <3>3 DEF Serve
  <2>2. MarkAcked(k)
    BY <1>0, <2>1 DEF HandleAck
  <2> QED
    BY <1>0, <2>2 DEF MarkAcked, Settles, Stored, StoreTypeOK, Rows
<1>3. ASSUME NEW d \in Conns, PeerStep(d) \/ Drop(d)
      PROVE  pc'[c] = "acking" /\ cur'[c] = cur[c]
  BY <1>0, <1>3
     DEF BrokerTypeOK, PeerStep, Drop, Dial, Connected, ConnectFails, Send, Recv, RecvPeers,
         Hangup, procVars, Goto
<1>4. ~Crash
  BY DEF Alive, Crash
<1>5. CASE Rest \/ UNCHANGED vars
  BY <1>5 DEF Rest, vars, brokerVars, procVars
<1> QED
  BY <1>1, <1>2, <1>3, <1>4, <1>5 DEF Next, BrokerStep

\* AckReachesRow in terms of what the lemmas speak of.
AckInv ==
  faults = 0 =>
    \A c \in Conns : Alive(c) =>
      \A k \in RowIds : ReadFrom(k, c) =>
        \/ Settles(k)
        \/ pc[c] = "acking" /\ cur[c].key = k
        \/ OnItsWay(k, c)

\* Whatever a peer has consumed on a working connection is acked in the store, or its
\* ack is on the way under the row's own key, as long as no store operation fails.
THEOREM AckReachesItsRow == Spec => []AckReachesRow
<1>1. Init => AckInv
  BY DEF Init, LinkInit, AckInv, Alive
<1>2. TypeOK /\ FramesInv /\ FreshInv /\ AckInv /\ [Next]_vars => AckInv'
  <2> SUFFICES ASSUME TypeOK, FramesInv, FreshInv, AckInv, [Next]_vars, faults' = 0,
                      NEW c \in Conns, Alive(c)', NEW k \in RowIds, ReadFrom(k, c)'
               PROVE  \/ Settles(k)'
                      \/ pc'[c] = "acking" /\ cur'[c].key = k
                      \/ OnItsWay(k, c)'
    BY DEF AckInv
  <2>0. faults' = faults
    BY CountsUp
  <2>2. pc[c] \notin Unbound /\ Alive(c)
    <3>1. out[c] # <<>>
      <4>1. seen[c] \in Nat /\ out[c] \in Seq(OutFrames) /\ seen[c] <= Len(out[c])
        BY DEF TypeOK, LinkTypeOK
      <4>2. CASE ReadFrom(k, c)
        <5>1. PICK i \in 1..seen[c] : TRUE
          BY <4>2 DEF ReadFrom
        <5> QED
          BY <4>1, <5>1
      <4>3. CASE Recv(c)
        BY <4>1, <4>3 DEF Recv, Unread
      <4> QED
        BY <4>2, <4>3, ReadBecause
    <3> QED
      BY <3>1, AliveBecause DEF FreshInv, Unbound
  <2>3. CASE ~ReadFrom(k, c)
    <3>1. Recv(c) /\ NextFrame(c) = Deliver(k)
      BY <2>3, ReadBecause
    <3>2. in[c] \in Seq(InFrames) /\ in'[c] = Append(in[c], Ack(k))
      BY <2>2, <3>1 DEF Recv, Alive, Deliver, TypeOK, LinkTypeOK
    <3>3. Len(in[c]) + 1 \in 1..Len(in'[c]) /\ in'[c][Len(in[c]) + 1] = Ack(k)
      BY <3>2
    <3> QED
      BY <3>3 DEF OnItsWay, Ack
  <2>4. CASE ReadFrom(k, c)
    <3>1. Settles(k) \/ (pc[c] = "acking" /\ cur[c].key = k) \/ OnItsWay(k, c)
      BY <2>0, <2>2, <2>4 DEF AckInv
    <3>2. CASE Settles(k)
      BY <3>2, AckedStays
    <3>3. CASE pc[c] = "acking" /\ cur[c].key = k
      <4>1. k \in DOMAIN messages
        BY <2>4, ReadWasWritten DEF FramesInv, StoredFor, Stored
      <4> QED
        BY <2>0, <3>3, <4>1, AckGetsDone
    <3>4. CASE OnItsWay(k, c)
      BY <2>2, <3>4, AckStays
    <3> QED
      BY <3>1, <3>2, <3>3, <3>4
  <2> QED
    BY <2>3, <2>4
<1>3. TypeOK /\ FramesInv /\ AckInv => AckReachesRow
  <2> SUFFICES ASSUME TypeOK, FramesInv, AckInv, faults = 0, NEW c \in Conns, Alive(c),
                      NEW k \in RowIds, ReadFrom(k, c)
               PROVE  /\ k \in DOMAIN messages
                      /\ \/ ~Unacked(k)
                         \/ pc[c] = "acking" /\ cur[c].key = k
                         \/ \E i \in 1..Len(in[c]) : in[c][i] = Ack(k)
    BY DEF AckReachesRow
  <2>1. k \in DOMAIN messages
    BY ReadWasWritten DEF FramesInv, StoredFor, Stored
  <2>2. Settles(k) => ~Unacked(k)
    BY DEF Settles, Unacked
  <2> QED
    BY <2>1, <2>2 DEF AckInv, OnItsWay
<1> QED
  BY <1>1, <1>2, <1>3, TypeCorrect, FramesInvariant, FreshInvariant, PTL DEF Spec

----------------------------------------------------------------------------
(* The pending rows *)

\* Row k of the peer named n was never marked delivered.
Untried(k, n) == StoredFor(k, n) /\ messages[k].attempts = 0

\* A row that counts as delivered was marked so at least once.
TriedInv == \A k \in DOMAIN messages : messages[k].delivered = 1 => messages[k].attempts # 0

\* What marking does to the row it marks.
LEMMA MarkCounts ==
  ASSUME NEW r \in Rows
  PROVE  [r EXCEPT !.delivered = 1, !.attempts = @ + 1].attempts = r.attempts + 1
<1>0. r \in [sender : Names, recipient : Names, delivered : Bit, acked : Bit,
             attempts : Nat, seq : Nat]
  BY DEF Rows
<1> DEFINE d == [r EXCEPT !.delivered = 1]
<1>1. d.attempts = r.attempts /\ d \in [sender : Names, recipient : Names, delivered : Bit,
                                        acked : Bit, attempts : Nat, seq : Nat]
  BY <1>0 DEF Bit
<1> HIDE DEF d
<1>2. [d EXCEPT !.attempts = r.attempts + 1].attempts = r.attempts + 1
  BY <1>1
<1>3. [r EXCEPT !.delivered = 1, !.attempts = @ + 1] = [d EXCEPT !.attempts = r.attempts + 1]
  BY <1>0 DEF d
<1> QED
  BY <1>2, <1>3

\* No step lowers a row's count of attempts, and none marks a row without counting it.
LEMMA AttemptsGrow ==
  ASSUME TypeOK, [Next]_vars, NEW k \in DOMAIN messages
  PROVE  /\ messages'[k].attempts = 0 => messages[k].attempts = 0
         /\ messages'[k].delivered = 1 => messages[k].delivered = 1 \/ messages'[k].attempts # 0
<1> DEFINE Grows ==
      /\ messages'[k].attempts = 0 => messages[k].attempts = 0
      /\ messages'[k].delivered = 1 => messages[k].delivered = 1 \/ messages'[k].attempts # 0
<1>0. StoreTypeOK /\ StoreStep /\ messages[k] \in Rows /\ messages[k].attempts \in Nat
  BY StoreEvolves DEF TypeOK, StoreTypeOK, Rows
<1>1. ASSUME NEW n, RequeueUnacked(n) PROVE Grows
  <2> DEFINE r == [messages[k] EXCEPT !.delivered = 0]
  <2>1. messages'[k] \in {messages[k], r}
    BY <1>1 DEF RequeueUnacked
  <2>2. r.delivered = 0 /\ r.attempts = messages[k].attempts
    BY <1>0 DEF Rows
  <2> HIDE DEF r
  <2> QED
    BY <2>1, <2>2
<1>2. ASSUME NEW c \in Conns, MarkDelivered(cur[c].key) PROVE Grows
  <2> DEFINE r == [messages[k] EXCEPT !.delivered = 1, !.attempts = @ + 1]
  <2>1. messages'[k] \in {messages[k], r}
    BY <1>2 DEF MarkDelivered
  <2>2. r.attempts = messages[k].attempts + 1
    BY <1>0, MarkCounts
  <2> HIDE DEF r
  <2> QED
    BY <1>0, <2>1, <2>2
<1>3. ASSUME NEW c \in Conns, MarkAcked(cur[c].key) PROVE Grows
  <2> DEFINE r == [messages[k] EXCEPT !.acked = 1]
  <2>1. messages'[k] \in {messages[k], r}
    BY <1>3 DEF MarkAcked
  <2>2. r.delivered = messages[k].delivered /\ r.attempts = messages[k].attempts
    BY <1>0 DEF Rows
  <2> HIDE DEF r
  <2> QED
    BY <2>1, <2>2
<1>4. ASSUME NEW q \in RowIds, NEW from \in Names, NEW to \in Names, Enqueue(q, from, to)
      PROVE  Grows
  BY <1>4 DEF Enqueue, ErrUnknownPeer, ErrDuplicateID, Stored
<1>5. ASSUME UNCHANGED storeVars \/ \E n \in Names : Register(n) PROVE Grows
  BY <1>5 DEF storeVars, Register
<1> HIDE DEF Grows
<1>6. Grows
  BY <1>0, <1>1, <1>2, <1>3, <1>4, <1>5 DEF StoreStep
<1> QED
  BY <1>6 DEF Grows

\* A row is new because a goroutine has just enqueued it, with no attempts.
LEMMA RowBecause ==
  ASSUME TypeOK, [Next]_vars, NEW k \in DOMAIN messages', k \notin DOMAIN messages
  PROVE  /\ messages'[k].delivered = 0
         /\ \E d \in Conns : pc'[d] = "sendAudit" /\ cur'[d].key = k
<1>0. BrokerTypeOK /\ StoreTypeOK
  BY DEF TypeOK
<1>1. ASSUME NEW d \in Conns PROVE ~Requeue(d) /\ ~FlushMark(d) /\ ~DeliverMark(d) /\ ~HandleAck(d)
  <2>1. \A q : ~RequeueUnacked(q) /\ ~MarkDelivered(q) /\ ~MarkAcked(q)
    BY DEF RequeueUnacked, MarkDelivered, MarkAcked
  <2>2. ~UNCHANGED storeVars
    BY DEF storeVars
  <2> QED
    BY <2>1, <2>2 DEF Requeue, FlushMark, DeliverMark, HandleAck, MarkWritten
<1>2. PICK d \in Conns : RouteEnqueue(d)
  BY <1>1, RowActions
<1>3. PICK j \in todo[d] : Enqueue(j.key, Name(d), j.to) /\ cur' = [cur EXCEPT ![d] = j]
  BY <1>2 DEF RouteEnqueue
<1>4. j.key = k /\ messages'[k].delivered = 0
  BY <1>3 DEF Enqueue
<1>5. pc'[d] = "sendAudit" /\ cur'[d].key = k
  BY <1>0, <1>2, <1>3, <1>4 DEF RouteEnqueue, Goto, BrokerTypeOK
<1> QED
  BY <1>4, <1>5

\* TriedInv is inductive.
THEOREM TriedInvariant == Spec => []TriedInv
<1>1. Init => TriedInv
  BY DEF Init, StoreInit, TriedInv
<1>2. TypeOK /\ TriedInv /\ [Next]_vars => TriedInv'
  <2> SUFFICES ASSUME TypeOK, TriedInv, [Next]_vars, NEW k \in DOMAIN messages',
                      messages'[k].delivered = 1
               PROVE  messages'[k].attempts # 0
    BY DEF TriedInv
  <2>1. k \in DOMAIN messages
    BY RowBecause
  <2> QED
    BY <2>1, AttemptsGrow DEF TriedInv
<1> QED
  BY <1>1, <1>2, TypeCorrect, PTL DEF Spec

\* c holds its name and its goroutine flushes or serves.
Holds(c) == BoundTo(Name(c), c) /\ pc[c] \in Flushing \cup Serving

\* Row k has reached connection c, is in the hands of a goroutine that will push it
\* there, or is left in the flush snapshot of c.
Underway(k, c) ==
  \/ WrittenTo(k, c)
  \/ \E d \in Conns : Carrying(d, k, c)
  \/ pc[c] \in Flushing /\ \E j \in todo[c] : j.key = k

\* PendingReachesOwner from the snapshot on.
PendInv ==
  faults = 0 =>
    \A c \in Conns : (Holds(c) /\ Alive(c)) =>
      \A k \in RowIds : Untried(k, Name(c)) => Underway(k, c)

\* A connection owns its name because it did, or because it has just taken its snapshot.
LEMMA HoldsBecause ==
  ASSUME TypeOK, [Next]_vars, NEW c \in Conns, Holds(c)' PROVE Holds(c) \/ QueryPending(c)
<1> USE DEF Goto, Flushing, Serving, Routing
<1>0. BrokerTypeOK /\ Name(c) \in Names /\ Name(c)' = Name(c) /\ pc'[c] \in Flushing \cup Serving
  BY ClaimType DEF TypeOK, Holds, Name
<1>1. pc[c] \in Flushing \cup Serving \/ QueryPending(c)
  <2>1. ASSUME NEW d \in Conns, Serve(d), d # c PROVE pc[c] \in Flushing \cup Serving
    BY <1>0, <2>1, OwnStep
  <2>2. ~Handshake(c)
    BY <1>0
       DEF BrokerTypeOK, Handshake, ReadRegister, RefuseRegister, Persist, BindName,
           RefuseName, CloseTakenOver, Requeue, AckHandshake, AckHandshakeFails
  <2>3. FlushPending(c) => pc[c] \in Flushing \cup Serving \/ QueryPending(c)
    BY DEF FlushPending, Flush, FlushFails, FlushDone, FlushMark, FlushAudit, MarkWritten, AuditStep
  <2>4. RouteFrame(c) => pc[c] \in Flushing \cup Serving
    BY DEF RouteFrame, ReadAck, HandleAck, AckAudit, ReadPeers, HandlePeers,
           ReadEnvelope, ReadIgnored, RouteEnqueue, RouteSkip, RouteDone, SendAudit,
           GetRecipient, DeliverTo, DeliverMark, DeliverAudit, MarkWritten, AuditStep
  <2>5. ~Leave(c)
    BY <1>0 DEF BrokerTypeOK, Leave, ReadError, CloseNormal, RemoveName
  <2>6. ASSUME NEW d \in Conns, PeerStep(d) \/ Drop(d) PROVE pc[c] \in Flushing \cup Serving
    BY <1>0, <2>6
       DEF BrokerTypeOK, PeerStep, Drop, Dial, Connected, ConnectFails, Send, Recv, RecvPeers,
           Hangup, procVars
  <2>7. ~Crash
    BY <1>0 DEF Crash
  <2>8. CASE Rest \/ UNCHANGED vars
    BY <1>0, <2>8 DEF Rest, vars, brokerVars, procVars
  <2> QED
    BY <2>1, <2>2, <2>3, <2>4, <2>5, <2>6, <2>7, <2>8 DEF Next, BrokerStep, Serve
<1>2. pc[c] \in Flushing \cup Serving => BoundTo(Name(c), c)
  <2> SUFFICES ASSUME pc[c] \in Flushing \cup Serving PROVE BoundTo(Name(c), c)
    OBVIOUS
  <2>0. /\ registry \in [Names -> Bindings \cup {NoBinding}]
        /\ registry'[Name(c)] # NoBinding /\ registry'[Name(c)].conn = c
    BY <1>0 DEF TypeOK, RegistryTypeOK, Holds, BoundTo, Bound
  <2>1. RegistryStep
    BY RegistryEvolves
  <2>2. ASSUME NEW d \in Conns, pc[d] = "bind", Bind(Name(d), Claim[d].token, d)
        PROVE  registry'[Name(c)] = registry[Name(c)]
    <3>1. d # c
      BY <2>2
    <3>2. Name(d) = Name(c) => registry'[Name(c)].conn = d
      BY <1>0, <2>0, <2>2 DEF Bind
    <3> QED
      BY <2>0, <2>2, <3>1, <3>2 DEF Bind
  <2>3. ASSUME NEW d \in Conns, Remove(Name(d), d)
        PROVE  registry'[Name(c)] = registry[Name(c)]
    BY <1>0, <2>0, <2>3 DEF Remove
  <2>4. registry'[Name(c)] = registry[Name(c)]
    BY <1>0, <2>0, <2>1, <2>2, <2>3 DEF RegistryStep
  <2> QED
    BY <2>0, <2>4 DEF BoundTo, Bound
<1> QED
  BY <1>1, <1>2 DEF Holds

\* A row in the hands of a goroutine reaches the owner of its name: whoever looks the
\* owner up finds it, and a write to a working connection does not fail.
LEMMA CarriedStays ==
  ASSUME TypeOK, WrittenInv, [Next]_vars, NEW c \in Conns, Alive(c), Alive(c)',
         BoundTo(Name(c), c), NEW k \in RowIds, StoredFor(k, Name(c)),
         NEW d \in Conns, Carrying(d, k, c)
  PROVE  Carrying(d, k, c)' \/ WrittenTo(k, c)'
<1> USE DEF Goto
<1>0. BrokerTypeOK /\ InHand(d) /\ cur[d].key = k /\ pc[d] \in {"sendAudit", "get", "write"}
  BY DEF TypeOK, WrittenInv, Carrying
<1>1. cur[d].to = Name(c)
  BY <1>0 DEF InHand, StoredFor
<1>2. ASSUME pc'[d] = pc[d], cur'[d] = cur[d], dst'[d] = dst[d] PROVE Carrying(d, k, c)'
  BY <1>2 DEF Carrying
<1>3. ASSUME NEW e \in Conns, Serve(e), e # d PROVE Carrying(d, k, c)'
  BY <1>2, <1>3, OwnStep
<1>4. CASE Serve(d)
  <2>1. SendAudit(d) \/ GetRecipient(d) \/ DeliverTo(d)
    <3>1. ~Handshake(d) /\ ~Leave(d)
      BY <1>0 DEF Handshake, ReadRegister, RefuseRegister, Persist, BindName, RefuseName,
             CloseTakenOver, Requeue, AckHandshake, AckHandshakeFails,
             Leave, ReadError, CloseNormal, RemoveName
    <3>2. ~FlushPending(d)
      BY <1>0 DEF FlushPending, QueryPending, Flush, FlushFails, FlushDone, FlushMark,
             FlushAudit, MarkWritten, AuditStep
    <3>3. RouteFrame(d) => SendAudit(d) \/ GetRecipient(d) \/ DeliverTo(d)
      BY <1>0 DEF RouteFrame, ReadAck, HandleAck, AckAudit, ReadPeers, HandlePeers,
             ReadEnvelope, ReadIgnored, RouteEnqueue, RouteSkip, RouteDone, DeliverMark,
             DeliverAudit, MarkWritten, AuditStep
    <3> QED
      BY <1>4, <3>1, <3>2, <3>3 DEF Serve
  <2>2. CASE SendAudit(d)
    BY <1>0, <2>2 DEF SendAudit, AuditStep, BrokerTypeOK, Carrying
  <2>3. CASE GetRecipient(d)
    BY <1>0, <1>1, <2>3 DEF GetRecipient, BrokerTypeOK, Carrying, BoundTo
  <2>4. CASE DeliverTo(d)
    <3>1. dst[d] = c
      BY <2>4 DEF DeliverTo, Carrying
    <3>2. Write(c, Deliver(k))
      BY <1>0, <2>4, <3>1 DEF DeliverTo, WriteFails, Alive
    <3> QED
      BY <3>2, WriteWrites
  <2> QED
    BY <2>1, <2>2, <2>3, <2>4
<1>5. ASSUME NEW e \in Conns, PeerStep(e) \/ Drop(e) PROVE Carrying(d, k, c)'
  <2>1. pc'[d] = pc[d] /\ cur'[d] = cur[d] /\ dst'[d] = dst[d]
    BY <1>0, <1>5
       DEF BrokerTypeOK, PeerStep, Drop, Dial, Connected, ConnectFails, Send, Recv, RecvPeers,
           Hangup, procVars
  <2> QED
    BY <1>2, <2>1
<1>6. ~Crash
  BY DEF Alive, Crash
<1>7. CASE Rest \/ UNCHANGED vars
  BY <1>2, <1>7 DEF Rest, vars, brokerVars, procVars
<1> QED
  BY <1>3, <1>4, <1>5, <1>6, <1>7 DEF Next, BrokerStep

\* A row of the flush snapshot stays there until it is written: on a working connection
\* no write of the flush fails.
LEMMA SnapshotStays ==
  ASSUME TypeOK, [Next]_vars, NEW c \in Conns, Alive(c), Alive(c)',
         pc[c] \in Flushing, NEW j \in todo[c]
  PROVE  (pc'[c] \in Flushing /\ j \in todo'[c]) \/ WrittenTo(j.key, c)'
<1> USE DEF Goto, Flushing
<1>0. BrokerTypeOK
  BY DEF TypeOK
<1>1. ASSUME NEW e \in Conns, Serve(e), e # c PROVE pc'[c] \in Flushing /\ j \in todo'[c]
  BY <1>1, OwnStep
<1>2. CASE Serve(c)
  <2>1. Flush(c) \/ FlushMark(c) \/ FlushAudit(c)
    <3>1. ~Handshake(c) /\ ~Leave(c)
      BY DEF Handshake, ReadRegister, RefuseRegister, Persist, BindName, RefuseName,
             CloseTakenOver, Requeue, AckHandshake, AckHandshakeFails,
             Leave, ReadError, CloseNormal, RemoveName
    <3>2. FlushPending(c) => Flush(c) \/ FlushMark(c) \/ FlushAudit(c)
      BY DEF FlushPending, QueryPending, FlushFails, FlushDone, WriteFails, Alive
    <3>3. ~RouteFrame(c)
      BY DEF RouteFrame, ReadAck, HandleAck, AckAudit, ReadPeers, HandlePeers, ReadEnvelope,
             ReadIgnored, RouteEnqueue, RouteSkip, RouteDone, SendAudit, GetRecipient,
             DeliverTo, DeliverMark, DeliverAudit, MarkWritten, AuditStep
    <3> QED
      BY <1>2, <3>1, <3>2, <3>3 DEF Serve
  <2>2. CASE Flush(c)
    <3>1. PICK i \in todo[c] : /\ Write(c, Deliver(i.key))
                               /\ todo' = [todo EXCEPT ![c] = todo[c] \ {i}]
      BY <2>2 DEF Flush
    <3>2. WrittenTo(i.key, c)'
      BY <3>1, WriteWrites
    <3>3. i # j => j \in todo'[c]
      BY <1>0, <3>1 DEF BrokerTypeOK
    <3>4. pc'[c] = "flushMark"
      BY <1>0, <2>2 DEF Flush, BrokerTypeOK
    <3> QED
      BY <3>2, <3>3, <3>4
  <2>3. CASE FlushMark(c) \/ FlushAudit(c)
    BY <1>0, <2>3 DEF FlushMark, MarkWritten, FlushAudit, AuditStep, BrokerTypeOK
  <2> QED
    BY <2>1, <2>2, <2>3
<1>3. ASSUME NEW e \in Conns, PeerStep(e) \/ Drop(e) PROVE pc'[c] \in Flushing /\ j \in todo'[c]
  BY <1>0, <1>3
     DEF BrokerTypeOK, PeerStep, Drop, Dial, Connected, ConnectFails, Send, Recv, RecvPeers,
         Hangup, procVars
<1>4. ~Crash
  BY DEF Alive, Crash
<1>5. CASE Rest \/ UNCHANGED vars
  BY <1>5 DEF Rest, vars, brokerVars, procVars
<1> QED
  BY <1>1, <1>2, <1>3, <1>4, <1>5 DEF Next, BrokerStep

\* A row was untried before a step that leaves it so, or the step has enqueued it.
LEMMA UntriedBecause ==
  ASSUME TypeOK, [Next]_vars, NEW k, NEW n, Untried(k, n)', k \in DOMAIN messages
  PROVE  Untried(k, n)
<1>1. messages[k].attempts = 0
  BY AttemptsGrow DEF Untried
<1>2. StoredFor(k, messages[k].recipient)
  BY DEF StoredFor, Stored
<1>3. PICK m : m = messages[k].recipient
  OBVIOUS
<1>4. StoredFor(k, m)'
  BY <1>2, <1>3, RowsStay
<1> QED
  BY <1>1, <1>2, <1>3, <1>4 DEF Untried, StoredFor

\* The pending path has no gap: once the owner of a name serves on a working connection,
\* every row never marked delivered was written to it or is on its way there, as long as
\* no store operation fails.
THEOREM PendingReachesItsOwner == Spec => []PendingReachesOwner
<1>1. Init => PendInv
  BY DEF Init, LinkInit, PendInv, Alive
<1>2. TypeOK /\ TypeOK' /\ WrittenInv /\ TriedInv /\ PendInv /\ [Next]_vars => PendInv'
  <2> SUFFICES ASSUME TypeOK, TypeOK', WrittenInv, TriedInv, PendInv, [Next]_vars, faults' = 0,
                      NEW c \in Conns, Holds(c)', Alive(c)',
                      NEW k \in RowIds, Untried(k, Name(c))'
               PROVE  Underway(k, c)'
    BY DEF PendInv
  <2>0. faults = 0 /\ faults' = faults /\ Name(c)' = Name(c)
    BY CountsUp DEF Name
  <2>1. CASE k \notin DOMAIN messages
    <3>1. k \in DOMAIN messages'
      BY DEF Untried, StoredFor, Stored
    <3>2. PICK d \in Conns : pc'[d] = "sendAudit" /\ cur'[d].key = k
      BY <2>1, <3>1, RowBecause
    <3> QED
      BY <3>2 DEF Underway, Carrying
  <2>2. CASE k \in DOMAIN messages /\ QueryPending(c)
    <3>1. k \in PendingFor(Name(c))
      <4>1. Untried(k, Name(c))
        BY <2>0, <2>2, UntriedBecause
      <4>2. messages[k].delivered = 0
        BY <2>2, <4>1 DEF TriedInv, Untried, TypeOK, StoreTypeOK, Rows, Bit
      <4> QED
        BY <4>1, <4>2 DEF PendingFor, Untried, StoredFor, Stored
    <3>2. /\ todo'[c] = {[key |-> q, to |-> Name(c)] : q \in PendingFor(Name(c))}
          /\ pc'[c] = "flush"
      BY <2>0, <2>2 DEF QueryPending, Fault, Goto, TypeOK, BrokerTypeOK
    <3>3. [key |-> k, to |-> Name(c)] \in todo'[c]
      BY <3>1, <3>2
    <3> QED
      BY <3>2, <3>3 DEF Underway, Flushing
  <2>3. CASE k \in DOMAIN messages /\ Holds(c)
    <3>1. Alive(c)
      BY <2>3, AliveBecause DEF Holds, Flushing, Serving, Routing
    <3>2. Untried(k, Name(c))
      BY <2>0, <2>3, UntriedBecause
    <3>3. Underway(k, c)
      BY <2>0, <2>3, <3>1, <3>2 DEF PendInv
    <3>4. CASE WrittenTo(k, c)
      BY <3>4, WrittenStays DEF Underway
    <3>5. ASSUME NEW d \in Conns, Carrying(d, k, c) PROVE Underway(k, c)'
      BY <2>3, <3>1, <3>2, <3>5, CarriedStays DEF Underway, Holds, Untried
    <3>6. ASSUME NEW j \in todo[c], pc[c] \in Flushing, j.key = k PROVE Underway(k, c)'
      BY <3>1, <3>6, SnapshotStays DEF Underway
    <3> QED
      BY <3>3, <3>4, <3>5, <3>6 DEF Underway
  <2> QED
    BY <2>1, <2>2, <2>3, HoldsBecause
<1>3. TypeOK /\ PendInv => PendingReachesOwner
  <2> SUFFICES ASSUME TypeOK, PendInv, faults = 0, NEW c \in Conns, Settled(c), Alive(c),
                      NEW k \in RowOf(Name(c)), messages[k].attempts = 0
               PROVE  WrittenTo(k, c) \/ \E d \in Conns : Carrying(d, k, c)
    BY DEF PendingReachesOwner
  <2>1. Holds(c) /\ pc[c] \notin Flushing
    BY DEF Settled, Holds, Flushing, Serving, Routing
  <2>2. k \in RowIds /\ Untried(k, Name(c))
    BY DEF RowOf, Untried, StoredFor, Stored, TypeOK, StoreTypeOK
  <2> QED
    BY <2>1, <2>2 DEF PendInv, Underway
<1> QED
  BY <1>1, <1>2, <1>3, TypeCorrect, WrittenInvariant, TriedInvariant, PTL DEF Spec
=============================================================================
