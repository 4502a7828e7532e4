---------------------------- MODULE BusProperties ----------------------------
(***************************************************************************)
(* The correctness properties of the bus.                                  *)
(***************************************************************************)
EXTENDS Bus

Unacked(k) == messages[k].acked = 0
RowOf(n) == {k \in DOMAIN messages : messages[k].recipient = n}

\* Both ends of c work.
Alive(c) == ws[c] = "open" /\ cl[c] # "closed"

\* A goroutine that has bound its connection and not begun to leave.
Owning == (Handshaking \ {"persist", "bind"}) \cup Flushing \cup Serving

\* c holds its name, and its goroutine has finished the handshake.
Settled(c) == BoundTo(Name(c), c) /\ pc[c] \in Serving

----------------------------------------------------------------------------
(* handshake ordering and the registry *)

\* The registry and the goroutines agree on who owns a name, through any
\* interleaving of takeovers, failed handshakes, exits and late Removes: a bound
\* connection is one whose goroutine is still running under that name and token,
\* and a goroutine past Bind still owns its name unless it is being displaced.
RegistryExact ==
  /\ \A n \in Names : Bound(n) =>
       LET c == registry[n].conn
       IN  /\ Name(c) = n /\ Claim[c].token = registry[n].token
           /\ pc[c] \in Owning \cup Leaving
  /\ \A c \in Conns : pc[c] \in Owning =>
       \/ BoundTo(Name(c), c)
       \/ ws[c] = "closed"
       \/ \E d \in Conns : pc[d] = "takeover" /\ dst[d] = c

\* Every name a broadcast can snapshot, and every name still in a fan-out list,
\* has a peer row, so Enqueue never drops a broadcast copy as ErrUnknownPeer:
\* handshake persists the peer before it binds the name.
FanOutKnown ==
  /\ \A n \in Names : Bound(n) => n \in peers
  /\ \A c \in Conns : pc[c] \in Routing =>
       \A j \in todo[c] : j.key[2] # Direct => j.to \in peers

----------------------------------------------------------------------------
(* no message is left behind *)

\* A goroutine is about to push row k to connection c.
Carrying(d, k, c) ==
  /\ cur[d].key = k
  /\ pc[d] \in {"sendAudit", "get"} \/ (pc[d] = "write" /\ dst[d] = c)

\* The pending path has no gap: once the owner of a name serves on a working
\* connection, every row that was never marked delivered has been written to that
\* very connection or is on its way there.  The row may have been enqueued before,
\* during or after the owner's Bind and snapshot, and may be in the hands of a
\* goroutine that had looked up an older connection.
PendingReachesOwner ==
  faults = 0 =>
    \A c \in Conns : (Settled(c) /\ Alive(c)) =>
      \A k \in RowOf(Name(c)) : messages[k].attempts = 0 =>
        WrittenTo(k, c) \/ \E d \in Conns : Carrying(d, k, c)

\* delivered = 1 is never set for a row that was not handed to a socket of its
\* recipient: a crash or a failed write between the push and the mark must not
\* make the row look delivered.
DeliveredWasWritten ==
  \A k \in DOMAIN messages : messages[k].delivered = 1 =>
    \E c \in Conns : Name(c) = messages[k].recipient /\ WrittenTo(k, c)

\* An ack reaches the row it is for: whatever a peer has consumed on a working
\* connection is acked in the store, or its ack is on the way under the row's own
\* key.  A broadcast copy acked under the envelope's bare id would break this.
AckReachesRow ==
  faults = 0 =>
    \A c \in Conns : Alive(c) =>
      \A k \in RowIds : ReadFrom(k, c) =>
        /\ k \in DOMAIN messages
        /\ \/ ~Unacked(k)
           \/ pc[c] = "acking" /\ cur[c].key = k
           \/ \E i \in 1..Len(in[c]) : in[c][i] = Ack(k)

----------------------------------------------------------------------------
(* the audit log *)

\* Some peer acks key k of its own accord, read or not, stored or not: handleAck takes
\* such an ack, marks the row if there is one, and audits it "for traceability".
Unprompted(k) == \E c \in Conns : \E i \in 1..Len(Script[c]) : Script[c][i] = Ack(k)

\* The log claims nothing that did not happen, even when crashes and store errors
\* separate an event from its audit row.  An ack event means that the row is acked,
\* unless a peer sends acks of that key of its own accord: then the key may be unknown.
AuditTruthful ==
  \A k \in RowIds :
    /\ <<"send", k>> \in audit => Stored(k)
    /\ <<"deliver", k>> \in audit => \E c \in Conns : WrittenTo(k, c)
    /\ <<"ack", k>> \in audit => Unprompted(k) \/ (Stored(k) /\ ~Unacked(k))

\* Without crashes and store errors it misses nothing: each state change is logged
\* or its goroutine is about to log it.
AuditComplete ==
  (faults = 0 /\ crashes = 0) =>
    \A k \in DOMAIN messages :
      /\ \/ <<"send", k>> \in audit
         \/ \E d \in Conns : pc[d] = "sendAudit" /\ cur[d].key = k
      /\ messages[k].delivered = 1 =>
           \/ <<"deliver", k>> \in audit
           \/ \E d \in Conns : pc[d] \in {"flushAudit", "deliverAudit"} /\ cur[d].key = k
      /\ ~Unacked(k) =>
           \/ <<"ack", k>> \in audit
           \/ \E d \in Conns : pc[d] = "ackAudit" /\ cur[d].key = k

----------------------------------------------------------------------------
(* the promise *)

\* The bus implements the at-least-once promise: a row is accepted once, and is
\* settled (acked) only after the recipient has read it on one of its connections.
\* The promise is made for the rows no peer acks of its own accord: the broker takes
\* such an ack, from anyone, for the row's own.
Promise == INSTANCE AtLeastOnce WITH
  Copies <- RowIds,
  accepted <- DOMAIN messages,
  received <- {k \in DOMAIN messages :
                 \E c \in Conns : Name(c) = messages[k].recipient /\ ReadFrom(k, c)},
  settled <- {k \in DOMAIN messages : messages[k].acked = 1 /\ ~Unprompted(k)}

KeepsPromise == Promise!Spec

\* Sequence numbers order each sender's rows: they are below the sender's counter
\* and no two rows of a sender share one, whatever interleaving of the sender's
\* connections allocated them and however often the broker restarted.
SenderOrder ==
  \A k \in DOMAIN messages :
    /\ messages[k].seq < senderSeq[messages[k].sender]
    /\ \A q \in DOMAIN messages :
         (messages[q].sender = messages[k].sender /\ messages[q].seq = messages[k].seq) => q = k

\* No connection of n is there or on its way.
Offline(n) == \A c \in Conns : Name(c) = n => cl[c] = "closed" \/ Barred(c)

\* The race OwnerGetsAll is about: a goroutine d has marked row k, which it wrote to
\* another connection, after the new owner c requeued and before c took its snapshot.
MarkedLate(k) ==
  \E d, c \in Conns :
    /\ cur[d].key = k
    /\ \/ pc[d] = "deliverAudit" /\ dst[d] # c
       \/ pc[d] = "flushAudit" /\ d # c
    /\ Name(c) = cur[d].to
    /\ pc[c] \in {"ack", "query"}
    /\ messages[k].delivered = 1

\* The bus comes to owe nothing to a peer that is there: in the end every stored row is
\* acked, or its recipient has gone for good, also when the recipient's connection or the
\* broker dies between the push, the mark, the read and the ack, or the recipient takes
\* its own name over on a new connection.  Only the race that strands a row is excused.
EventuallySettled ==
  \/ <>[](\A k \in DOMAIN messages : Unacked(k) => Offline(messages[k].recipient))
  \/ <>(\E k \in RowIds : MarkedLate(k))

----------------------------------------------------------------------------
(* what the documentation says and the code does not keep *)

\* "RequeueUnacked + PendingFor together guarantee that a message enqueued or left
\* in-flight during a same-token takeover window [...] is delivered to the NEW
\* connection": when the new owner serves and no other goroutine is at work, every
\* unacked row of the name has been written to it.
OwnerGetsAll ==
  \A c \in Conns :
    (/\ Settled(c) /\ Alive(c)
     /\ \A d \in Conns : d # c => pc[d] \in {"free", "handshake", "serve", "done"}) =>
      \A k \in RowOf(Name(c)) : Unacked(k) => WrittenTo(k, c)

\* "Messages from a given sender are delivered in send order": on one connection a
\* row never comes after a row of the same sender with a higher seq, except as the
\* redelivery of a row that came before.
PerSenderFIFO ==
  \A c \in Conns : \A i, j \in 1..Len(out[c]) :
    (i < j /\ out[c][i] # PeersFrame /\ out[c][j] # PeersFrame) =>
      LET k == out[c][i].key
          q == out[c][j].key
      IN  messages[k].sender = messages[q].sender =>
            \/ messages[k].seq <= messages[q].seq
            \/ \E h \in 1..(i-1) : out[c][h] = Deliver(q)
==============================================================================
