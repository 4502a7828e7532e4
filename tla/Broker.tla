------------------------------- MODULE Broker -------------------------------
(***************************************************************************)
(* The broker (internal/broker): one goroutine per accepted WebSocket runs *)
(* handshake, flushPending and the serve loop with routeFrame under it.    *)
(* pc[c] is the place of connection c's goroutine between two calls that   *)
(* touch shared state: the store, the registry, a socket or the audit log. *)
(*                                                                         *)
(*   handshake  persist  bind  takeover  requeue  ack  query               *)
(*   flush -> flushMark -> flushAudit -> flush            (flushPending)   *)
(*   serve -> acking -> ackAudit | peers                  (routeFrame)     *)
(*   serve -> route -> sendAudit -> get -> write -> mark -> deliverAudit   *)
(*   closing -> remove -> done                            (the defers)     *)
(***************************************************************************)
EXTENDS Store, Registry, Link

CONSTANTS Claim,        \* the register frame each connection opens with
          ValidTokens,  \* the tokens auth.Valid accepts
          MaxFaults     \* bound: store and audit operations that may fail

ASSUME BrokerAssumption ==
  /\ Claim \in [Conns -> RegisterFrames]
  /\ ValidTokens \subseteq Tokens
  /\ MaxFaults \in Nat
  /\ Ids # {} /\ Names # {}

VARIABLES pc,       \* place of each connection's goroutine
          todo,     \* jobs left in its flush snapshot or fan-out list
          cur,      \* the job in hand
          dst,      \* the connection in hand: taken over, or found by Get
          audit,    \* events in the audit log (see module Audit for the chain)
          faults    \* failed store operations so far

procVars == <<pc, todo, cur, dst>>

\* One row to push to one recipient.
Jobs == [key : RowIds, to : Names]
AuditEvents == {"send", "deliver", "ack"} \X RowIds

Handshaking == {"persist", "bind", "takeover", "requeue", "ack", "query"}
Flushing == {"flush", "flushMark", "flushAudit"}
Routing == {"route", "sendAudit", "get", "write", "mark", "deliverAudit"}
Serving == {"serve", "acking", "ackAudit", "peers"} \cup Routing
Leaving == {"closing", "remove"}
Places == {"free", "handshake", "done"} \cup Handshaking \cup Flushing \cup Serving \cup Leaving

BrokerTypeOK ==
  /\ pc \in [Conns -> Places]
  /\ todo \in [Conns -> SUBSET Jobs]
  /\ cur \in [Conns -> Jobs]
  /\ dst \in [Conns -> Conns]
  /\ audit \subseteq AuditEvents
  /\ faults \in 0..MaxFaults

BrokerInit ==
  /\ pc = [c \in Conns |-> "free"]
  /\ todo = [c \in Conns |-> {}]
  /\ cur = [c \in Conns |-> CHOOSE j \in Jobs : TRUE]
  /\ dst = [c \in Conns |-> c]
  /\ audit = {}
  /\ faults = 0

Name(c) == Claim[c].name
Goto(c, place) == pc' = [pc EXCEPT ![c] = place]

\* A store or audit call returned an error and changed nothing.
Fault == faults < MaxFaults /\ faults' = faults + 1

\* auditEvent: one append through the single Appender; a failure is only logged.
AuditEvent(kind, k) ==
  /\ \/ audit' = audit \cup {<<kind, k>>} /\ UNCHANGED faults
     \/ Fault /\ UNCHANGED audit
  /\ UNCHANGED <<storeVars, registry, linkVars>>

----------------------------------------------------------------------------
(* handshake *)

\* The first frame is a register that passes every check.
ReadRegister(c) ==
  /\ pc[c] = "handshake"
  /\ Read(c)
  /\ Claim[c].token \in ValidTokens
  /\ Goto(c, "persist")
  /\ UNCHANGED <<storeVars, registry, todo, cur, dst, audit, faults>>

\* No frame, or one that fails a check (a token not in ValidTokens stands for
\* every malformed register): the connection is closed and forgotten.
RefuseRegister(c) ==
  /\ pc[c] = "handshake"
  /\ ReadFails(c) \/ Claim[c].token \notin ValidTokens
  /\ Close(c)
  /\ Goto(c, "done")
  /\ UNCHANGED <<storeVars, registry, todo, cur, dst, audit, faults>>

\* Mutant: the name is bound before the peer row exists.
PersistNothing(c) ==
  /\ pc[c] = "persist"
  /\ Goto(c, "bind")
  /\ UNCHANGED <<storeVars, registry, linkVars, todo, cur, dst, audit, faults>>

\* store.Register comes before registry.Bind, so that a routable name always
\* has a peer row.
Persist(c) ==
  /\ pc[c] = "persist"
  /\ \/ /\ Register(Name(c)) /\ UNCHANGED <<linkVars, faults>>
        /\ Goto(c, "bind")
     \/ /\ Fault /\ Close(c) /\ UNCHANGED storeVars
        /\ Goto(c, "done")
  /\ UNCHANGED <<registry, todo, cur, dst, audit>>

\* registry.Bind; on a takeover the displaced connection is closed afterwards,
\* outside the registry's lock.
BindName(c) ==
  /\ pc[c] = "bind"
  /\ Bind(Name(c), Claim[c].token, c)
  /\ IF Bound(Name(c))
     THEN Goto(c, "takeover") /\ dst' = [dst EXCEPT ![c] = registry[Name(c)].conn]
     ELSE Goto(c, "requeue") /\ UNCHANGED dst
  /\ UNCHANGED <<storeVars, linkVars, todo, cur, audit, faults>>

RefuseName(c) ==
  /\ pc[c] = "bind"
  /\ ErrNameClaimed(Name(c), Claim[c].token)
  /\ Close(c)
  /\ Goto(c, "done")
  /\ UNCHANGED <<storeVars, registry, todo, cur, dst, audit, faults>>

CloseTakenOver(c) ==
  /\ pc[c] = "takeover"
  /\ Close(dst[c])
  /\ Goto(c, "requeue")
  /\ UNCHANGED <<storeVars, registry, todo, cur, dst, audit, faults>>

\* A failure to requeue is only logged.
Requeue(c) ==
  /\ pc[c] = "requeue"
  /\ \/ RequeueUnacked(Name(c)) /\ UNCHANGED faults
     \/ Fault /\ UNCHANGED storeVars
  /\ Goto(c, "ack")
  /\ UNCHANGED <<registry, linkVars, todo, cur, dst, audit>>

AckHandshake(c) ==
  /\ pc[c] = "ack"
  /\ Write(c, PeersFrame)
  /\ Goto(c, "query")
  /\ UNCHANGED <<storeVars, registry, todo, cur, dst, audit, faults>>

\* The name is unbound, then the socket closed (the Remove that follows
\* "closing" finds nothing left to unbind).
AckHandshakeFails(c) ==
  /\ pc[c] = "ack"
  /\ WriteFails(c)
  /\ Remove(Name(c), c)
  /\ Goto(c, "closing")
  /\ UNCHANGED <<storeVars, todo, cur, dst, audit, faults>>

----------------------------------------------------------------------------
(* flushPending *)

\* The snapshot; if the lookup fails nothing is flushed.
QueryPending(c) ==
  /\ pc[c] = "query"
  /\ \/ /\ todo' = [todo EXCEPT ![c] = {[key |-> k, to |-> Name(c)] : k \in PendingFor(Name(c))}]
        /\ Goto(c, "flush") /\ UNCHANGED faults
     \/ /\ Fault /\ Goto(c, "serve") /\ UNCHANGED todo
  /\ UNCHANGED <<storeVars, registry, linkVars, cur, dst, audit>>

\* Mutant: the delivery key of a flushed row is the envelope's own id.
FlushBareId(c) ==
  /\ pc[c] = "flush"
  /\ \E j \in todo[c] :
       /\ \A i \in todo[c] \ {j} : Before(j.key, i.key)
       /\ Write(c, Deliver(<<j.key[1], Direct>>))
       /\ cur' = [cur EXCEPT ![c] = j]
       /\ todo' = [todo EXCEPT ![c] = @ \ {j}]
  /\ Goto(c, "flushMark")
  /\ UNCHANGED <<storeVars, registry, dst, audit, faults>>

\* Write the next row of the snapshot, in store order.
Flush(c) ==
  /\ pc[c] = "flush"
  /\ \E j \in todo[c] :
       /\ \A i \in todo[c] \ {j} : Before(j.key, i.key)
       /\ Write(c, Deliver(j.key))
       /\ cur' = [cur EXCEPT ![c] = j]
       /\ todo' = [todo EXCEPT ![c] = @ \ {j}]
  /\ Goto(c, "flushMark")
  /\ UNCHANGED <<storeVars, registry, dst, audit, faults>>

\* The first failed write ends the flush; what is left stays pending.
FlushFails(c) ==
  /\ pc[c] = "flush"
  /\ todo[c] # {}
  /\ WriteFails(c)
  /\ todo' = [todo EXCEPT ![c] = {}]
  /\ Goto(c, "serve")
  /\ UNCHANGED <<storeVars, registry, cur, dst, audit, faults>>

FlushDone(c) ==
  /\ pc[c] = "flush"
  /\ todo[c] = {}
  /\ Goto(c, "serve")
  /\ UNCHANGED <<storeVars, registry, linkVars, todo, cur, dst, audit, faults>>

\* MarkDelivered after a successful write, in flushPending and in deliverTo; a
\* failure is only logged.
MarkWritten(c, here, next) ==
  /\ pc[c] = here
  /\ \/ MarkDelivered(cur[c].key) /\ UNCHANGED faults
     \/ Fault /\ UNCHANGED storeVars
  /\ Goto(c, next)
  /\ UNCHANGED <<registry, linkVars, todo, cur, dst, audit>>

AuditStep(c, kind, here, next) ==
  /\ pc[c] = here
  /\ AuditEvent(kind, cur[c].key)
  /\ Goto(c, next)
  /\ UNCHANGED <<todo, cur, dst>>

FlushMark(c) == MarkWritten(c, "flushMark", "flushAudit")
FlushAudit(c) == AuditStep(c, "deliver", "flushAudit", "flush")

----------------------------------------------------------------------------
(* serve and routeFrame *)

\* An ack names a row key; nothing ties it to the acking peer.
ReadAck(c) ==
  /\ pc[c] = "serve"
  /\ Read(c)
  /\ Head(in[c]).type = "ack"
  /\ cur' = [cur EXCEPT ![c] = [key |-> Head(in[c]).key, to |-> Name(c)]]
  /\ Goto(c, "acking")
  /\ UNCHANGED <<storeVars, registry, todo, dst, audit, faults>>

\* Mutant: a failed MarkAcked is audited like a good one.
HandleAckAlways(c) ==
  /\ pc[c] = "acking"
  /\ \/ MarkAcked(cur[c].key) /\ UNCHANGED faults
     \/ Fault /\ UNCHANGED storeVars
  /\ Goto(c, "ackAudit")
  /\ UNCHANGED <<registry, linkVars, todo, cur, dst, audit>>

\* A failed MarkAcked is logged and not audited.
HandleAck(c) ==
  /\ pc[c] = "acking"
  /\ \/ MarkAcked(cur[c].key) /\ Goto(c, "ackAudit") /\ UNCHANGED faults
     \/ Fault /\ Goto(c, "serve") /\ UNCHANGED storeVars
  /\ UNCHANGED <<registry, linkVars, todo, cur, dst, audit>>

AckAudit(c) == AuditStep(c, "ack", "ackAudit", "serve")

ReadPeers(c) ==
  /\ pc[c] = "serve"
  /\ Read(c)
  /\ Head(in[c]) = PeersFrame
  /\ Goto(c, "peers")
  /\ UNCHANGED <<storeVars, registry, todo, cur, dst, audit, faults>>

\* handlePeers: the reply, or a logged failure.
HandlePeers(c) ==
  /\ pc[c] = "peers"
  /\ Write(c, PeersFrame) \/ WriteFails(c)
  /\ Goto(c, "serve")
  /\ UNCHANGED <<storeVars, registry, todo, cur, dst, audit, faults>>

\* The jobs of an envelope: itself, or one copy per name bound at this moment
\* except the sender's.
JobsOf(from, e) ==
  IF e.to = Star
  THEN {[key |-> <<e.id, n>>, to |-> n] : n \in List \ {from}}
  ELSE {[key |-> <<e.id, Direct>>, to |-> e.to]}

\* routeEnvelope refuses an envelope whose kind and destination disagree.
Consistent(e) == (e.to = Star) <=> (e.kind = "broadcast")

ReadEnvelope(c) ==
  /\ pc[c] = "serve"
  /\ Read(c)
  /\ Head(in[c]).type = "env"
  /\ Consistent(Head(in[c]))
  /\ todo' = [todo EXCEPT ![c] = JobsOf(Name(c), Head(in[c]))]
  /\ Goto(c, "route")
  /\ UNCHANGED <<storeVars, registry, cur, dst, audit, faults>>

ReadIgnored(c) ==
  /\ pc[c] = "serve"
  /\ Read(c)
  /\ \/ Head(in[c]).type = "other"
     \/ Head(in[c]).type = "env" /\ ~Consistent(Head(in[c]))
  /\ UNCHANGED <<storeVars, registry, procVars, audit, faults>>

\* Mutant: an accepted copy goes out without its send event.
RouteEnqueueUnaudited(c) ==
  /\ pc[c] = "route"
  /\ \E j \in todo[c] :
       /\ \A i \in todo[c] \ {j} : j.to < i.to
       /\ Enqueue(j.key, Name(c), j.to)
       /\ cur' = [cur EXCEPT ![c] = j]
       /\ todo' = [todo EXCEPT ![c] = @ \ {j}]
  /\ Goto(c, "get")
  /\ UNCHANGED <<registry, linkVars, dst, audit, faults>>

\* Persist the next job before anything is pushed; List is sorted, so jobs go
\* in name order.
RouteEnqueue(c) ==
  /\ pc[c] = "route"
  /\ \E j \in todo[c] :
       /\ \A i \in todo[c] \ {j} : j.to < i.to
       /\ Enqueue(j.key, Name(c), j.to)
       /\ cur' = [cur EXCEPT ![c] = j]
       /\ todo' = [todo EXCEPT ![c] = @ \ {j}]
  /\ Goto(c, "sendAudit")
  /\ UNCHANGED <<registry, linkVars, dst, audit, faults>>

\* A duplicate id, an unknown recipient or a store error drops the job.
RouteSkip(c) ==
  /\ pc[c] = "route"
  /\ \E j \in todo[c] :
       /\ \A i \in todo[c] \ {j} : j.to < i.to
       /\ \/ ErrUnknownPeer(j.to) /\ UNCHANGED faults
          \/ ErrDuplicateID(j.key, j.to) /\ UNCHANGED faults
          \/ Fault
       /\ todo' = [todo EXCEPT ![c] = @ \ {j}]
  /\ UNCHANGED <<storeVars, registry, linkVars, pc, cur, dst, audit>>

RouteDone(c) ==
  /\ pc[c] = "route"
  /\ todo[c] = {}
  /\ Goto(c, "serve")
  /\ UNCHANGED <<storeVars, registry, linkVars, todo, cur, dst, audit, faults>>

SendAudit(c) == AuditStep(c, "send", "sendAudit", "get")

\* deliverTo: look the recipient up; offline leaves the row pending.
GetRecipient(c) ==
  /\ pc[c] = "get"
  /\ IF Bound(cur[c].to)
     THEN Goto(c, "write") /\ dst' = [dst EXCEPT ![c] = registry[cur[c].to].conn]
     ELSE Goto(c, "route") /\ UNCHANGED dst
  /\ UNCHANGED <<storeVars, registry, linkVars, todo, cur, audit, faults>>

\* Mutant: the error of the write is ignored.
DeliverToUnchecked(c) ==
  /\ pc[c] = "write"
  /\ Write(dst[c], Deliver(cur[c].key)) \/ WriteFails(dst[c])
  /\ Goto(c, "mark")
  /\ UNCHANGED <<storeVars, registry, todo, cur, dst, audit, faults>>

\* Push it on the connection found, which may have been displaced meanwhile; a
\* failed write leaves the row pending.
DeliverTo(c) ==
  /\ pc[c] = "write"
  /\ \/ Write(dst[c], Deliver(cur[c].key)) /\ Goto(c, "mark")
     \/ WriteFails(dst[c]) /\ Goto(c, "route")
  /\ UNCHANGED <<storeVars, registry, todo, cur, dst, audit, faults>>

DeliverMark(c) == MarkWritten(c, "mark", "deliverAudit")
DeliverAudit(c) == AuditStep(c, "deliver", "deliverAudit", "route")

----------------------------------------------------------------------------
(* Leaving: the serve loop returns, the deferred closeNormal and Remove run. *)

ReadError(c) ==
  /\ pc[c] = "serve"
  /\ ReadFails(c)
  /\ Goto(c, "closing")
  /\ UNCHANGED <<storeVars, registry, linkVars, todo, cur, dst, audit, faults>>

CloseNormal(c) ==
  /\ pc[c] = "closing"
  /\ Close(c)
  /\ Goto(c, "remove")
  /\ UNCHANGED <<storeVars, registry, todo, cur, dst, audit, faults>>

RemoveName(c) ==
  /\ pc[c] = "remove"
  /\ Remove(Name(c), c)
  /\ Goto(c, "done")
  /\ UNCHANGED <<storeVars, linkVars, todo, cur, dst, audit, faults>>

Handshake(c) ==
  \/ ReadRegister(c) \/ RefuseRegister(c) \/ Persist(c) \/ BindName(c) \/ RefuseName(c)
  \/ CloseTakenOver(c) \/ Requeue(c) \/ AckHandshake(c) \/ AckHandshakeFails(c)

FlushPending(c) ==
  \/ QueryPending(c) \/ Flush(c) \/ FlushFails(c) \/ FlushDone(c) \/ FlushMark(c) \/ FlushAudit(c)

RouteFrame(c) ==
  \/ ReadAck(c) \/ HandleAck(c) \/ AckAudit(c) \/ ReadPeers(c) \/ HandlePeers(c)
  \/ ReadEnvelope(c) \/ ReadIgnored(c) \/ RouteEnqueue(c) \/ RouteSkip(c) \/ RouteDone(c)
  \/ SendAudit(c) \/ GetRecipient(c) \/ DeliverTo(c) \/ DeliverMark(c) \/ DeliverAudit(c)

Leave(c) == ReadError(c) \/ CloseNormal(c) \/ RemoveName(c)

\* One step of the goroutine of connection c.
Serve(c) == Handshake(c) \/ FlushPending(c) \/ RouteFrame(c) \/ Leave(c)
============================================================================
