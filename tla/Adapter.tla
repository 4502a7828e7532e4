------------------------------- MODULE Adapter -------------------------------
(***************************************************************************)
(* The consumer side of one peer: the resume loop (ResumingClient) with    *)
(* its dedupe cache, and the generic adapter's buffer, which the host      *)
(* empties from another goroutine with bus.drain.  The broker below is     *)
(* reduced to what module Bus shows of it: it may write any row of the     *)
(* peer to the live connection, any number of times, and acks may be lost. *)
(***************************************************************************)
EXTENDS Naturals, Sequences, FiniteSets, SequencesExt

CONSTANTS Ids,         \* envelope ids sent to this peer
          Forged,      \* those whose envelope fails HMAC verification
          CacheMax,    \* Dedupe.max
          MayFail,     \* may the host's handler return an error?
          MaxPushes,   \* bound: deliver frames
          MaxLives     \* bound: adapter processes

ASSUME AdapterAssumption ==
  /\ Ids # {} /\ Forged \subseteq Ids
  /\ CacheMax \in Nat \ {0} /\ MaxPushes \in Nat /\ MaxLives \in Nat \ {0}
  /\ MayFail \in BOOLEAN

VARIABLES link,      \* the current connection: "down", "up", "dead"
          wire,      \* deliver frames on it, not yet read
          pc,        \* place of the resume loop
          hand,      \* id of the delivery in hand
          cache,     \* Dedupe.ll, most recently seen first
          pending,   \* genericBus.pending
          host,      \* ids bus.drain has returned to this process's host
          acked,     \* rows acked at the broker
          told,      \* ids that ever reached a host
          log,       \* this process's surfacings: id and what became of it
          pushes, lives

loopVars == <<link, wire, pc, hand>>
hostVars == <<pending, host, told>>
vars == <<loopVars, cache, hostVars, acked, log, pushes, lives>>

Surfacings == [id : Ids, how : {"dup", "consumed", "failed"}]

TypeOK ==
  /\ link \in {"down", "up", "dead"}
  /\ wire \in Seq(Ids)
  /\ pc \in {"connect", "recv", "surface", "handle", "ack", "gone"}
  /\ hand \in Ids
  /\ cache \in Seq(Ids) /\ Len(cache) <= CacheMax /\ IsInjective(cache)
  /\ pending \in Seq(Ids) /\ host \in Seq(Ids)
  /\ acked \subseteq Ids /\ told \subseteq Ids
  /\ log \in Seq(Surfacings)
  /\ pushes \in 0..MaxPushes /\ lives \in 1..MaxLives

\* A process has just started: nothing seen, nothing buffered, no connection.
Fresh(l, w, p, c, b, h, g) ==
  /\ l = "down" /\ w = <<>> /\ p = "connect"
  /\ c = <<>> /\ b = <<>> /\ h = <<>> /\ g = <<>>

Init ==
  /\ Fresh(link, wire, pc, cache, pending, host, log)
  /\ hand = CHOOSE i \in Ids : TRUE
  /\ acked = {} /\ told = {}
  /\ pushes = 0 /\ lives = 1

----------------------------------------------------------------------------
(* the connection, as the broker and the network drive it *)

Push(i) ==
  /\ link = "up" /\ pushes < MaxPushes
  /\ wire' = Append(wire, i)
  /\ pushes' = pushes + 1
  /\ UNCHANGED <<link, pc, hand, cache, hostVars, acked, log, lives>>

Break ==
  /\ link = "up"
  /\ link' = "dead"
  /\ UNCHANGED <<wire, pc, hand, cache, hostVars, acked, log, pushes, lives>>

----------------------------------------------------------------------------
(* the resume loop *)

\* connect: re-register under the same name.  A transient failure backs off and
\* tries again, which changes nothing here.
Connect ==
  /\ pc = "connect"
  /\ link' = "up" /\ wire' = <<>> /\ pc' = "recv"
  /\ UNCHANGED <<hand, cache, hostVars, acked, log, pushes, lives>>

\* ErrNameClaimed ends Run: the process serves its host without a bus.
ConnectRefused ==
  /\ pc = "connect"
  /\ pc' = "gone"
  /\ UNCHANGED <<link, wire, hand, cache, hostVars, acked, log, pushes, lives>>

Recv ==
  /\ pc = "recv" /\ wire # <<>>
  /\ Head(wire) \notin Forged
  /\ hand' = Head(wire) /\ wire' = Tail(wire) /\ pc' = "surface"
  /\ UNCHANGED <<link, cache, hostVars, acked, log, pushes, lives>>

\* ErrInboundHMAC: the frame is dropped, unacked, and the pump goes on.
RecvRejected ==
  /\ pc = "recv" /\ wire # <<>>
  /\ Head(wire) \in Forged
  /\ wire' = Tail(wire)
  /\ UNCHANGED <<link, pc, hand, cache, hostVars, acked, log, pushes, lives>>

\* Any other read error: close and redial.
RecvFails ==
  /\ pc = "recv" /\ link = "dead"
  /\ link' = "down" /\ wire' = <<>> /\ pc' = "connect"
  /\ UNCHANGED <<hand, cache, hostVars, acked, log, pushes, lives>>

\* The element of an id that Dedupe.idx finds in the list, and the list without it.
Element(i) == CHOOSE n \in 1..Len(cache) : cache[n] = i
Without(i) == IF Contains(cache, i) THEN RemoveAt(cache, Element(i)) ELSE cache

\* Mutant: a repeat does not refresh the id's recency.
TouchFIFO(i) ==
  IF Contains(cache, i) THEN cache
  ELSE IF Len(cache) = CacheMax THEN <<i>> \o Front(cache) ELSE <<i>> \o cache

\* Mutant: nothing is ever evicted.
TouchUnbounded(i) == <<i>> \o Without(i)

\* The cache after Seen(i): i in front, the oldest evicted once over the bound.
Touch(i) ==
  <<i>> \o IF ~Contains(cache, i) /\ Len(cache) = CacheMax THEN Front(cache) ELSE Without(i)

\* surface, Seen: a repeat goes straight to the ack, a new id to the handler.
Surface ==
  /\ pc = "surface"
  /\ cache' = Touch(hand)
  /\ IF Contains(cache, hand)
     THEN pc' = "ack" /\ log' = Append(log, [id |-> hand, how |-> "dup"])
     ELSE pc' = "handle" /\ UNCHANGED log
  /\ UNCHANGED <<link, wire, hand, hostVars, acked, pushes, lives>>

\* genericBus.handle: buffered counts as consumed.
Handle ==
  /\ pc = "handle"
  /\ pending' = Append(pending, hand)
  /\ log' = Append(log, [id |-> hand, how |-> "consumed"])
  /\ pc' = "ack"
  /\ UNCHANGED <<link, wire, hand, cache, host, told, acked, pushes, lives>>

\* Mutant: an unconsumed id stays in the cache.
HandleFailsKeeps ==
  /\ pc = "handle" /\ MayFail
  /\ log' = Append(log, [id |-> hand, how |-> "failed"])
  /\ pc' = "recv"
  /\ UNCHANGED <<link, wire, hand, cache, hostVars, acked, pushes, lives>>

Forget(i) == cache' = Without(i)

\* The handler contract's other outcome: not consumed, so forget it, do not ack.
HandleFails ==
  /\ pc = "handle" /\ MayFail
  /\ Forget(hand)
  /\ log' = Append(log, [id |-> hand, how |-> "failed"])
  /\ pc' = "recv"
  /\ UNCHANGED <<link, wire, hand, hostVars, acked, pushes, lives>>

\* The ack's own error is ignored; it may also be lost after the write.
Ack ==
  /\ pc = "ack"
  /\ \/ link = "up" /\ acked' = acked \cup {hand}
     \/ UNCHANGED acked
  /\ pc' = "recv"
  /\ UNCHANGED <<link, wire, hand, cache, hostVars, log, pushes, lives>>

----------------------------------------------------------------------------
(* the host *)

\* Mutant: the buffer is returned and kept.
DrainKeeps ==
  /\ pending # <<>>
  /\ host' = host \o pending
  /\ told' = told \cup ToSet(pending)
  /\ UNCHANGED <<pending, loopVars, cache, acked, log, pushes, lives>>

\* bus.drain: return and clear the buffer, whatever the resume loop is doing.
Drain ==
  /\ pending # <<>>
  /\ host' = host \o pending
  /\ told' = told \cup ToSet(pending)
  /\ pending' = <<>>
  /\ UNCHANGED <<loopVars, cache, acked, log, pushes, lives>>

\* The process ends (its stdin closes, or it dies) and the host starts another.
Restart ==
  /\ lives < MaxLives
  /\ lives' = lives + 1
  /\ Fresh(link', wire', pc', cache', pending', host', log')
  /\ UNCHANGED <<hand, acked, told, pushes>>

Next ==
  \/ \E i \in Ids : Push(i)
  \/ Break \/ Connect \/ ConnectRefused \/ Recv \/ RecvRejected \/ RecvFails
  \/ Surface \/ Handle \/ HandleFails \/ Ack \/ Drain \/ Restart

Spec == Init /\ [][Next]_vars

----------------------------------------------------------------------------

\* The handler gets an id it has consumed before only if at least CacheMax other
\* ids came in between, through any redeliveries, reconnects, handler failures and
\* evictions: Dedupe.Seen refreshes an id each time it comes.
RepeatsOnlyEvicted ==
  \A p, q \in 1..Len(log) :
    (/\ p < q /\ log[p].id = log[q].id
     /\ log[p].how # "failed" /\ log[q].how # "dup") =>
      Cardinality({log[r].id : r \in (p+1)..(q-1)} \ {log[p].id}) >= CacheMax

\* An id is suppressed and acked as a repeat only if the handler of this very
\* process consumed it before, also after it failed on it: surface forgets what was
\* not consumed, or a failed message would be acked unread when it is redelivered.
SuppressedWasConsumed ==
  \A q \in 1..Len(log) : log[q].how = "dup" =>
    \E p \in 1..(q-1) : log[p].id = log[q].id /\ log[p].how = "consumed"

\* The places of log where the handler consumed an id, and the rank of one among them.
Consumed == {p \in 1..Len(log) : log[p].how = "consumed"}
Rank(p) == Cardinality({r \in Consumed : r <= p})

\* Between the two goroutines nothing is lost, repeated or reordered: what the host
\* has drained and what is buffered is what the handler consumed, in that order.
HostSeesConsumed ==
  /\ Len(host \o pending) = Cardinality(Consumed)
  /\ \A p \in Consumed : (host \o pending)[Rank(p)] = log[p].id

\* "Drain returns every inbound message buffered since the last drain [...] and acks
\* each one back to the broker": then a message acked at the broker, which need never
\* be redelivered, has reached a host or is in the buffer of the one that runs.
AckedReachesHost == acked \subseteq told \cup ToSet(pending)
==============================================================================
