# peerbus in TLA+

A verification development of peerbus: TLA+ modules translated from the Go
source, TLC configurations that check them on small instances, and theorems
checked by TLAPS. Paths are relative to the repository; `PROJECT.json` maps
every definition to the lines it stands for.

## 1. The system

Peers exchange messages through one broker over WebSockets. A peer registers a
name under a bearer token, sends direct messages and broadcasts, receives
`deliver` frames and acks each by its delivery key. The broker persists every
message in SQLite before it tries to deliver it, redelivers what was not acked
when the name registers again, and records sends, deliveries and acks in a
hash-chained audit table.

| component | state | operations | correct when |
|---|---|---|---|
| store (`internal/store`) | tables peers, messages, sender_seq, audit | Register, Enqueue, PendingFor, MarkDelivered, MarkAcked, RequeueUnacked, audit reads and inserts; each one statement or transaction on a single connection | sequence numbers of a sender are unique; a row says delivered only if it was |
| registry (`broker/registry.go`) | name to connection and token | Bind (takeover or refusal), Remove, Get, List under one mutex | it names the connection and the token whose goroutine owns the name, through takeovers, refusals and late Removes |
| server and router (`broker/server.go`, `router.go`) | one goroutine per connection | handshake, flushPending, serve, routeFrame, deliverTo, handleAck | no accepted message is left behind, none is settled unread |
| audit (`internal/audit`) | the mutex of the Appender | Append, Verify | no two appends use one tail; the chain always verifies; damage is located; every append returns |
| client (`adapter/client.go`) | one socket, its write lock, the peers sink | Connect, Send, Broadcast, RequestPeers, Recv, Ack, Close | acks go by delivery key; a reply nobody waits for stops nothing |
| resume loop and dedupe (`adapter/reconnect.go`, `dedupe.go`) | current client, LRU of seen ids | connect, surface, Run, Seen, forget, onConnect | the host sees an id once within the cache bound; nothing unconsumed is acked |
| generic adapter (`adapter/generic.go`) | buffer of inbound messages | handle, Drain, Send, Broadcast, Peers | the host gets what was consumed, in order; every call returns unless its write to the broker never does |
| cc adapter and channel server (`adapter/cc.go`, `internal/channel`) | the name, one goroutine per announcement | probe and rotation, push of a delivery, AnnounceSelf, bus calls | what is acked was pushed; announcements wait for the MCP handshake; the process ends with its session |
| mcp server (`internal/mcp`) | stdin, stdout and its lock, the initialized signal | Serve, dispatch, tool calls, Notify, Initialized | one response per request, in order; lines of stdout stay whole |
| wire, hmac, config, cmd | none that changes | encoding, signatures, flags | not modelled |

What is hard here: goroutines of different connections share the store, the
registry and each other's sockets with no lock across two calls; a name can be
taken over while messages for it are in other goroutines' hands; the broker can
die between any two transactions; errors of the store are logged and skipped;
acks and frames are lost with a socket; the cache has a bound; sockets are
written under a lock and without a deadline; inside an adapter process the Serve
loop, the resume loop and the announcements share stdout, the current client and
the peers sink, and calls time out while their answers are on the way. `PROJECT.json`
lists these hazards at the lines where they bite, each with the properties that
would catch it going wrong.

## 2. Modules

    Universe      names, ids, connections, tokens, row keys
    Store         the tables and their operations          EXTENDS Universe
    Registry      the name registry                        EXTENDS Universe
    Link          both ends of the sockets, the frames     EXTENDS Universe
    Broker        the goroutines of the broker             EXTENDS Store, Registry, Link
    Bus           broker, peers, drops, broker crashes     EXTENDS Broker
    AtLeastOnce   what the bus promises (abstract)
    BusProperties the properties of the bus                EXTENDS Bus
    MCBus         small instances for TLC                  EXTENDS BusProperties
    BusProofs     types, sequence numbers, fan-out, marks  EXTENDS BusProperties
    RegistryProofs     who owns a name                     EXTENDS BusProofs
    PromiseProofs      audit log, at-least-once promise    EXTENDS BusProofs
    DeliveryProofs     acks and pending rows               EXTENDS PromiseProofs, RegistryProofs
    Audit         the appender and verify
    AuditProofs   theorems about the appender              EXTENDS Audit
    Adapter       resume loop, dedupe cache, generic buffer
    AdapterProofs theorems about them                      EXTENDS Adapter
    Mcp           the stdio MCP server
    RequestReply  what it promises its host (abstract)
    Session       one adapter process, generic or cc       EXTENDS Mcp
    SessionProperties  the properties of the process       EXTENDS Session
    SessionProofs theorems about the process               EXTENDS SessionProperties
    MCSession     small instances for TLC                  EXTENDS SessionProperties
    Pressure      bounded sockets and their write locks
    PressureProofs     buffers and locks                   EXTENDS Pressure
    MCPressure    plans of traffic for TLC                 EXTENDS Pressure

**Store.** `messages` is a partial function from row keys to rows. A row key is
a pair: `<<id, Direct>>` for a direct message (the code's bare id) and
`<<id, recipient>>` for a broadcast copy (the code's `id + "|" + recipient`);
pairs are as injective as those strings are for the hexadecimal ids the adapters
mint. Names are numbers that stand for their rank in string order, because
`List` and `ORDER BY sender` sort. Every operation is one atomic step, as the
single database connection and the transactions make it. Timestamps are left
out; nothing reads them.

**Registry.** One action per method; the close of a displaced connection is a
later step of the goroutine that called Bind, because the code makes that call
after the unlock.

**Link.** `out[c]` keeps everything the broker wrote to `c` and `seen[c]` how
much of it the peer has read, so that properties can speak of what was written.
A write to a socket the peer has left may succeed (and be lost) or fail. A read
fails once either end is closed, and frames still queued may be lost.

**Broker.** `pc[c]` is the place of connection c's goroutine between two calls
that touch shared state, so each step holds exactly one such call: a store
operation, a registry operation, a socket write or read, an audit append. The one
exception is `ReadEnvelope`, which takes the frame off the socket and, for a
broadcast, the registry's list in one step: the frame is already in the goroutine's
own queue, so reading it earlier would change nothing that others can see. The
places of a handshake are persist, bind, takeover, requeue, ack, query; a flush
goes flush, flushMark, flushAudit; a routed envelope goes route, sendAudit, get,
write, mark, deliverAudit, once per recipient; leaving is closing, remove. A
store or audit call may fail (`Fault`) wherever the code handles an error, by
doing there what the code does: close, log and go on, or skip the audit event.

**Bus.** A peer is the sequence of connections that claim its name: `Claim`
gives the register frame each connection opens with, `Script` the frames it
sends once connected. The peer's end is the client as the resume loop drives it:
it acks what it has read. A script may also hold acks, so that a peer acks any key
of its own accord: one that is not stored, not written, not read, or not its own.
The broker does not tie an ack to the peer that sends it or to a delivery; handleAck
marks what there is to mark and logs the ack in every case, as its comment and
TestRouter_AckUnknownIDGraceful say. `Unprompted` names these keys, and the
properties that speak of acks say what they claim about them.
`Drop` is a peer that goes away, `Crash` the death of the broker and its restart
on the same file: goroutines, registry and sockets are gone, the store and what
was written stay. A connection is dialled at most once, so a reconnect is a
dial of another connection with the same claim.

**Audit.** Several writers run Append: lock, read the tail, insert, unlock. The
hash is ideal: the digest of a previous hash and an event is represented by the
sequence of events chained so far, which makes it collision free and nothing
else. `Linked` is the body of verify's loop. An error of either store call returns
through the deferred unlock. The table's UNIQUE(seq) refuses an insert after a stale
tail, so without the mutex the chain would still verify and events would be lost
instead: that is what `TailFresh` and `UniqueNeverFires` are about.

**Adapter.** The broker is reduced to its effect: it may write any row to the
live connection, any number of times. The resume loop goes connect, recv,
surface, handle, ack; `Drain` runs on the host's goroutine at any time; `Restart`
ends the process, by a crash or by the close of stdin.

**Mcp.** `srv` is the place of the Serve loop. A message is told apart by how
readMessage and dispatch treat it: answered, ignored, a bus call, the initialized
notification, or the end of the reading. The body of a line and its newline are
two steps under the write lock, so that goroutines could run into each other if
the lock were missing. The initialized signal keeps its three parts: the flag, the
channel (nil, open or closed) and the Once.

**Session.** The Serve loop, the resume loop and the onConnect goroutines of one
process. A bus call is split where another goroutine can come between: load the
current client, install the sink, write the request, wait, remove the sink.
`hand.to` is the sink forwardPeers has loaded, which may belong to a call that is
over by the time of the send; `asked` and `replied` number the peers requests of
a connection, so that an answer can be told from a late one. A client that was
closed stays in `cur` until the next one is stored, as in the code. The broker
and the network are reduced to what they do to the process: reply, deliver any
unacked row, break. Notifications carry whether the host had sent initialized
when they were written (`heard`). The cache is reduced to the set of consumed
ids; its bound, forged frames and handler errors are Adapter's subject. Three waits
have no bound in the code: a write to the broker has no deadline and waits for the
other writer of the Client (`WriteWaits`, `PumpWaits`); after a signal Serve waits
for the read whose input it has closed, and closing a blocking descriptor need not
end a read (`ReadWaits`); a line of stdout waits for a host that reads. No step is
forced there, so the process may stay in each for good.

**Pressure.** Each direction of a socket holds `Cap` frames. A goroutine of the
broker reads a frame, takes the recipient's write lock and waits for room;
before its first read it flushes its pending rows the same way. An envelope has a
set of recipients, which the goroutine writes to one after the other in name order
(`RouteNext`) before it reads again, so that one full socket holds up the copies
behind it. A peer's host
and its resume loop share the client's write lock, and the resume loop does not
read while it waits to ack. Store, registry and takeovers are left to Broker.

## 3. Runs

| run | what it checks |
|---|---|
| reconnect | `RegistryExact`, `PendingReachesOwner`, `DeliveredWasWritten`, and `KeepsPromise`, that the bus implements AtLeastOnce: two connections of one peer with the same token, a sender, a drop and a broker crash |
| broadcast | `TypeOK`, `AuditTruthful`, `FanOutKnown`, `AckReachesRow`, `AuditComplete`: a broadcast while the other peers register and one of them acks the other's copy of its own accord, with a failing store or audit call and a crash |
| rivals | `SenderOrder`: a name on two overlapping connections, a rival token for it that repeats an id, a connection without a valid token, an unknown recipient, ignored frames |
| eventually | `EventuallySettled`, under fairness: a recipient that reconnects and takes over on a running broker, may drop, and outlives a crash |
| audit | `TailFresh`, `ChainIntact`, `UniqueNeverFires`, `DamageLocated`, and under fairness `AppendsReturn`: three goroutines that append, with a failing store call and a crash |
| adapter | `TypeOK`, `RepeatsOnlyEvicted`, `SuppressedWasConsumed`, `HostSeesConsumed`: a cache of two against three good ids and a forged one, failures, a restart |
| session | `TypeOK`, `FramesWhole`, `StaleOnlyAfterTimeout`, `AckedWasPushed`, `AnnouncedIsHeard`, and over time `NeverSilent`, `CallsReturn`, `PumpGoesOn`, `Announces`, `Starts`, `EndsWithSession` and `AnswersEachOnce`, that the process implements RequestReply: five scenes of a mode, a host script, connections and deliveries. `CallsReturn`, `Announces` and `EndsWithSession` name the waits they do not rule out |
| pressure | `TypeOK`, `FlowsOrCycle`, `BystandersFlow`: six plans of direct and broadcast traffic over sockets of one frame per direction, and a peer that may go away |

Each property has a mutant, a definition that changes the code the way a
plausible bug would (a dropped guard, a lost reset, an ignored error) and makes
TLC find the property violated.

The runs of MCBus keep TLC's deadlock check: `Rest` lets the bus stop only when
every connection is over or quiet, so a goroutine that outlives its peer or hangs
would be reported. The run session keeps it too: the process may stop only where
it has exited. Adapter's runs switch it off, because the process may end up
without a bus for good (`ConnectRefused`), and so does pressure, where traffic
comes to rest and where peers really do wait for each other.

What pressure shows about blocked writes: of the six plans only the one-way plan and
the short exchange of broadcasts are free of `Stuck` states. Two peers that flood
each other, a peer that writes to itself, one that asks for the peers while it is
flooded with broadcasts, and one that comes back to more pending rows than its
socket holds all reach states in which the goroutine waits for room and the client,
waiting to ack, does not read. Nothing in the code ends such a wait but the loss of
a connection. A broadcast that meets such a peer does not reach the recipients after
it in name order either. `FlowsOrCycle` says that there is no other way to be held
up (so a circle is an outcome it allows), and `BystandersFlow` that peers who write
to none of the members are not.

`EventuallySettled` names two ways in which a message can stay unacked: the
recipient stays away for good, and the late mark that run stranded finds
(`MarkedLate`: a goroutine has marked the row for the displaced connection after the
new owner requeued and before it takes its snapshot). The property says
that there is no third.

### Where code and documentation differ

These runs check what the documentation says, and TLC finds it violated.

* **stranded** (`OwnerGetsAll`): a sender's goroutine that has written to the
  displaced connection marks the row after the new owner requeued. The row is
  delivered and unacked, belongs to no connection that lives, and waits for the
  next register. The handshake comment and the protocol document say it is
  delivered to the new connection.
* **fifo** (`PerSenderFIFO`): between Bind and the flush a live delivery
  overtakes older pending rows of its sender.
* **undrained** (`AckedReachesHost`): the generic adapter acks when it buffers,
  not when the host drains; what is buffered when the process ends is lost.
* **unheard** (`AckedIsHeard`): the cc adapter pushes and acks deliveries before
  the host has signalled initialized. Its own comments say that Claude Code drops
  such notifications, and delay the announcement for that reason, so a message
  that is pending when the session starts can be acked and never seen.

Other differences are plain from the models and have no run.

* Between Bind and the handshake ack a delivery of another goroutine can be the
  first frame on a connection (`DeliverTo` before `AckHandshake`). The protocol
  document says the peers frame comes first; the client takes the register for
  rejected (`ConnectFails`) and redials.
* `PendingFor` does not look at `acked`: a row requeued while its ack was on the
  way is flushed again after it was acked, although dedupe.go says that only
  unacked ids can come again.
* The protocol document says that after the handshake the broker delivers every
  pending message; with more rows than the sockets hold the flush and the client
  wait for each other (plan `Backlog` of pressure).
* A send to an unknown name leaves no send event (`RouteSkip`), although
  routeDirect's comment says the broker still audits it.
* The mark of a delivery or an ack and its audit row are separate steps, so a
  crash can lose those events like the send events the protocol document names;
  `AuditComplete` therefore assumes no crash.
* dispatch answers `initialize` and `tools/list` also without an id, although its
  comment says that notifications get no response.
* connect's comment says it returns ErrNameClaimed "so the embedding mode can
  rotate to a fresh name"; both modes only log it, and the process serves its host without a bus from then on.
  `NeverSilent` shows that its calls at least fail.

### Bounds

Two to four connections and one or two messages suffice for the interesting
cases: a takeover needs two connections of a name and a sender, a broadcast
needs two recipients to tell the copies apart, FIFO needs two messages of a
sender. `MaxCrashes` and `MaxFaults` are 0, 1 or 2 by run: one crash separates
any two steps once, and a second fault would only repeat a lost update. `Fickle`
names the connections whose peer may go away, `Era` after how many crashes a
connection may be dialled. Run eventually lets the first connection of the recipient
be dialled before the crash only, and the second and the sender's at any time: the
second can take over from the first, follow its drop, or come after the crash. The
other runs leave `Era` open. Run rivals has no crash; that a restart does not reuse
a sequence number is part of the theorem `SeqsAreUnique`. In Audit, `MaxRows` bounds
the calls, `MaxFaults` and `MaxCrashes` the failures. In Adapter, `MaxPushes`
bounds the deliveries (five are needed to tell an LRU from a FIFO
of two) and `MaxLives` the processes.

In Session, `Scenes` pairs each script with the connections (`dials`, at most
`MaxConns`) and deliveries (`pushes`) that matter for it: two peers calls on one
connection for late answers, a call and a send over two connections for lost
ones, two connections and a delivery sent twice around the handshake for
announcements, every other kind of message without a bus. `Ahead` is what the
host may write before Serve has read it; Serve reads one message at a time, so
one is enough for the next to be there. `Retries` is one instead of six: a
rotation that fails and one that is the last. In Pressure, `Cap` is one frame
where the system has kilobytes, and `Plans` send the four frames that fill both
directions, the client's hands and the goroutine's; `MaxDrops` lets one peer go
away at any point, which is what ends or leaves a circle of two.

### Fairness

`EventuallySettled` assumes weak fairness of each goroutine (`BrokerStep`) and of
each peer's own steps (`PeerStep`): the Go scheduler runs a goroutine that can
run, and a connected client reads, acks and notices a closed socket. Nothing is
assumed of drops, crashes or failing store calls, and nothing of a peer coming
back: the property excuses a recipient that stays away for good.

`AppendsReturn` assumes weak fairness of each goroutine inside Append and strong
fairness of its lock: a sync.Mutex goes to a waiter it has passed over for long.

Run session assumes weak fairness of the process's own goroutines: the probe, the
Serve loop with its tool calls and timer, the cancel after Serve, the resume loop
once it has something to do, and each announcement, and that a dial comes back with
some result. It assumes nothing of the host, the broker, the network, a signal or a
successful reconnect, and therefore nothing of a goroutine that waits for one of
them: a write to the broker, the read of a closed stdin, a line of stdout the host
does not read. `CallsReturn` promises an end to calls whose write ends; `Announces`
and `EndsWithSession` assume a host that reads (`HostReads`), and the latter also
that neither a write to the broker nor the read of the closed stdin lasts for good.
Run pressure assumes weak fairness of each goroutine, host
and resume loop, and nothing of drops; a write that waits for room or a lock is
simply not enabled.

## 4. Proofs

TLAPS checks the theorems for every value of the constants under the assumptions
named in the modules that declare them: `NamesAssumption` (names are positive
numbers), `NoBindingAssumption` (the absent binding is not a binding),
`BrokerAssumption`, `BusAssumption`, `AuditAssumption`, `AdapterAssumption`,
`McpAssumption`, `SessionAssumption` and `PressureAssumption` (types of the
parameters, a cache and a socket that hold something, a writer for each goroutine
that writes to stdout). Bounds such as `MaxCrashes`, `MaxConns` or `MaxPushes` are
arbitrary numbers in the proofs.

Every safety property that a run checks is also a theorem. The proofs share one
layout. Lemmas named `...Evolves` say which steps can change a group of variables,
and lemmas named `...Because` and `...Stays` why a fact can come to hold and that
it is not lost; an invariant is then proved over those few steps instead of over
every action.

**BusProofs.**

* `TypeCorrect`: `Spec => []TypeOK`, one lemma per component.
* `SeqsAreUnique`: `SenderOrder` is inductive, because the counter moves in the
  transaction that uses it.
* `FanOutIsKnown`: `FanOutKnown` needs one more conjunct (`KnownInv`): a
  goroutine at bind has its name in table peers.
* `DeliveredIsWritten`: `DeliveredWasWritten` is not inductive. `WrittenInv` adds
  what each goroutine knows of the rows it holds (`InHand`: they are rows of the
  peer they are meant for, the connection looked up is that peer's, and a
  goroutine that comes to mark a row has written it) and that the registry gives
  a name only connections that claimed it (`RightfulOwner`). Rows are never
  deleted or readdressed (`RowsStay`) and what is written stays written
  (`WrittenStays`), so no step of another goroutine, no takeover and no crash can
  disturb what a goroutine knows.

**RegistryProofs.** `RegistryIsExact`: `RegistryExact` is inductive as it stands.
It falls into two halves, that a binding belongs to a running goroutine (`Runs`)
and that a goroutine past Bind has its binding (`Owns`); Bind, Remove and all other steps are
three lemmas. The clause on takeovers is what makes it inductive: between Bind
and the close, the displaced connection is the one the new owner is about to close.

**PromiseProofs.** The invariant is `FramesInv`: a connection carries only rows of
its own peer, an ack on its way is for a row its peer has read or for a key that
some peer acks unprompted, a settled row that nobody acks unprompted was read by its
recipient, and `Knows`, what a goroutine knows when it comes to handle an ack or to
append to the log. Scripts are arbitrary, acks of any key included.

* `AuditIsTruthful` follows from it, since rows, writes and acks are never undone
  and a goroutine comes to audit an event only after it happened. Of a key that some
  peer acks unprompted an ack event says only that an ack came in.
* `AuditIsComplete`: what happens leaves its goroutine about to log it
  (`HappensThenLogs`), and it stays there until it has (`LogsGetsDone`), unless a
  call fails or the broker crashes.
* `BusKeepsPromise`: the refinement of AtLeastOnce. No step changes both rows and
  streams (`RowsOrStreams`). One that changes rows accepts a row, settles one that
  was received (`FramesInv`) or is invisible; one that changes streams receives a
  row or is invisible. The settled rows of the mapping are those nobody acks
  unprompted (`UnpromptedFixed`: which ones these are never changes).

**DeliveryProofs.**

* `AckReachesItsRow`: `FreshInv` says that nothing is written to a connection
  before its name is bound to it. So no ack can be lost to the handshake, which
  reads a frame too, and an ack is followed from the peer's queue into the hands
  of the goroutine and into the store.
* `PendingReachesItsOwner` holds a connection to account only once it serves.
  `PendInv` does so from the snapshot on: a row never marked is written to the
  owner, in its snapshot, or in the hands of a goroutine that will find the owner
  in the registry (`CarriedStays`, by `RegistryExact`). A row enqueued after the snapshot is in such hands; one enqueued
  before is in the snapshot, because a row that counts as delivered was marked at
  least once (`TriedInv`).

**AuditProofs.** `AuditInvariant` says that the holder of the mutex is the only
writer between the read of the tail and the insert and that what it read is
still the tail; from it follow `ChainAlwaysIntact`, `NoAppendRefused`
and `DamageAlwaysLocated` (a changed event, hash or prev_hash, or a deleted row
other than the last).

**AdapterProofs.** The first part says what the list operations of the cache do:
`WithoutProperties` (remove one id, keep the order of the rest) and
`TouchProperties` (the id comes to the front, the others keep their order, the
last may go if the cache is full).

* `TypeInvariant`: among the rest, the cache never outgrows its bound and holds no
  id twice.
* `SuppressedIsConsumed` needs `CacheInv`: what the cache remembers was consumed,
  except the id the handler is working on. That is why forget must run when a
  handler fails.
* `HostSeesWhatWasConsumed`: the property numbers the consumptions by rank instead
  of filtering the log, because a recursive filter is out of the prover's reach;
  with the types it is inductive.
* `RepeatsAreEvicted` needs `RecencyInv`: for each place of the log, either at
  least CacheMax other ids came since, or the id is still cached with only such ids
  in front of it. An id at the end of a full cache therefore has all the others in
  front of it, and they are counted (`DistinctCounts`) when it falls off.

**SessionProofs.** `TypeCorrect` takes two more invariants: `ShapeInv`, what the two
loops hold at each place, and `ReadyInv`, the order of the initialized signal,
without which its channel could be closed twice.

* `FramesStayWhole` and `AnnouncementsAreHeard` follow from `LineInv`: the
  unfinished line is one body and its writer holds the lock.
* `AckedIsPushed`: `PushInv` adds that what was seen was pushed, so that a
  duplicate may be acked at once.
* `GoneIsNeverSilent`, an action property: by `LinkInv` a socket that takes writes
  belongs to a resume loop that is connected. It speaks of calls that come to their
  write; one that already had its answer may still return it.
* `StaleOnlyAfterGivingUp` takes three invariants. `SinkInv`: a sink is the current
  call's, on the client that call has loaded, and the sink forwardPeers has in hand
  is that one or an earlier call's. `ReplyInv`: the replies on a wire are numbered
  upwards. `AnswerInv`: with s calls answered on a connection, the replies up to s
  are no longer on its wire, and what is in the resume loop's hand and, before it, in
  the channel is above s. A request and a timeout leave s alone
  (`ServedStep`), an answer adds one, so the answer taken is at most as old as there
  were timeouts.
* `AnswersEachRequest`, the refinement of RequestReply: by `DialogueInv` exactly the
  request Serve works on is unanswered and its response is under its id. The
  mapping takes the requests among the messages read by their rank
  (`RequestsTaken`), so that a request taken appends its id (`RequestTaken`).

**PressureProofs.** `TypeCorrect`: no buffer is overfull and no host writes past its
plan (`SocketInv`). `LockIsExact`: a connection's write lock is held by exactly the
goroutine that writes to it, so writes exclude each other and a failed write
leaves nothing locked.

Only model-checked, because liveness under fairness and ENABLED are outside the
prover's reach: `EventuallySettled`, `AppendsReturn`, `CallsReturn`, `PumpGoesOn`, `Announces`,
`Starts`, `EndsWithSession`, `FlowsOrCycle` and `BystandersFlow`. The runs that
expect a violation refute their properties on the instance they name.

## 5. Not modelled

Encodings, signatures and versions (a malformed or forged frame is one the
receiver drops); the text of pushes, tool schemas and minted names; backoff and
timeouts as durations; graceful shutdown of the broker as something other than a
crash; `Client.Peers`, which no mode calls; configuration and commands. Writes to
stdout succeed in the models: the code discards the errors of Write and Flush
(`mcp/server.go:204-206` and `509-511`), and on standard output a broken pipe ends
a Go process before it could ack what it failed to push. Two adapters that hold the same name
and token displace each other for ever; the code allows it and promises nothing,
so there is no property.

## 6. Plan

Done: the bus with its properties, Audit, Adapter, the adapter process (Mcp,
Session), bounded sockets (Pressure), and theorems for every safety property the
runs check. What is left:

1. The safety facts liveness rests on, as theorems: what each goroutine that cannot
   move waits for, in the bus and in Pressure.
2. The canonical form of an envelope and what a verbatim body needs.
