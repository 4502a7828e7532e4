------------------------------- MODULE Session -------------------------------
(***************************************************************************)
(* One adapter process: the MCP server and its bus.* tools on the host's   *)
(* side, the resume loop on the broker's side, and between them the peers  *)
(* sink, the write lock of stdout and, in the cc mode, the name probe, the *)
(* push of deliveries and the announcement of each connection.             *)
(***************************************************************************)
EXTENDS Mcp, FiniteSets

CONSTANTS MaxConns,   \* connections of the resume loop, at most
          Deliveries, \* envelope ids the broker has for this peer
          Retries,    \* nameCollisionRetries
          Scenes      \* bounds: the mode, the host's script, the connections that may
                      \* be made and the deliver frames the broker may write

ASSUME SessionAssumption ==
  /\ MaxConns \in Nat /\ Retries \in Nat
  /\ 1..(MaxConns + 1) \subseteq Writers
  /\ Scenes \subseteq [mode : {"generic", "cc"}, script : Scripts, dials : 0..MaxConns, pushes : Nat]

Conns == 1..MaxConns
PumpWriter == MaxConns + 1   \* the resume loop, as a writer to stdout

VARIABLES mode,     \* the adapter mode
          boot,     \* place of the mode's Run before Serve
          left,     \* names the probe may still try; none if PEERBUS_NAME is set
          cur,      \* ResumingClient.cur; 0 is nil
          link,     \* state of each Client and its socket
          asked,    \* peers requests written on each connection
          replied,  \* how many of them the broker has answered
          wire,     \* frames on their way to the peer
          sink,     \* Client.peersSink: the call whose channel it is; 0 is nil
          via,      \* the Client the current call works with
          chan,     \* that call's channel, of capacity one
          gaveUp,   \* calls that left without an answer, by connection
          loop,     \* place of the resume loop
          hand,     \* the frame in its hands, and the sink it has loaded
          seen,     \* ids the handler has consumed
          acked,    \* ids acked at the broker
          ann,      \* the onConnect goroutine of each connection
          dials,    \* connections that may still be made
          pushes    \* deliver frames that may still be written

bootVars == <<mode, boot, left>>
brokerVars == <<asked, replied, wire, acked, pushes>>
callVars == <<sink, via, chan, gaveUp>>
loopVars == <<loop, hand, seen, ann, dials>>
vars == <<mcpVars, bootVars, cur, link, brokerVars, callVars, loopVars>>

Nothing == [n |-> 0, to |-> 0]
DeliverFrame(i) == [what |-> "deliver", n |-> i]
PeersReply(n) == [what |-> "peers", n |-> n]
Push(i) == [what |-> "push", id |-> i, heard |-> HostReady]
Announcement(c) == [what |-> "announce", id |-> c, heard |-> HostReady]

TypeOK ==
  /\ McpTypeOK
  /\ mode \in {"generic", "cc"}
  /\ boot \in {"probe", "running", "failed"} /\ left \in 0..Retries
  /\ cur \in 0..MaxConns /\ via \in 0..MaxConns
  /\ link \in [Conns -> {"new", "up", "dead", "closed"}]
  /\ asked \in [Conns -> Nat] /\ replied \in [Conns -> Nat]
  /\ sink \in [Conns -> 0..taken]
  /\ Len(chan) <= 1
  /\ gaveUp \in [Conns -> Nat]
  /\ loop \in {"connect", "recv", "forward", "handle", "pushing", "ack", "gone", "ended"}
  /\ seen \subseteq Deliveries /\ acked \subseteq Deliveries
  /\ ann \in [Conns -> {"none", "waiting", "writing", "done"}]
  /\ dials \in 0..MaxConns /\ pushes \in Nat

Init ==
  /\ McpInit
  /\ \E s \in Scenes :
       mode = s.mode /\ script = s.script /\ dials = s.dials /\ pushes = s.pushes
  /\ boot = (IF mode = "cc" THEN "probe" ELSE "running")
  /\ left \in (IF mode = "cc" THEN {0, Retries} ELSE {0})
  /\ cur = 0 /\ link = [c \in Conns |-> "new"]
  /\ asked = [c \in Conns |-> 0] /\ replied = asked /\ gaveUp = asked /\ sink = asked
  /\ wire = [c \in Conns |-> <<>>] /\ acked = {}
  /\ via = 0 /\ chan = <<>>
  /\ loop = "connect" /\ hand = Nothing /\ seen = {}
  /\ ann = [c \in Conns |-> "none"]

----------------------------------------------------------------------------
(* ccMode.Run before Serve *)

\* The probe registered: the channel server and its initialized channel are made
\* before the resume loop and Serve start.
ProbeAccepted ==
  /\ boot = "probe"
  /\ boot' = "running" /\ left' = 0
  /\ Initialized
  /\ UNCHANGED <<mode, hostVars, taken, cancelled, srv, reply, outVars,
                 cur, link, brokerVars, callVars, loopVars>>

\* Mutant: the attempts are not counted to their end.
ProbeClaimedForever ==
  /\ boot = "probe"
  /\ left' = IF left = 0 THEN Retries ELSE left - 1
  /\ UNCHANGED <<mode, boot, mcpVars, cur, link, brokerVars, callVars, loopVars>>

\* ErrNameClaimed: another name, unless the operator chose it or too many were tried.
ProbeClaimed ==
  /\ boot = "probe"
  /\ IF left = 0 THEN boot' = "failed" /\ UNCHANGED left
                 ELSE left' = left - 1 /\ UNCHANGED boot
  /\ UNCHANGED <<mode, mcpVars, cur, link, brokerVars, callVars, loopVars>>

\* Any other error, also the context's, ends the process.
ProbeFails ==
  /\ boot = "probe"
  /\ boot' = "failed"
  /\ UNCHANGED <<mode, left, mcpVars, cur, link, brokerVars, callVars, loopVars>>

Probe == ProbeAccepted \/ ProbeClaimed \/ ProbeFails

----------------------------------------------------------------------------
(* bus.send, bus.broadcast and bus.peers, in the Serve loop *)

Failed == Answer("failure")
Sent == Answer("result")

\* The call loads ResumingClient.cur once.
LoadClient ==
  /\ srv = "call"
  /\ via' = cur
  /\ IF cur = 0 THEN Failed
     ELSE srv' = (IF Current.method = "peers" THEN "sink" ELSE "request") /\ UNCHANGED reply
  /\ UNCHANGED <<sink, chan, gaveUp, hostVars, taken, cancelled, outVars, initVars>>

\* A fresh channel becomes the sink of that Client.
InstallSink ==
  /\ srv = "sink"
  /\ chan' = <<>>
  /\ sink' = [sink EXCEPT ![via] = taken]
  /\ srv' = "request"
  /\ UNCHANGED <<via, gaveUp, reply, hostVars, taken, cancelled, outVars, initVars>>

\* The frame is written.  The broker gets it if the socket works.
Written ==
  /\ link[via] \in {"up", "dead"}
  /\ IF Current.method = "peers"
     THEN srv' = "wait" /\ UNCHANGED reply /\ asked' = [asked EXCEPT ![via] = @ + 1]
     ELSE Sent /\ UNCHANGED asked

\* conn() is nil, or the write fails, which a working socket does only when the
\* context is done.
NotWritten ==
  /\ link[via] # "up" \/ cancelled
  /\ UNCHANGED asked
  /\ IF Current.method = "peers" THEN srv' = "unsink" /\ reply' = Reply(Current.id, "failure")
                                 ELSE Failed

\* writeJSON has no deadline of its own: see WriteWaits.
Request ==
  /\ srv = "request"
  /\ Written \/ NotWritten
  /\ UNCHANGED <<callVars, replied, wire, acked, pushes, hostVars, taken, cancelled,
                 outVars, initVars>>

\* The select: an answer is there, or the context is done, or five seconds are over.
TakeAnswer ==
  /\ srv = "wait" /\ chan # <<>>
  /\ chan' = <<>>
  /\ reply' = Reply(Current.id, "result") /\ srv' = "unsink"
  /\ UNCHANGED <<sink, via, gaveUp, hostVars, taken, cancelled, outVars, initVars>>

\* Mutant: only the end of the context ends the wait.
GiveUpNever ==
  /\ srv = "wait" /\ cancelled
  /\ gaveUp' = [gaveUp EXCEPT ![via] = @ + 1]
  /\ reply' = Reply(Current.id, "failure") /\ srv' = "unsink"
  /\ UNCHANGED <<sink, via, chan, hostVars, taken, cancelled, outVars, initVars>>

GiveUp ==
  /\ srv = "wait"
  /\ gaveUp' = [gaveUp EXCEPT ![via] = @ + 1]
  /\ reply' = Reply(Current.id, "failure") /\ srv' = "unsink"
  /\ UNCHANGED <<sink, via, chan, hostVars, taken, cancelled, outVars, initVars>>

\* defer SetPeersSink(nil)
RemoveSink ==
  /\ srv = "unsink"
  /\ sink' = [sink EXCEPT ![via] = 0]
  /\ via' = 0 /\ chan' = <<>>
  /\ srv' = "write"
  /\ UNCHANGED <<gaveUp, reply, hostVars, taken, cancelled, outVars, initVars>>

CallTool ==
  \/ Request /\ UNCHANGED <<bootVars, cur, link, loopVars>>
  \/ (LoadClient \/ InstallSink \/ TakeAnswer \/ GiveUp \/ RemoveSink)
     /\ UNCHANGED <<bootVars, cur, link, brokerVars, loopVars>>

ServeStep ==
  /\ boot = "running"
  /\ CallTool \/ (Serve /\ UNCHANGED <<bootVars, cur, link, brokerVars, callVars, loopVars>>)

\* Mutant: the mode waits for the resume loop without cancelling it.
StopWaits ==
  /\ srv = "returned" /\ ~cancelled /\ loop \in {"gone", "ended"}
  /\ Cancel
  /\ UNCHANGED <<bootVars, cur, link, brokerVars, callVars, loopVars>>

\* Serve has returned: the mode cancels the resume loop's context.
Stop ==
  /\ srv = "returned" /\ ~cancelled
  /\ Cancel
  /\ UNCHANGED <<bootVars, cur, link, brokerVars, callVars, loopVars>>

----------------------------------------------------------------------------
(* the resume loop *)

\* Mutant: the handshake ack is left for Recv.
ConnectUnread ==
  /\ loop = "connect" /\ boot = "running" /\ dials > 0
  /\ dials' = dials - 1
  /\ cur' = cur + 1
  /\ link' = [link EXCEPT ![cur + 1] = "up"]
  /\ wire' = [wire EXCEPT ![cur + 1] = <<PeersReply(0)>>]
  /\ loop' = "recv"
  /\ ann' = IF mode = "cc" THEN [ann EXCEPT ![cur + 1] = "waiting"] ELSE ann
  /\ UNCHANGED <<mcpVars, bootVars, asked, replied, acked, pushes, callVars, hand, seen>>

\* A new Client has registered and is published; cc's callback gets a goroutine.  A
\* transient failure backs off and tries again, which changes nothing here.
Connect ==
  /\ loop = "connect" /\ boot = "running" /\ dials > 0
  /\ dials' = dials - 1
  /\ cur' = cur + 1
  /\ link' = [link EXCEPT ![cur + 1] = "up"]
  /\ loop' = "recv"
  /\ ann' = IF mode = "cc" THEN [ann EXCEPT ![cur + 1] = "waiting"] ELSE ann
  /\ UNCHANGED <<mcpVars, bootVars, brokerVars, callVars, hand, seen>>

\* ErrNameClaimed ends Run; the mode only logs it.
ConnectClaimed ==
  /\ loop = "connect" /\ boot = "running"
  /\ loop' = "gone"
  /\ UNCHANGED <<mcpVars, bootVars, cur, link, brokerVars, callVars, hand, seen, ann, dials>>

ConnectCancelled ==
  /\ loop = "connect" /\ boot = "running" /\ cancelled
  /\ loop' = "ended"
  /\ UNCHANGED <<mcpVars, bootVars, cur, link, brokerVars, callVars, hand, seen, ann, dials>>

Receiving == loop = "recv" /\ wire[cur] # <<>> /\ wire' = [wire EXCEPT ![cur] = Tail(@)]

\* Recv skips a peers reply, forwardPeers having loaded the sink.
RecvPeers ==
  /\ Receiving /\ Head(wire[cur]).what = "peers"
  /\ IF sink[cur] = 0 THEN UNCHANGED <<loop, hand>>
     ELSE loop' = "forward" /\ hand' = [n |-> Head(wire[cur]).n, to |-> sink[cur]]
  /\ UNCHANGED <<mcpVars, bootVars, cur, link, asked, replied, acked, pushes, callVars, seen, ann, dials>>

\* Mutant: the send waits for its reader or for the end of the context.
ForwardBlocks ==
  /\ loop = "forward"
  /\ \/ hand.to = taken /\ srv = "wait" /\ chan' = <<[conn |-> cur, n |-> hand.n]>>
     \/ cancelled /\ UNCHANGED chan
  /\ loop' = "recv" /\ hand' = Nothing
  /\ UNCHANGED <<mcpVars, bootVars, cur, link, brokerVars, sink, via, gaveUp, seen, ann, dials>>

\* The send that does not block: into the loaded channel if it is empty.  Nobody reads
\* the channel of a call that is over.
ForwardPeers ==
  /\ loop = "forward"
  /\ chan' = IF hand.to = taken /\ chan = <<>> THEN <<[conn |-> cur, n |-> hand.n]>> ELSE chan
  /\ loop' = "recv" /\ hand' = Nothing
  /\ UNCHANGED <<mcpVars, bootVars, cur, link, brokerVars, sink, via, gaveUp, seen, ann, dials>>

\* Recv and the dedupe of surface; module Adapter has the cache and forged frames.
RecvDeliver ==
  /\ Receiving /\ Head(wire[cur]).what = "deliver"
  /\ hand' = [n |-> Head(wire[cur]).n, to |-> 0]
  /\ loop' = IF hand'.n \in seen THEN "ack" ELSE "handle"
  /\ UNCHANGED <<mcpVars, bootVars, cur, link, asked, replied, acked, pushes, callVars, seen, ann, dials>>

\* genericBus.handle: into the buffer.
HandleBuffers ==
  /\ loop = "handle" /\ mode = "generic"
  /\ seen' = seen \cup {hand.n}
  /\ loop' = "ack"
  /\ UNCHANGED <<mcpVars, bootVars, cur, link, brokerVars, callVars, hand, ann, dials>>

\* Mutant: a delivery that comes before the handshake is over is skipped.
HandlePushesLater ==
  /\ loop = "handle" /\ mode = "cc"
  /\ IF initCh = "closed" THEN LockOut(PumpWriter, Push(hand.n)) /\ loop' = "pushing"
                          ELSE loop' = "ack" /\ UNCHANGED outVars
  /\ UNCHANGED <<hostVars, taken, cancelled, srv, reply, initVars,
                 bootVars, cur, link, brokerVars, callVars, hand, seen, ann, dials>>

\* ccBus.handle: Notify, under the write lock of stdout.
HandlePushes ==
  /\ loop = "handle" /\ mode = "cc"
  /\ LockOut(PumpWriter, Push(hand.n))
  /\ loop' = "pushing"
  /\ UNCHANGED <<hostVars, taken, cancelled, srv, reply, initVars,
                 bootVars, cur, link, brokerVars, callVars, hand, seen, ann, dials>>

PushEnds ==
  /\ loop = "pushing"
  /\ FinishOut(PumpWriter)
  /\ seen' = seen \cup {hand.n}
  /\ loop' = "ack"
  /\ UNCHANGED <<hostVars, taken, cancelled, srv, reply, initVars,
                 bootVars, cur, link, brokerVars, callVars, hand, ann, dials>>

\* An ack that fails is ignored; one on a working socket may still be lost.
AckDelivery ==
  /\ loop = "ack"
  /\ \/ link[cur] = "up" /\ acked' = acked \cup {hand.n}
     \/ UNCHANGED acked
  /\ loop' = "recv" /\ hand' = Nothing
  /\ UNCHANGED <<mcpVars, bootVars, cur, link, asked, replied, wire, pushes, callVars, seen, ann, dials>>

\* Mutant: Run redials without closing the Client.
RecvFailsOpen ==
  /\ loop = "recv" /\ (link[cur] = "dead" \/ cancelled)
  /\ link' = [link EXCEPT ![cur] = "dead"]
  /\ wire' = [wire EXCEPT ![cur] = <<>>]
  /\ loop' = IF cancelled THEN "ended" ELSE "connect"
  /\ UNCHANGED <<mcpVars, bootVars, cur, asked, replied, acked, pushes, callVars, hand, seen, ann, dials>>

\* The read fails, the Client is closed, and Run ends with its context or redials.
RecvFails ==
  /\ loop = "recv" /\ (link[cur] = "dead" \/ cancelled)
  /\ link' = [link EXCEPT ![cur] = "closed"]
  /\ wire' = [wire EXCEPT ![cur] = <<>>]
  /\ loop' = IF cancelled THEN "ended" ELSE "connect"
  /\ UNCHANGED <<mcpVars, bootVars, cur, asked, replied, acked, pushes, callVars, hand, seen, ann, dials>>

Pump ==
  \/ RecvPeers \/ ForwardPeers \/ RecvDeliver \/ HandleBuffers \/ HandlePushes \/ PushEnds
  \/ AckDelivery \/ RecvFails \/ ConnectCancelled

----------------------------------------------------------------------------
(* the onConnect goroutines of the cc mode *)

\* Mutant: the callback does not wait for the handshake.
AnnounceAtOnce(c) ==
  /\ ann[c] = "waiting"
  /\ LockOut(c, Announcement(c))
  /\ ann' = [ann EXCEPT ![c] = "writing"]
  /\ UNCHANGED <<hostVars, taken, cancelled, srv, reply, initVars,
                 bootVars, cur, link, brokerVars, callVars, loop, hand, seen, dials>>

AnnounceSelf(c) ==
  /\ ann[c] = "waiting" /\ initCh = "closed"
  /\ LockOut(c, Announcement(c))
  /\ ann' = [ann EXCEPT ![c] = "writing"]
  /\ UNCHANGED <<hostVars, taken, cancelled, srv, reply, initVars,
                 bootVars, cur, link, brokerVars, callVars, loop, hand, seen, dials>>

AnnounceEnds(c) ==
  /\ ann[c] = "writing"
  /\ FinishOut(c)
  /\ ann' = [ann EXCEPT ![c] = "done"]
  /\ UNCHANGED <<hostVars, taken, cancelled, srv, reply, initVars,
                 bootVars, cur, link, brokerVars, callVars, loop, hand, seen, dials>>

AnnounceCancelled(c) ==
  /\ ann[c] = "waiting" /\ cancelled
  /\ ann' = [ann EXCEPT ![c] = "done"]
  /\ UNCHANGED <<mcpVars, bootVars, cur, link, brokerVars, callVars, loop, hand, seen, dials>>

Announce(c) == AnnounceSelf(c) \/ AnnounceEnds(c) \/ AnnounceCancelled(c)

----------------------------------------------------------------------------
(* the broker and the network *)

Working == cur # 0 /\ link[cur] = "up"

BrokerReplies ==
  /\ Working /\ replied[cur] < asked[cur]
  /\ replied' = [replied EXCEPT ![cur] = @ + 1]
  /\ wire' = [wire EXCEPT ![cur] = Append(@, PeersReply(replied'[cur]))]
  /\ UNCHANGED <<mcpVars, bootVars, cur, link, asked, acked, pushes, callVars, loopVars>>

BrokerDelivers(i) ==
  /\ Working /\ i \notin acked /\ pushes > 0
  /\ pushes' = pushes - 1
  /\ wire' = [wire EXCEPT ![cur] = Append(@, DeliverFrame(i))]
  /\ UNCHANGED <<mcpVars, bootVars, cur, link, asked, replied, acked, callVars, loopVars>>

\* The socket breaks; what is on its way may be read first or be lost.
Break ==
  /\ Working
  /\ link' = [link EXCEPT ![cur] = "dead"]
  /\ UNCHANGED <<mcpVars, bootVars, cur, brokerVars, callVars, loopVars>>

----------------------------------------------------------------------------

Exited == boot = "failed" \/ (srv = "returned" /\ cancelled /\ loop \in {"gone", "ended"})

\* The end of the process is the only place where it may stop.
Exit == Exited /\ UNCHANGED vars

Surroundings ==
  \/ ((HostWrites \/ HostCloses) /\ UNCHANGED <<bootVars, cur, link, brokerVars, callVars, loopVars>>)
  \/ (~cancelled /\ Cancel /\ UNCHANGED <<bootVars, cur, link, brokerVars, callVars, loopVars>>)
  \/ BrokerReplies \/ Break \/ \E i \in Deliveries : BrokerDelivers(i)

Next ==
  \/ Exit
  \/ /\ ~Exited
     /\ \/ Probe \/ ServeStep \/ Stop \/ Connect \/ ConnectClaimed \/ Pump
        \/ \E c \in Conns : Announce(c)
        \/ Surroundings

Spec == Init /\ [][Next]_vars

\* Where Serve may wait for good: in a write to a broker that does not read, or behind the
\* pump's write on the same Client; in the read it has closed the input of, while the host
\* neither writes nor closes; in the flush of a response, while the host does not read.
WriteWaits == srv = "request" /\ link[via] = "up" /\ ~cancelled
ReadWaits == srv = "reap" /\ taken = fed /\ ~eof
ServeWaits == WriteWaits \/ ReadWaits \/ srv = "flush"

\* Where the pump may: in the write of an ack, and in the flush of a push.
PumpWaits == (loop = "ack" /\ link[cur] = "up" /\ ~cancelled) \/ loop = "pushing"

\* The process's own goroutines run when they can, except where they wait for the host
\* or the broker; a dial and a register come back with some result.  Nothing is assumed
\* of the host, the broker or the network, and nothing of a reconnect.
FairSpec ==
  /\ Spec
  /\ WF_vars(Probe) /\ WF_vars(Stop)
  /\ WF_vars(~ServeWaits /\ ServeStep) /\ WF_vars(~PumpWaits /\ Pump)
  /\ \A c \in Conns : WF_vars(~Exited /\ ann[c] # "writing" /\ Announce(c))
==============================================================================
