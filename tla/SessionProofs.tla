---------------------------- MODULE SessionProofs ----------------------------
(***************************************************************************)
(* One adapter process, for any mode, host, number of connections and      *)
(* deliveries: the write lock of stdout, the initialized signal, the acks  *)
(* of pushes and the peers sink.                                           *)
(***************************************************************************)
EXTENDS SessionProperties, Integers, FiniteSetTheorems, SequenceTheorems, TLAPS

----------------------------------------------------------------------------
(* The steps *)

\* What a step of the Serve loop leaves alone: outside a bus call, in a bus call, and
\* when it writes a request.
BySelf == UNCHANGED <<bootVars, cur, link, brokerVars, callVars, loopVars>>
ByCall == UNCHANGED <<bootVars, cur, link, brokerVars, loopVars>>
ByRequest == UNCHANGED <<bootVars, cur, link, loopVars>>

ServeSteps ==
  \/ Top \/ Take \/ SignalInitialized \/ WriteReply \/ FlushReply
  \/ EndOfInput \/ Interrupt \/ Reap
CallSteps == LoadClient \/ InstallSink \/ TakeAnswer \/ GiveUp \/ RemoveSink
HostSteps == HostWrites \/ HostCloses \/ Cancel

\* A step of the process is one of these.
LEMMA NextCases ==
  ASSUME [Next]_vars
  PROVE  \/ UNCHANGED vars
         \/ ProbeAccepted \/ ProbeClaimed \/ ProbeFails
         \/ boot = "running" /\ Request /\ ByRequest
         \/ boot = "running" /\ CallSteps /\ ByCall
         \/ boot = "running" /\ ServeSteps /\ BySelf
         \/ HostSteps /\ BySelf
         \/ Connect \/ ConnectClaimed \/ ConnectCancelled
         \/ RecvPeers \/ ForwardPeers \/ RecvDeliver \/ HandleBuffers \/ HandlePushes
         \/ PushEnds \/ AckDelivery \/ RecvFails
         \/ \E c \in Conns : AnnounceSelf(c) \/ AnnounceEnds(c) \/ AnnounceCancelled(c)
         \/ BrokerReplies \/ Break \/ \E i \in Deliveries : BrokerDelivers(i)
BY Zenon DEF Next, Exit, Probe, ServeStep, CallTool, Serve, Stop, Pump, Announce, Surroundings,
   BySelf, ByCall, ByRequest, ServeSteps, CallSteps, HostSteps

USE DEF ProbeAccepted, ProbeClaimed, ProbeFails, Request, LoadClient, InstallSink, TakeAnswer,
  GiveUp, RemoveSink, Top, Take, SignalInitialized, WriteReply, FlushReply, EndOfInput,
  Interrupt, Reap, HostWrites, HostCloses, Cancel, Connect, ConnectClaimed, ConnectCancelled,
  RecvPeers, ForwardPeers, RecvDeliver, HandleBuffers, HandlePushes, PushEnds, AckDelivery,
  RecvFails, AnnounceSelf, AnnounceEnds, AnnounceCancelled, BrokerReplies, Break, BrokerDelivers,
  ByRequest, CallSteps, ByCall, ServeSteps, BySelf, HostSteps,
  vars, bootVars, mcpVars, hostVars, outVars, initVars, brokerVars, callVars, loopVars

\* Which steps touch the pipe and the context.
LEMMA HostEvolves ==
  ASSUME [Next]_vars
  PROVE  UNCHANGED <<script, fed, taken, eof, cancelled>> \/ HostSteps \/ Take
BY NextCases, ZenonT(60)

\* ... the start of the mode.
LEMMA BootEvolves ==
  ASSUME [Next]_vars
  PROVE  UNCHANGED <<mode, boot, left>> \/ ProbeAccepted \/ ProbeClaimed \/ ProbeFails
BY NextCases, ZenonT(60)

\* ... the place of the Serve loop and its response.
LEMMA ServeEvolves ==
  ASSUME [Next]_vars
  PROVE  \/ UNCHANGED <<srv, reply>>
         \/ boot = "running" /\ Request /\ ByRequest
         \/ boot = "running" /\ CallSteps /\ ByCall
         \/ boot = "running" /\ ServeSteps /\ BySelf
BY NextCases, ZenonT(60)

\* ... the initialized signal.
LEMMA SignalEvolves ==
  ASSUME [Next]_vars
  PROVE  UNCHANGED <<ready, initCh, signalled>> \/ ProbeAccepted \/ Take \/ SignalInitialized
BY NextCases, ZenonT(60)

\* ... stdout.
LEMMA OutEvolves ==
  ASSUME [Next]_vars
  PROVE  \/ UNCHANGED <<line, replies, notes, wmu>>
         \/ WriteReply /\ BySelf
         \/ FlushReply /\ BySelf
         \/ HandlePushes \/ PushEnds
         \/ \E c \in Conns : AnnounceSelf(c) \/ AnnounceEnds(c)
BY NextCases, ZenonT(120)

\* ... what the broker and the peer have sent each other.
LEMMA BrokerEvolves ==
  ASSUME [Next]_vars
  PROVE  \/ UNCHANGED <<asked, replied, wire, acked, pushes>>
         \/ Request /\ ByRequest
         \/ RecvPeers \/ RecvDeliver \/ RecvFails \/ AckDelivery
         \/ BrokerReplies \/ \E i \in Deliveries : BrokerDelivers(i)
BY NextCases, ZenonT(60)

\* ... the bus call.
LEMMA CallEvolves ==
  ASSUME [Next]_vars
  PROVE  \/ UNCHANGED <<sink, via, chan, gaveUp>>
         \/ CallSteps /\ ByCall
         \/ ForwardPeers
BY NextCases, ZenonT(60)

\* ... the resume loop.
LEMMA LoopEvolves ==
  ASSUME [Next]_vars
  PROVE  \/ UNCHANGED <<cur, link, loop, hand, seen, dials>>
         \/ Connect \/ ConnectClaimed \/ ConnectCancelled
         \/ RecvPeers \/ ForwardPeers \/ RecvDeliver \/ HandleBuffers \/ HandlePushes
         \/ PushEnds \/ AckDelivery \/ RecvFails \/ Break
BY NextCases, ZenonT(60)

\* ... the announcements.
LEMMA AnnounceEvolves ==
  ASSUME [Next]_vars
  PROVE  \/ UNCHANGED ann
         \/ Connect
         \/ \E c \in Conns : AnnounceSelf(c) \/ AnnounceEnds(c) \/ AnnounceCancelled(c)
BY NextCases, ZenonT(60)

HIDE DEF ProbeAccepted, ProbeClaimed, ProbeFails, Request, LoadClient, InstallSink, TakeAnswer,
  GiveUp, RemoveSink, Top, Take, SignalInitialized, WriteReply, FlushReply, EndOfInput,
  Interrupt, Reap, HostWrites, HostCloses, Cancel, Connect, ConnectClaimed, ConnectCancelled,
  RecvPeers, ForwardPeers, RecvDeliver, HandleBuffers, HandlePushes, PushEnds, AckDelivery,
  RecvFails, AnnounceSelf, AnnounceEnds, AnnounceCancelled, BrokerReplies, Break, BrokerDelivers,
  ByRequest, CallSteps, ByCall, ServeSteps, BySelf, HostSteps,
  vars, bootVars, mcpVars, hostVars, outVars, initVars, brokerVars, callVars, loopVars

----------------------------------------------------------------------------
(* The initialized signal *)

\* The channel is closed only once the signal has been given, the signal only after the
\* host's notification was read, and before Serve runs there is none of it.
ReadyInv ==
  /\ boot = "probe" => srv = "top" /\ ~ready /\ ~signalled /\ initCh = "nil"
  /\ initCh = "closed" => signalled
  /\ signalled \/ srv = "signal" => ready
  /\ ready => \E i \in 1..taken : script[i].method = "initialized"

\* Only ProbeAccepted, Take and SignalInitialized touch the signal, in that order.
LEMMA ReadyStep ==
  ASSUME taken \in Nat, ReadyInv, [Next]_vars PROVE ReadyInv'
<1> USE DEF ReadyInv, bootVars, mcpVars, hostVars, outVars, initVars
<1>1. CASE ProbeAccepted
  BY <1>1 DEF ProbeAccepted, Initialized
<1>2. CASE ProbeClaimed \/ ProbeFails
  BY <1>2 DEF ProbeClaimed, ProbeFails
<1>3. CASE boot = "running" /\ Request /\ ByRequest
  BY <1>3 DEF Request, ByRequest, Written, NotWritten, Sent, Failed, Answer
<1>4. CASE boot = "running" /\ CallSteps /\ ByCall
  BY <1>4 DEF CallSteps, ByCall, LoadClient, InstallSink, TakeAnswer, GiveUp, RemoveSink,
     Failed, Answer
<1>5. CASE boot = "running" /\ ServeSteps /\ BySelf
  <2>1. CASE Take
    <3>1. PICK m : m = Incoming
      OBVIOUS
    <3>2. ready' = (ready \/ m.method = "initialized") /\ taken' = taken + 1 /\ script' = script
          /\ UNCHANGED <<initCh, signalled>> /\ boot' = boot
      BY <1>5, <2>1, <3>1 DEF Take, BySelf
    <3>3. srv' = "signal" => m.method = "initialized"
      BY <2>1, <3>1 DEF Take
    <3>4. taken + 1 \in 1..taken' /\ \A i \in 1..taken : i \in 1..taken'
      BY <3>2
    <3>5. ready' => \E i \in 1..taken' : script'[i].method = "initialized"
      BY <3>1, <3>2, <3>4 DEF Incoming
    <3> QED
      BY <1>5, <3>2, <3>3, <3>5
  <2>2. CASE SignalInitialized
    BY <1>5, <2>2 DEF SignalInitialized, BySelf
  <2>3. CASE Top \/ WriteReply \/ FlushReply \/ EndOfInput \/ Interrupt \/ Reap
    BY <1>5, <2>3 DEF Top, WriteReply, FlushReply, EndOfInput, Interrupt, Reap, BySelf
  <2> QED
    BY <1>5, <2>1, <2>2, <2>3 DEF ServeSteps
<1>6. CASE HostSteps /\ BySelf
  BY <1>6 DEF HostSteps, HostWrites, HostCloses, Cancel, BySelf
<1>7. CASE Connect \/ ConnectClaimed \/ ConnectCancelled
  BY <1>7 DEF Connect, ConnectClaimed, ConnectCancelled
<1>8. CASE RecvPeers \/ ForwardPeers \/ RecvDeliver \/ HandleBuffers \/ HandlePushes
  BY <1>8 DEF RecvPeers, ForwardPeers, RecvDeliver, HandleBuffers, HandlePushes
<1>9. CASE PushEnds \/ AckDelivery \/ RecvFails
  BY <1>9 DEF PushEnds, AckDelivery, RecvFails
<1>10. ASSUME NEW c \in Conns, AnnounceSelf(c) \/ AnnounceEnds(c) \/ AnnounceCancelled(c)
       PROVE  ReadyInv'
  BY <1>10 DEF AnnounceSelf, AnnounceEnds, AnnounceCancelled
<1>11. CASE BrokerReplies \/ Break
  BY <1>11 DEF BrokerReplies, Break
<1>12. ASSUME NEW i \in Deliveries, BrokerDelivers(i) PROVE ReadyInv'
  BY <1>12 DEF BrokerDelivers
<1>13. CASE UNCHANGED vars
  BY <1>13 DEF vars
<1> QED
  BY <1>1, <1>2, <1>3, <1>4, <1>5, <1>6, <1>7, <1>8, <1>9, <1>10, <1>11, <1>12, <1>13, NextCases

----------------------------------------------------------------------------
(* Types *)

Frames == [what : {"deliver"}, n : Deliveries] \cup [what : {"peers"}, n : Nat]
CallPlaces == {"sink", "request", "wait", "unsink"}
Offline == {"connect", "gone", "ended"}

\* What the two loops hold at each place: the types of what is on the wire and in hand,
\* a Client in each call that has loaded one and in a resume loop that is connected.
ShapeInv ==
  /\ wire \in [Conns -> Seq(Frames)]
  /\ hand.to \in 0..taken
  /\ loop \in {"handle", "pushing", "ack"} => hand.n \in Deliveries
  /\ loop = "forward" => hand.n \in Nat /\ hand.to # 0
  /\ srv \in ToolPlaces => taken # 0 /\ Current.method \in Tools
  /\ srv \in CallPlaces => via \in 1..cur
  /\ loop \notin Offline => cur # 0
  /\ cur + dials <= MaxConns

\* The types of the message at hand.
LEMMA MessageTypes ==
  ASSUME McpTypeOK, NEW n \in 1..Len(script)
  PROVE  script[n] \in Messages /\ script[n].id \in Nat /\ script[n].method \in Methods
<1>1. script \in Seq(Messages)
  BY McpAssumption DEF McpTypeOK
<1>2. script[n] \in Messages
  BY <1>1, ElementOfSeq
<1> QED
  BY <1>2 DEF Messages

\* The id of the request a bus call works on.
LEMMA CurrentTypes ==
  ASSUME TypeOK, ShapeInv, srv \in ToolPlaces
  PROVE  Current.id \in Nat
<1>1. taken \in 1..Len(script)
  BY McpAssumption DEF TypeOK, McpTypeOK, ShapeInv, ToolPlaces
<1> QED
  BY <1>1, MessageTypes DEF TypeOK, Current

\* TypeOK and ShapeInv together are inductive, given the initialized signal.
LEMMA TypeStep ==
  ASSUME TypeOK, ShapeInv, ReadyInv, [Next]_vars PROVE TypeOK' /\ ShapeInv'
<1>0. /\ MaxConns \in Nat /\ Retries \in Nat /\ Ahead \in Nat
      /\ 0 \in Writers /\ PumpWriter \in Writers /\ Conns \subseteq Writers
  BY SessionAssumption, McpAssumption DEF PumpWriter, Conns
<1>1. Len(script) \in Nat /\ fed \in Nat /\ taken \in Nat /\ cur \in Nat /\ via \in Nat /\ dials \in Nat
  <2>1. script \in Seq(Messages)
    BY McpAssumption DEF TypeOK, McpTypeOK
  <2>2. Len(script) \in Nat
    BY <2>1
  <2> QED
    BY <1>0, <2>2 DEF TypeOK, McpTypeOK
<1>2. /\ cur # 0 => cur \in Conns
      /\ via \in 1..cur => via \in Conns
  BY <1>0, <1>1 DEF TypeOK, Conns
<1>3. /\ script' \in Scripts
      /\ fed' \in 0..Len(script') /\ taken' \in 0..fed' /\ fed' - taken' <= Ahead
      /\ eof' \in BOOLEAN /\ cancelled' \in BOOLEAN
  <2>1. CASE UNCHANGED <<script, fed, taken, eof, cancelled>>
    BY <2>1 DEF TypeOK, McpTypeOK
  <2>2. CASE HostSteps \/ Take
    <3>1. script' = script
      BY <2>2 DEF HostSteps, HostWrites, HostCloses, Cancel, Take, hostVars
    <3>2. fed' \in 0..Len(script) /\ taken' \in 0..fed' /\ fed' - taken' <= Ahead
      <4>1. \/ fed' = fed /\ taken' = taken
            \/ fed' = fed + 1 /\ taken' = taken /\ fed < Len(script) /\ fed - taken < Ahead
            \/ fed' = fed /\ taken' = taken + 1 /\ taken < fed
        BY <2>2 DEF HostSteps, HostWrites, HostCloses, Cancel, Take, hostVars
      <4> QED
        BY <1>0, <1>1, <4>1 DEF TypeOK, McpTypeOK
    <3>3. eof' \in {eof, TRUE} /\ cancelled' \in {cancelled, TRUE}
      BY <2>2 DEF HostSteps, HostWrites, HostCloses, Cancel, Take, hostVars
    <3> QED
      BY <3>1, <3>2, <3>3 DEF TypeOK, McpTypeOK
  <2> QED
    BY <2>1, <2>2, HostEvolves
<1>4. taken' \in Nat /\ taken <= taken' /\ (taken' # taken => Take)
  <2>1. taken' = taken \/ (Take /\ taken' = taken + 1)
    BY HostEvolves, Zenon DEF HostSteps, HostWrites, HostCloses, Cancel, Take, hostVars
  <2> QED
    BY <1>1, <2>1
<1>5. mode' \in {"generic", "cc"} /\ boot' \in {"probe", "running", "failed"} /\ left' \in 0..Retries
  BY <1>0, BootEvolves DEF ProbeAccepted, ProbeClaimed, ProbeFails, TypeOK
<1>6. ASSUME srv \in ToolPlaces, NEW k \in ReplyKinds PROVE Reply(Current.id, k) \in Replies
  BY <1>6, CurrentTypes DEF Reply, Replies
<1>7. ASSUME Take
      PROVE  /\ Current'.method \in Methods
             /\ reply' \in Replies
             /\ srv' \in {"signal", "returned", "call", "write", "top"}
             /\ srv' = "call" => Current'.method \in Tools
             /\ taken' = taken + 1
  <2>1. taken + 1 \in 1..Len(script) /\ taken' = taken + 1 /\ script' = script
    BY <1>1, <1>7 DEF Take, TypeOK, McpTypeOK, hostVars
  <2>2. PICK m : m = Incoming /\ m \in Messages /\ m.id \in Nat /\ m.method \in Methods
    BY <2>1, MessageTypes DEF Incoming, TypeOK
  <2>3. Response(m) \in Replies
    BY <2>2 DEF Response, Reply, Replies, ReplyKinds
  <2>4. reply' \in Replies
    BY <1>7, <2>2, <2>3 DEF Take, TypeOK, McpTypeOK
  <2>5. srv' \in {"signal", "returned", "call", "write", "top"} /\ (srv' = "call" => m.method \in Tools)
    BY <1>7, <2>2 DEF Take
  <2>6. Current' = m
    BY <2>1, <2>2 DEF Current, Incoming
  <2> QED
    BY <2>1, <2>2, <2>4, <2>5, <2>6
<1>8. srv' \in ServePlaces /\ reply' \in Replies
  <2>1. CASE UNCHANGED <<srv, reply>>
    BY <2>1 DEF TypeOK, McpTypeOK
  <2>2. CASE Request
    BY <1>6, <2>2 DEF Request, Written, NotWritten, Sent, Failed, Answer, ServePlaces, ToolPlaces,
       ReplyKinds, TypeOK, McpTypeOK
  <2>3. CASE CallSteps
    BY <1>6, <2>3 DEF CallSteps, LoadClient, InstallSink, TakeAnswer, GiveUp, RemoveSink, Failed,
       Answer, ServePlaces, ToolPlaces, ReplyKinds, TypeOK, McpTypeOK
  <2>4. CASE Take
    BY <1>7, <2>4 DEF ServePlaces, ToolPlaces
  <2>5. CASE FlushReply
    BY <2>5 DEF FlushReply, NoReply, Reply, Replies, ReplyKinds, ServePlaces
  <2>6. CASE Top \/ SignalInitialized \/ WriteReply \/ EndOfInput \/ Interrupt \/ Reap
    BY <2>6 DEF Top, SignalInitialized, WriteReply, EndOfInput, Interrupt, Reap, ServePlaces,
       TypeOK, McpTypeOK
  <2> QED
    BY <2>1, <2>2, <2>3, <2>4, <2>5, <2>6, ServeEvolves DEF ServeSteps
<1>9. ready' \in BOOLEAN /\ signalled' \in BOOLEAN /\ initCh' \in {"nil", "open", "closed"}
  BY SignalEvolves DEF ProbeAccepted, Initialized, Take, SignalInitialized, ReadyInv, TypeOK, McpTypeOK
<1>10. wmu' \subseteq Writers
  <2>1. CASE UNCHANGED <<line, replies, notes, wmu>>
    BY <2>1 DEF TypeOK, McpTypeOK
  <2>2. CASE WriteReply \/ FlushReply \/ HandlePushes \/ PushEnds
    BY <1>0, <2>2 DEF WriteReply, FlushReply, HandlePushes, PushEnds, LockOut, FinishOut, TypeOK, McpTypeOK
  <2>3. ASSUME NEW c \in Conns, AnnounceSelf(c) \/ AnnounceEnds(c) PROVE wmu' \subseteq Writers
    BY <1>0, <2>3 DEF AnnounceSelf, AnnounceEnds, LockOut, FinishOut, TypeOK, McpTypeOK
  <2> QED
    BY <2>1, <2>2, <2>3, OutEvolves
<1>11. ann' \in [Conns -> {"none", "waiting", "writing", "done"}]
  BY AnnounceEvolves DEF Connect, AnnounceSelf, AnnounceEnds, AnnounceCancelled, TypeOK
<1>12. ASSUME Receiving
       PROVE  cur \in Conns /\ Head(wire[cur]) \in Frames /\ wire' \in [Conns -> Seq(Frames)]
  <2>1. cur \in Conns
    BY <1>2, <1>12 DEF Receiving, ShapeInv, Offline
  <2>2. wire[cur] \in Seq(Frames) /\ wire[cur] # <<>>
    BY <1>12, <2>1 DEF Receiving, ShapeInv
  <2>3. Head(wire[cur]) \in Frames /\ Tail(wire[cur]) \in Seq(Frames)
    BY <2>2, HeadTailProperties
  <2> QED
    BY <1>12, <2>1, <2>3 DEF Receiving, ShapeInv
<1>13. /\ cur' \in 0..MaxConns /\ dials' \in 0..MaxConns /\ cur' + dials' <= MaxConns
       /\ cur <= cur'
  <2>1. \/ UNCHANGED <<cur, dials>>
        \/ Connect
    BY LoopEvolves, Zenon DEF ConnectClaimed, ConnectCancelled, Break, RecvPeers, RecvDeliver, ForwardPeers,
       HandleBuffers, HandlePushes, PushEnds, AckDelivery, RecvFails, brokerVars, loopVars
  <2>2. CASE UNCHANGED <<cur, dials>>
    BY <1>1, <2>2 DEF TypeOK, ShapeInv
  <2>3. CASE Connect
    <3>1. dials > 0 /\ dials' = dials - 1 /\ cur' = cur + 1
      BY <2>3 DEF Connect
    <3> QED
      BY <1>0, <1>1, <3>1 DEF TypeOK, ShapeInv
  <2> QED
    BY <2>1, <2>2, <2>3
<1>14. /\ loop' \notin Offline => cur' # 0
       /\ loop' \in {"connect", "recv", "forward", "handle", "pushing", "ack", "gone", "ended"}
       /\ link' \in [Conns -> {"new", "up", "dead", "closed"}]
       /\ seen' \subseteq Deliveries
  <2> USE DEF TypeOK, ShapeInv, Offline
  <2>1. CASE UNCHANGED <<cur, link, loop, hand, seen, dials>>
    BY <2>1
  <2>2. CASE Connect
    <3>1. cur' # 0
      BY <1>1, <2>2 DEF Connect
    <3> QED
      BY <2>2, <3>1 DEF Connect
  <2>3. CASE ConnectClaimed \/ ConnectCancelled \/ Break
    BY <2>3 DEF ConnectClaimed, ConnectCancelled, Break, brokerVars, loopVars
  <2>4. CASE RecvPeers \/ RecvDeliver
    <3>1. loop = "recv" /\ loop' \in {"recv", "forward", "ack", "handle"} /\ UNCHANGED <<cur, link, seen>>
      BY <2>4 DEF RecvPeers, RecvDeliver, Receiving
    <3> QED
      BY <3>1
  <2>5. CASE ForwardPeers \/ HandleBuffers \/ HandlePushes
    BY <2>5 DEF ForwardPeers, HandleBuffers, HandlePushes
  <2>6. CASE PushEnds \/ AckDelivery
    BY <2>6 DEF PushEnds, AckDelivery
  <2>7. CASE RecvFails
    BY <2>7 DEF RecvFails
  <2> QED
    BY <2>1, <2>2, <2>3, <2>4, <2>5, <2>6, <2>7, LoopEvolves
<1>15. /\ hand'.to \in 0..taken'
       /\ loop' \in {"handle", "pushing", "ack"} => hand'.n \in Deliveries
       /\ loop' = "forward" => hand'.n \in Nat /\ hand'.to # 0
  <2>1. CASE UNCHANGED <<cur, link, loop, hand, seen, dials>>
    BY <1>1, <1>4, <2>1 DEF ShapeInv
  <2>2. CASE Connect \/ ConnectClaimed \/ ConnectCancelled \/ Break \/ RecvFails
    BY <1>1, <1>4, <2>2 DEF Connect, ConnectClaimed, ConnectCancelled, Break, RecvFails, loopVars, ShapeInv
  <2>3. CASE RecvPeers
    <3>1. sink[cur] \in 0..taken /\ Head(wire[cur]).n \in Nat /\ loop = "recv"
      BY <1>12, <2>3 DEF RecvPeers, Receiving, Frames, TypeOK
    <3> QED
      BY <1>1, <1>4, <2>3, <3>1 DEF RecvPeers, ShapeInv
  <2>4. CASE RecvDeliver
    <3>1. Head(wire[cur]).n \in Deliveries
      BY <1>12, <2>4 DEF RecvDeliver, Frames
    <3> QED
      BY <1>1, <1>4, <2>4, <3>1 DEF RecvDeliver
  <2>5. CASE ForwardPeers \/ AckDelivery
    BY <1>1, <1>4, <2>5 DEF ForwardPeers, AckDelivery, Nothing
  <2>6. CASE HandleBuffers \/ HandlePushes \/ PushEnds
    BY <1>1, <1>4, <2>6 DEF HandleBuffers, HandlePushes, PushEnds, ShapeInv
  <2> QED
    BY <2>1, <2>2, <2>3, <2>4, <2>5, <2>6, LoopEvolves
<1>16. /\ wire' \in [Conns -> Seq(Frames)]
       /\ asked' \in [Conns -> Nat] /\ replied' \in [Conns -> Nat]
       /\ acked' \subseteq Deliveries /\ pushes' \in Nat
  <2>1. CASE UNCHANGED <<asked, replied, wire, acked, pushes>>
    BY <2>1 DEF TypeOK, ShapeInv
  <2>2. CASE Request
    <3>1. asked' \in [Conns -> Nat]
      BY <2>2 DEF Request, Written, NotWritten, TypeOK
    <3> QED
      BY <2>2, <3>1 DEF Request, TypeOK, ShapeInv
  <2>3. CASE RecvPeers \/ RecvDeliver
    BY <1>12, <2>3 DEF RecvPeers, RecvDeliver, TypeOK
  <2>4. CASE RecvFails
    <3>1. <<>> \in Seq(Frames)
      OBVIOUS
    <3> QED
      BY <2>4, <3>1 DEF RecvFails, TypeOK, ShapeInv
  <2>7. CASE AckDelivery
    BY <2>7 DEF AckDelivery, TypeOK, ShapeInv
  <2>5. CASE BrokerReplies
    <3>1. cur \in Conns /\ replied' \in [Conns -> Nat] /\ replied'[cur] \in Nat
      BY <1>2, <2>5 DEF BrokerReplies, Working, TypeOK
    <3>2. PeersReply(replied'[cur]) \in Frames
      BY <3>1 DEF PeersReply, Frames
    <3>3. wire' \in [Conns -> Seq(Frames)]
      BY <2>5, <3>1, <3>2 DEF BrokerReplies, ShapeInv
    <3> QED
      BY <2>5, <3>1, <3>3 DEF BrokerReplies, TypeOK
  <2>6. ASSUME NEW i \in Deliveries, BrokerDelivers(i)
        PROVE  /\ wire' \in [Conns -> Seq(Frames)]
               /\ asked' \in [Conns -> Nat] /\ replied' \in [Conns -> Nat]
               /\ acked' \subseteq Deliveries /\ pushes' \in Nat
    <3>1. DeliverFrame(i) \in Frames
      BY DEF DeliverFrame, Frames
    <3>2. wire' \in [Conns -> Seq(Frames)]
      BY <1>2, <2>6, <3>1 DEF BrokerDelivers, Working, ShapeInv
    <3> QED
      BY <2>6, <3>2 DEF BrokerDelivers, TypeOK
  <2> QED
    BY <2>1, <2>2, <2>3, <2>4, <2>5, <2>6, <2>7, BrokerEvolves
<1>17. sink' \in [Conns -> 0..taken'] /\ Len(chan') <= 1 /\ gaveUp' \in [Conns -> Nat] /\ via' \in 0..MaxConns
  <2>1. CASE UNCHANGED <<sink, via, chan, gaveUp>>
    BY <1>1, <1>4, <2>1 DEF TypeOK
  <2>2. CASE CallSteps
    <3>1. taken' = taken
      BY <2>2 DEF CallSteps, LoadClient, InstallSink, TakeAnswer, GiveUp, RemoveSink
    <3>2. via' \in {via, cur, 0} /\ (chan' = chan \/ chan' = <<>>)
      BY <2>2 DEF CallSteps, LoadClient, InstallSink, TakeAnswer, GiveUp, RemoveSink
    <3>3. sink' \in [Conns -> 0..taken]
      <4>1. sink' = sink \/ sink' = [sink EXCEPT ![via] = taken] \/ sink' = [sink EXCEPT ![via] = 0]
        BY <2>2 DEF CallSteps, LoadClient, InstallSink, TakeAnswer, GiveUp, RemoveSink
      <4>2. sink \in [Conns -> 0..taken] /\ taken \in Nat
        BY <1>1 DEF TypeOK
      <4> QED
        BY <4>1, <4>2
    <3>4. gaveUp' \in [Conns -> Nat]
      BY <2>2 DEF CallSteps, LoadClient, InstallSink, TakeAnswer, GiveUp, RemoveSink, TypeOK
    <3> QED
      BY <1>0, <3>1, <3>2, <3>3, <3>4 DEF TypeOK
  <2>3. CASE ForwardPeers
    BY <1>1, <1>4, <2>3 DEF ForwardPeers, mcpVars, TypeOK
  <2> QED
    BY <2>1, <2>2, <2>3, CallEvolves
<1>18. srv' \in ToolPlaces => taken' # 0 /\ Current'.method \in Tools
  <2>1. CASE Take
    BY <1>1, <1>7, <2>1 DEF ToolPlaces
  <2>2. CASE ~Take
    <3>1. taken' = taken /\ script' = script
      BY <1>4, <2>2, HostEvolves DEF HostSteps, HostWrites, HostCloses, Cancel, hostVars
    <3>2. srv' \in ToolPlaces => srv \in ToolPlaces
      BY <2>2, ServeEvolves DEF ServeSteps, CallSteps, Request, Written, NotWritten, Sent, Failed,
         Answer, LoadClient, InstallSink, TakeAnswer, GiveUp, RemoveSink, Top, SignalInitialized,
         WriteReply, FlushReply, EndOfInput, Interrupt, Reap, ToolPlaces
    <3> QED
      BY <3>1, <3>2 DEF ShapeInv, Current
  <2> QED
    BY <2>1, <2>2
<1>19. srv' \in CallPlaces => via' \in 1..cur'
  <2>1. CASE UNCHANGED <<srv, reply>>
    <3>1. srv \in CallPlaces => via' = via
      BY CallEvolves, <2>1 DEF CallSteps, LoadClient, InstallSink, TakeAnswer, GiveUp, RemoveSink, Failed,
         Answer, ForwardPeers, CallPlaces
    <3> QED
      BY <1>1, <1>13, <2>1, <3>1 DEF ShapeInv
  <2>2. CASE Request /\ ByRequest
    BY <2>2 DEF Request, callVars, Written, NotWritten, Sent, Failed, Answer, ByRequest, CallPlaces, ShapeInv
  <2>3. CASE CallSteps /\ ByCall
    BY <1>1, <2>3 DEF CallSteps, LoadClient, InstallSink, TakeAnswer, GiveUp, RemoveSink, Failed, Answer,
       ByCall, CallPlaces, ShapeInv
  <2>4. CASE ServeSteps
    BY <1>7, <2>4 DEF ServeSteps, Top, SignalInitialized, WriteReply, FlushReply, EndOfInput,
       Interrupt, Reap, CallPlaces
  <2> QED
    BY <2>1, <2>2, <2>3, <2>4, ServeEvolves
<1>20. McpTypeOK'
  BY <1>3, <1>8, <1>9, <1>10 DEF McpTypeOK
<1>21. TypeOK'
  BY <1>5, <1>11, <1>13, <1>16, <1>17, <1>20, <1>14 DEF TypeOK
<1> QED
  BY <1>13, <1>15, <1>16, <1>18, <1>19, <1>21, <1>14 DEF ShapeInv

\* Every variable keeps its type, whatever the host, the broker and the network do; in
\* particular the channel of the initialized signal is never closed twice.
THEOREM TypeInvariant == Spec => [](TypeOK /\ ShapeInv /\ ReadyInv)
<1>1. Init => TypeOK /\ ShapeInv /\ ReadyInv
  <2> SUFFICES ASSUME Init PROVE TypeOK /\ ShapeInv /\ ReadyInv
    OBVIOUS
  <2>1. PICK s \in Scenes : mode = s.mode /\ script = s.script /\ dials = s.dials /\ pushes = s.pushes
    BY DEF Init
  <2>2. /\ mode \in {"generic", "cc"} /\ dials \in 0..MaxConns /\ pushes \in Nat
        /\ MaxConns \in Nat /\ Retries \in Nat /\ Ahead \in Nat
    BY <2>1, SessionAssumption, McpAssumption
  <2>3. script \in Scripts /\ Len(script) \in Nat
    BY McpAssumption DEF Init, McpInit
  <2>4. McpTypeOK
    <3>1. McpInit
      BY DEF Init
    <3>2. NoReply \in Replies
      BY DEF NoReply, Reply, Replies, ReplyKinds
    <3>3. fed \in 0..Len(script) /\ taken \in 0..fed /\ fed - taken <= Ahead
      BY <2>2, <2>3, <3>1 DEF McpInit
    <3>4. srv \in ServePlaces /\ reply \in Replies /\ wmu \subseteq Writers
      BY <3>1, <3>2 DEF McpInit, ServePlaces
    <3>5. eof \in BOOLEAN /\ cancelled \in BOOLEAN /\ ready \in BOOLEAN /\ signalled \in BOOLEAN
          /\ initCh \in {"nil", "open", "closed"}
      BY <3>1 DEF McpInit
    <3> QED
      BY <2>3, <3>3, <3>4, <3>5 DEF McpTypeOK
  <2>5. left \in 0..Retries
    BY <2>2 DEF Init
  <2>6. TypeOK
    BY <2>2, <2>4, <2>5 DEF Init, McpInit, TypeOK
  <2>7. ShapeInv
    BY <2>2 DEF Init, McpInit, ShapeInv, Nothing, ToolPlaces, CallPlaces, Offline
  <2>8. ReadyInv
    BY DEF Init, McpInit, ReadyInv
  <2> QED
    BY <2>6, <2>7, <2>8
<1>2. TypeOK /\ ShapeInv /\ ReadyInv /\ [Next]_vars => (TypeOK /\ ShapeInv /\ ReadyInv)'
  <2>1. TypeOK => taken \in Nat
    <3>1. TypeOK => script \in Seq(Messages)
      BY McpAssumption DEF TypeOK, McpTypeOK
    <3> QED
      BY <3>1 DEF TypeOK, McpTypeOK
  <2> QED
    BY <2>1, TypeStep, ReadyStep
<1> QED
  BY <1>1, <1>2, PTL DEF Spec

\* The types TypeOK names, as a run checks them.
THEOREM TypeCorrect == Spec => []TypeOK
BY TypeInvariant, PTL

----------------------------------------------------------------------------
(* The write lock of stdout *)

\* One goroutine at most is between its body and its newline, and the body on the line is
\* its own: the response of Serve, the push of the delivery in hand, or an announcement
\* that the host was ready for.
LineInv ==
  /\ \/ wmu = {} /\ line = <<>>
     \/ \E w \in Writers : wmu = {w} /\ line = <<line[1]>>
  /\ 0 \in wmu => srv = "flush" /\ line[1] = reply
  /\ PumpWriter \in wmu => loop = "pushing" /\ line[1].what = "push" /\ line[1].id = hand.n
  /\ \A c \in Conns \cap wmu : line[1].what = "announce" /\ line[1].heard

\* The writers are different goroutines.
LEMMA WritersDiffer ==
  /\ 0 \in Writers /\ PumpWriter \in Writers /\ Conns \subseteq Writers
  /\ 0 # PumpWriter /\ 0 \notin Conns /\ PumpWriter \notin Conns
BY SessionAssumption, McpAssumption DEF PumpWriter, Conns

\* What the lock lets a writer do: take it when it is free, and give back its own line.
LEMMA LockOutProperties ==
  ASSUME LineInv, NEW w \in Writers, NEW body, LockOut(w, body)
  PROVE  wmu = {} /\ wmu' = {w} /\ line' = <<body>> /\ line'[1] = body
<1>1. wmu = {} /\ line = <<>> /\ wmu' = {w} /\ line' = Append(line, body)
  BY DEF LockOut, LineInv
<1>2. Append(<<>>, body) = <<body>>
  OBVIOUS
<1> QED
  BY <1>1, <1>2

\* A line that ends is its writer's own body, and goes to the host as what it is.
LEMMA FinishOutProperties ==
  ASSUME LineInv, NEW w \in Writers, FinishOut(w)
  PROVE  /\ wmu = {w} /\ wmu' = {} /\ line' = <<>> /\ line = <<line[1]>>
         /\ line[1].what = "reply" => replies' = Append(replies, line[1].id) /\ notes' = notes
         /\ line[1].what # "reply" => replies' = replies /\ notes' = notes \cup {line[1]}
<1>1. wmu = {w} /\ line = <<line[1]>>
  BY DEF FinishOut, LineInv
<1>2. Len(line) = 1
  BY <1>1
<1> QED
  BY <1>1, <1>2 DEF FinishOut

\* Where the other goroutines are when one holds the lock: the steps that leave stdout
\* alone leave its holder at its place.
LEMMA HolderStays ==
  ASSUME LineInv, [Next]_vars, UNCHANGED <<line, wmu>>
  PROVE  LineInv'
<1>1. 0 \in wmu => UNCHANGED <<srv, reply>>
  <2> SUFFICES ASSUME 0 \in wmu PROVE UNCHANGED <<srv, reply>>
    OBVIOUS
  <2>1. srv = "flush"
    BY DEF LineInv
  <2>2. ~FlushReply
    BY DEF FlushReply, FinishOut
  <2> QED
    BY <2>1, <2>2, ServeEvolves DEF Request, CallSteps, LoadClient, InstallSink, TakeAnswer, GiveUp,
       RemoveSink, ServeSteps, Top, Take, SignalInitialized, WriteReply, EndOfInput, Interrupt, Reap
<1>2. PumpWriter \in wmu => UNCHANGED <<loop, hand>>
  <2> SUFFICES ASSUME PumpWriter \in wmu PROVE UNCHANGED <<loop, hand>>
    OBVIOUS
  <2>1. loop = "pushing"
    BY DEF LineInv
  <2>2. ~PushEnds
    BY DEF PushEnds, FinishOut
  <2> QED
    BY <2>1, <2>2, LoopEvolves DEF Connect, ConnectClaimed, ConnectCancelled, RecvPeers, RecvDeliver,
       Receiving, ForwardPeers, HandleBuffers, HandlePushes, AckDelivery, RecvFails, Break, loopVars
<1> QED
  BY <1>1, <1>2 DEF LineInv

\* The lock keeps LineInv, and an announcement waits until the host is ready.
LEMMA LineStep ==
  ASSUME TypeOK, ReadyInv, LineInv, [Next]_vars PROVE LineInv'
<1> USE WritersDiffer
<1>1. CASE UNCHANGED <<line, replies, notes, wmu>>
  BY <1>1, HolderStays
<1>2. CASE WriteReply /\ BySelf
  <2>1. wmu' = {0} /\ line' = <<reply>> /\ line'[1] = reply
    BY <1>2, LockOutProperties DEF WriteReply
  <2>2. srv' = "flush" /\ reply' = reply
    BY <1>2 DEF WriteReply
  <2> QED
    BY <2>1, <2>2 DEF LineInv
<1>3. CASE FlushReply /\ BySelf
  <2>1. wmu' = {} /\ line' = <<>>
    BY <1>3, FinishOutProperties DEF FlushReply
  <2> QED
    BY <2>1 DEF LineInv
<1>4. CASE HandlePushes
  <2>1. PICK b : b = Push(hand.n)
    OBVIOUS
  <2>2. b.what = "push" /\ b.id = hand.n
    BY <2>1 DEF Push
  <2>3. wmu' = {PumpWriter} /\ line' = <<b>> /\ line'[1] = b
    BY <1>4, <2>1, LockOutProperties DEF HandlePushes
  <2>4. loop' = "pushing" /\ hand' = hand
    BY <1>4 DEF HandlePushes
  <2> QED
    BY <2>2, <2>3, <2>4 DEF LineInv
<1>5. CASE PushEnds
  <2>1. wmu' = {} /\ line' = <<>>
    BY <1>5, FinishOutProperties DEF PushEnds
  <2> QED
    BY <2>1 DEF LineInv
<1>6. ASSUME NEW c \in Conns, AnnounceSelf(c) PROVE LineInv'
  <2>1. HostReady
    <3>1. PICK i \in 1..taken : script[i].method = "initialized"
      BY <1>6 DEF AnnounceSelf, ReadyInv
    <3>2. script \in Seq(Messages)
      BY McpAssumption DEF TypeOK, McpTypeOK
    <3>3. i \in 1..fed
      BY <3>2 DEF TypeOK, McpTypeOK
    <3> QED
      BY <3>1, <3>3 DEF HostReady
  <2>2. PICK b : b = Announcement(c)
    OBVIOUS
  <2>3. b.what = "announce" /\ b.heard
    BY <2>1, <2>2 DEF Announcement
  <2>4. wmu' = {c} /\ line' = <<b>> /\ line'[1] = b
    BY <1>6, <2>2, LockOutProperties DEF AnnounceSelf
  <2> QED
    BY <2>3, <2>4 DEF LineInv
<1>7. ASSUME NEW c \in Conns, AnnounceEnds(c) PROVE LineInv'
  <2>1. wmu' = {} /\ line' = <<>>
    BY <1>7, FinishOutProperties DEF AnnounceEnds
  <2> QED
    BY <2>1 DEF LineInv
<1> QED
  BY <1>1, <1>2, <1>3, <1>4, <1>5, <1>6, <1>7, OutEvolves

\* LineInv holds throughout.
LEMMA LineInvariant == Spec => []LineInv
<1>1. Init => LineInv
  BY DEF Init, McpInit, LineInv
<1>2. TypeOK /\ ReadyInv /\ LineInv /\ [Next]_vars => LineInv'
  BY LineStep
<1> QED
  BY <1>1, <1>2, TypeInvariant, PTL DEF Spec

\* Lines of stdout stay whole, however responses, pushes and announcements interleave.
THEOREM FramesStayWhole == Spec => []FramesWhole
<1>1. LineInv => FramesWhole
  <2> SUFFICES ASSUME LineInv PROVE Len(line) <= 1
    BY DEF FramesWhole
  <2>1. line = <<>> \/ line = <<line[1]>>
    BY DEF LineInv
  <2> QED
    BY <2>1
<1> QED
  BY <1>1, LineInvariant, PTL

----------------------------------------------------------------------------
(* Announcements and pushes *)

\* No announcement is dropped for coming too early: every one was written after the
\* host's initialized notification, on every connection and across reconnects.
THEOREM AnnouncementsAreHeard == Spec => []AnnouncedIsHeard
<1>1. Init => AnnouncedIsHeard
  BY DEF Init, McpInit, AnnouncedIsHeard
<1>2. TypeOK /\ LineInv /\ AnnouncedIsHeard /\ [Next]_vars => AnnouncedIsHeard'
  <2> SUFFICES ASSUME TypeOK, LineInv, AnnouncedIsHeard, [Next]_vars PROVE AnnouncedIsHeard'
    OBVIOUS
  <2> USE WritersDiffer
  <2>1. CASE notes' = notes
    BY <2>1 DEF AnnouncedIsHeard
  <2>2. CASE FlushReply
    <3>1. wmu = {0} /\ (notes' = notes \/ notes' = notes \cup {line[1]}) /\ line[1] = reply
          /\ (line[1].what = "reply" => notes' = notes)
      BY <2>2, FinishOutProperties DEF FlushReply, LineInv
    <3>2. reply.what = "reply"
      BY DEF TypeOK, McpTypeOK, Replies
    <3> QED
      BY <2>1, <3>1, <3>2
  <2>3. CASE PushEnds
    <3>1. wmu = {PumpWriter} /\ (notes' = notes \/ notes' = notes \cup {line[1]})
      BY <2>3, FinishOutProperties DEF PushEnds
    <3>2. line[1].what = "push"
      BY <3>1 DEF LineInv
    <3> QED
      BY <3>1, <3>2 DEF AnnouncedIsHeard
  <2>4. ASSUME NEW c \in Conns, AnnounceEnds(c) PROVE AnnouncedIsHeard'
    <3>1. wmu = {c} /\ (notes' = notes \/ notes' = notes \cup {line[1]})
      BY <2>4, FinishOutProperties DEF AnnounceEnds
    <3>2. line[1].heard
      BY <3>1 DEF LineInv
    <3> QED
      BY <3>1, <3>2 DEF AnnouncedIsHeard
  <2>5. CASE WriteReply \/ HandlePushes
    BY <2>1, <2>5 DEF WriteReply, HandlePushes, LockOut
  <2>6. ASSUME NEW c \in Conns, AnnounceSelf(c) PROVE AnnouncedIsHeard'
    BY <2>1, <2>6 DEF AnnounceSelf, LockOut
  <2> QED
    BY <2>1, <2>2, <2>3, <2>4, <2>5, <2>6, OutEvolves
<1> QED
  BY <1>1, <1>2, LineInvariant, TypeInvariant, PTL DEF Spec

\* Row i has reached the session in full.
Pushed(i) == \E x \in notes : x.what = "push" /\ x.id = i

\* In the cc mode the resume loop remembers, acks and is about to ack only what it pushed.
PushInv ==
  mode = "cc" =>
    /\ \A i \in seen \cup acked : Pushed(i)
    /\ loop = "ack" => Pushed(hand.n)

\* What the session has got stays.
LEMMA NotesStay == ASSUME LineInv, [Next]_vars PROVE notes \subseteq notes'
<1>1. CASE FlushReply \/ PushEnds \/ WriteReply \/ HandlePushes
  BY <1>1 DEF FlushReply, PushEnds, WriteReply, HandlePushes, LockOut, FinishOut
<1>2. ASSUME NEW c \in Conns, AnnounceSelf(c) \/ AnnounceEnds(c) PROVE notes \subseteq notes'
  BY <1>2 DEF AnnounceSelf, AnnounceEnds, LockOut, FinishOut
<1> QED
  BY <1>1, <1>2, OutEvolves

\* Only a push that has ended, or a duplicate of one, comes to be acked.
LEMMA PushStep == ASSUME LineInv, PushInv, [Next]_vars PROVE PushInv'
<1> SUFFICES ASSUME mode' = "cc"
             PROVE  /\ \A i \in seen' \cup acked' : Pushed(i)'
                    /\ \A i : (loop' = "ack" /\ hand'.n = i) => Pushed(i)'
  BY DEF PushInv, Pushed
<1>1. mode = "cc"
  BY BootEvolves DEF ProbeAccepted, ProbeClaimed, ProbeFails
<1>2. \A i : Pushed(i) => Pushed(i)'
  BY NotesStay DEF Pushed
<1>3. /\ \A i \in seen \cup acked : Pushed(i)'
      /\ \A i : (loop = "ack" /\ hand.n = i) => Pushed(i)'
  BY <1>1, <1>2 DEF PushInv
<1>4. acked' \subseteq acked \/ (loop = "ack" /\ acked' \subseteq acked \cup {hand.n})
  <2>1. ASSUME NEW i \in Deliveries, BrokerDelivers(i) PROVE acked' = acked
    BY <2>1 DEF BrokerDelivers
  <2> QED
    BY <2>1, BrokerEvolves DEF Request, RecvPeers, RecvDeliver, RecvFails, AckDelivery, BrokerReplies
<1>5. \A i \in acked' : Pushed(i)'
  BY <1>3, <1>4
<1>6. CASE PushEnds
  <2>1. wmu = {PumpWriter} /\ (line[1].what # "reply" => notes' = notes \cup {line[1]})
    BY <1>6, FinishOutProperties, WritersDiffer DEF PushEnds
  <2>2. line[1].what = "push" /\ line[1].id = hand.n
    BY <2>1 DEF LineInv
  <2>3. \A i : i = hand.n => Pushed(i)'
    BY <2>1, <2>2 DEF Pushed
  <2> QED
    BY <1>3, <1>5, <1>6, <2>3 DEF PushEnds
<1>7. CASE RecvDeliver
  BY <1>3, <1>5, <1>7 DEF RecvDeliver
<1>8. CASE HandleBuffers
  BY <1>1, <1>8 DEF HandleBuffers
<1>9. CASE Connect \/ ConnectClaimed \/ ConnectCancelled \/ RecvPeers \/ ForwardPeers
  BY <1>3, <1>5, <1>9 DEF Connect, ConnectClaimed, ConnectCancelled, RecvPeers, Receiving, ForwardPeers
<1>10. CASE HandlePushes \/ AckDelivery \/ RecvFails \/ Break
  BY <1>3, <1>5, <1>10 DEF HandlePushes, AckDelivery, RecvFails, Break, loopVars
<1>11. CASE UNCHANGED <<cur, link, loop, hand, seen, dials>>
  BY <1>3, <1>5, <1>11
<1> QED
  BY <1>6, <1>7, <1>8, <1>9, <1>10, <1>11, LoopEvolves

\* The cc mode acks nothing that the session has not been sent in full, through any
\* redeliveries, lost acks and reconnects.
THEOREM AckedIsPushed == Spec => []AckedWasPushed
<1>1. Init => PushInv
  BY DEF Init, PushInv
<1>2. LineInv /\ PushInv /\ [Next]_vars => PushInv'
  BY PushStep
<1>3. PushInv => AckedWasPushed
  BY DEF PushInv, AckedWasPushed, Pushed
<1> QED
  BY <1>1, <1>2, <1>3, LineInvariant, PTL DEF Spec

----------------------------------------------------------------------------
(* A process without a bus *)

\* A socket that takes writes is the current Client's, and its resume loop is connected.
LinkInv == \A c \in Conns : link[c] \in {"up", "dead"} => c = cur /\ loop \notin Offline

\* Run closes its Client before it leaves recv.
LEMMA LinkStep == ASSUME TypeOK, ShapeInv, LinkInv, [Next]_vars PROVE LinkInv'
<1> USE DEF Offline
<1>1. CASE UNCHANGED <<cur, link, loop, hand, seen, dials>>
  BY <1>1 DEF LinkInv
<1>2. CASE Connect
  BY <1>2 DEF Connect, LinkInv, TypeOK
<1>3. CASE ConnectClaimed \/ ConnectCancelled
  BY <1>3 DEF ConnectClaimed, ConnectCancelled, LinkInv
<1>4. CASE RecvPeers \/ RecvDeliver \/ ForwardPeers \/ HandleBuffers
  BY <1>4 DEF RecvPeers, RecvDeliver, Receiving, ForwardPeers, HandleBuffers, LinkInv
<1>5. CASE HandlePushes \/ PushEnds \/ AckDelivery
  BY <1>5 DEF HandlePushes, PushEnds, AckDelivery, LinkInv
<1>6. CASE RecvFails
  BY <1>6 DEF RecvFails, LinkInv, TypeOK
<1>7. CASE Break
  BY <1>7 DEF Break, Working, LinkInv, TypeOK, loopVars
<1> QED
  BY <1>1, <1>2, <1>3, <1>4, <1>5, <1>6, <1>7, LoopEvolves

\* Once the name is lost to a rival, no bus call reports success: the step that ends a
\* request made without a resume loop answers with a failure.
THEOREM GoneIsNeverSilent == Spec => NeverSilent
<1>1. Init => LinkInv
  BY DEF Init, LinkInv
<1>2. TypeOK /\ ShapeInv /\ LinkInv /\ [Next]_vars => LinkInv'
  BY LinkStep
<1>3. TypeOK /\ ShapeInv /\ LinkInv /\ [Next]_vars
        => [(loop = "gone" /\ srv = "request" /\ srv' # "request") => reply'.kind = "failure"]_vars
  <2> SUFFICES ASSUME TypeOK, ShapeInv, LinkInv, [Next]_vars,
                      loop = "gone", srv = "request", srv' # "request"
               PROVE  reply'.kind = "failure"
    OBVIOUS
  <2>1. Request
    BY ServeEvolves DEF CallSteps, LoadClient, InstallSink, TakeAnswer, GiveUp, RemoveSink, ServeSteps,
       Top, Take, SignalInitialized, WriteReply, FlushReply, EndOfInput, Interrupt, Reap
  <2>2. via \in Conns
    <3>1. via \in 1..cur /\ MaxConns \in Nat
      BY SessionAssumption DEF ShapeInv, CallPlaces
    <3> QED
      BY <3>1 DEF TypeOK, Conns
  <2>3. ~Written
    BY <2>2 DEF Written, LinkInv, Offline
  <2>4. NotWritten
    BY <2>1, <2>3 DEF Request
  <2>5. reply' = Reply(Current.id, "failure")
    BY <2>4 DEF NotWritten, Failed, Answer
  <2> QED
    BY <2>5 DEF Reply
<1> QED
  BY <1>1, <1>2, <1>3, TypeInvariant, PTL DEF Spec, NeverSilent

----------------------------------------------------------------------------
(* Peers replies *)

\* The sink is the current call's, on the Client it has loaded, and forwardPeers has in
\* hand either that call's channel, loaded from that Client, or that of an earlier call.
Sinking == {"request", "wait", "unsink"}

SinkInv ==
  /\ \A c \in Conns : sink[c] # 0 =>
       c = via /\ sink[c] = taken /\ srv \in Sinking /\ Current.method = "peers"
  /\ srv = "sink" => Current.method = "peers"
  /\ srv = "request" /\ Current.method = "peers" => sink[via] = taken
  /\ srv = "wait" => sink[via] = taken
  /\ srv \in {"call", "sink"} => hand.to # taken
  /\ loop = "forward" /\ hand.to = taken /\ srv \in Sinking => via = cur

\* Facts of the types that the steps below use.
LEMMA SessionFacts ==
  ASSUME TypeOK, ShapeInv
  PROVE  /\ taken \in Nat /\ cur \in Nat /\ hand.to \in 0..taken
         /\ srv \in CallPlaces => via \in Conns /\ via # 0
         /\ loop \notin Offline => cur \in Conns /\ cur # 0
         /\ srv \in ToolPlaces => taken # 0
<1>1. MaxConns \in Nat /\ script \in Seq(Messages)
  BY SessionAssumption, McpAssumption DEF TypeOK, McpTypeOK
<1>2. taken \in Nat /\ cur \in 0..MaxConns /\ via \in 0..MaxConns
  BY <1>1 DEF TypeOK, McpTypeOK
<1>3. srv \in CallPlaces => via \in 1..cur
  BY DEF ShapeInv
<1>4. loop \notin Offline => cur # 0
  BY DEF ShapeInv
<1> QED
  BY <1>1, <1>2, <1>3, <1>4 DEF ShapeInv, Conns

\* A sink is installed and removed by one call, on one Client, and no call overlaps the next.
LEMMA SinkStep == ASSUME TypeOK, ShapeInv, SinkInv, [Next]_vars PROVE SinkInv'
<1>0. /\ taken \in Nat /\ cur \in Nat /\ hand.to \in 0..taken
      /\ srv \in CallPlaces => via \in Conns /\ via # 0
      /\ loop \notin Offline => cur \in Conns /\ cur # 0
      /\ srv \in ToolPlaces => taken # 0
      /\ sink \in [Conns -> 0..taken]
  BY SessionFacts DEF TypeOK
<1> USE DEF Sinking
<1>1. CASE Take /\ BySelf
  <2>1. srv = "read" /\ taken' = taken + 1 /\ srv' \notin CallPlaces
    BY <1>1 DEF Take, CallPlaces
  <2>2. UNCHANGED <<sink, via, loop, hand, cur>>
    BY <1>1 DEF BySelf, callVars, loopVars
  <2>3. \A c \in Conns : sink[c] = 0
    BY <2>1 DEF SinkInv
  <2>4. hand.to # taken'
    BY <1>0, <2>1
  <2> QED
    BY <2>1, <2>2, <2>3, <2>4 DEF SinkInv, CallPlaces
<1>2. ASSUME taken' = taken, script' = script, UNCHANGED <<srv, sink, via>>,
             \/ UNCHANGED <<hand, cur>> /\ (loop' = loop \/ loop' # "forward")
             \/ loop' # "forward" /\ hand'.to = 0
             \/ loop' # "forward" /\ hand' = hand
             \/ cur' = cur /\ hand'.to = sink[cur] /\ loop = "recv"
      PROVE  SinkInv'
  <2>1. Current' = Current
    BY <1>2 DEF Current
  <2>2. CASE UNCHANGED <<hand, cur>> /\ (loop' = loop \/ loop' # "forward")
    BY <1>2, <2>1, <2>2 DEF SinkInv
  <2>3. CASE loop' # "forward" /\ (hand'.to = 0 \/ hand' = hand)
    BY <1>0, <1>2, <2>1, <2>3 DEF SinkInv, ToolPlaces
  <2>4. CASE cur' = cur /\ hand'.to = sink[cur] /\ loop = "recv"
    <3>1. cur \in Conns
      BY <1>0, <2>4 DEF Offline
    <3>2. srv \in {"call", "sink"} => sink[cur] = 0 /\ taken # 0
      BY <1>0, <3>1 DEF SinkInv, ToolPlaces
    <3>3. srv \in Sinking /\ hand'.to = taken => via = cur
      BY <1>0, <2>4, <3>1 DEF SinkInv, ToolPlaces
    <3> QED
      BY <1>2, <2>1, <2>4, <3>2, <3>3 DEF SinkInv
  <2> QED
    BY <1>2, <2>2, <2>3, <2>4
<1>3. CASE Request /\ ByRequest
  <2>1. /\ srv = "request" /\ srv' \in {"wait", "unsink", "write"} /\ (srv' = "wait" => Current.method = "peers")
        /\ (srv' \notin Sinking => Current.method # "peers")
    BY <1>3 DEF Request, Written, NotWritten, Sent, Failed, Answer
  <2>2. UNCHANGED <<taken, script, sink, via, loop, hand, cur>>
    BY <1>3 DEF Request, ByRequest, callVars, hostVars, loopVars
  <2>a. Current' = Current
    BY <2>2 DEF Current
  <2>3. CASE srv' \in Sinking
    BY <2>1, <2>2, <2>a, <2>3 DEF SinkInv
  <2>4. CASE srv' \notin Sinking
    <3>1. \A c \in Conns : sink[c] = 0
      BY <1>0, <2>1, <2>4 DEF SinkInv
    <3> QED
      BY <2>1, <2>2, <2>a, <2>4, <3>1 DEF SinkInv
  <2> QED
    BY <2>3, <2>4
<1>4. CASE CallSteps /\ ByCall
  <2>1. UNCHANGED <<taken, script, loop, hand, cur>>
    BY <1>4 DEF CallSteps, LoadClient, InstallSink, TakeAnswer, GiveUp, RemoveSink, ByCall, hostVars, loopVars
  <2>2. Current' = Current
    BY <2>1 DEF Current
  <2>3. CASE LoadClient
    <3>1. /\ srv = "call" /\ sink' = sink /\ srv' \in {"write", "sink", "request"}
          /\ (srv' = "sink" => Current.method = "peers") /\ (srv' = "request" => Current.method # "peers")
      BY <2>3 DEF LoadClient, Failed, Answer
    <3>2. \A c \in Conns : sink[c] = 0
      BY <3>1 DEF SinkInv
    <3>3. hand.to # taken
      BY <3>1 DEF SinkInv
    <3> QED
      BY <2>1, <2>2, <3>1, <3>2, <3>3 DEF SinkInv
  <2>4. CASE InstallSink
    <3>1. srv = "sink" /\ srv' = "request" /\ via' = via /\ sink' = [sink EXCEPT ![via] = taken]
      BY <2>4 DEF InstallSink
    <3>2. via \in Conns /\ Current.method = "peers" /\ hand.to # taken /\ \A c \in Conns : sink[c] = 0
      BY <1>0, <3>1 DEF SinkInv, CallPlaces
    <3>3. \A c \in Conns : sink'[c] = IF c = via THEN taken ELSE 0
      BY <1>0, <3>1, <3>2
    <3> QED
      BY <2>1, <2>2, <3>1, <3>2, <3>3 DEF SinkInv
  <2>5. CASE TakeAnswer \/ GiveUp
    <3>1. srv = "wait" /\ srv' = "unsink" /\ UNCHANGED <<sink, via>>
      BY <2>5 DEF TakeAnswer, GiveUp
    <3> QED
      BY <2>1, <2>2, <3>1 DEF SinkInv
  <2>6. CASE RemoveSink
    <3>1. srv = "unsink" /\ srv' = "write" /\ sink' = [sink EXCEPT ![via] = 0]
      BY <2>6 DEF RemoveSink
    <3>2. \A c \in Conns : sink'[c] = 0
      BY <1>0, <3>1 DEF SinkInv
    <3> QED
      BY <3>1, <3>2 DEF SinkInv
  <2> QED
    BY <1>4, <2>3, <2>4, <2>5, <2>6 DEF CallSteps
<1>5. CASE ServeSteps /\ BySelf /\ ~Take
  <2>1. srv \notin Sinking /\ srv' \notin Sinking \cup {"call", "sink"}
    BY <1>5 DEF ServeSteps, Top, SignalInitialized, WriteReply, FlushReply, EndOfInput, Interrupt, Reap
  <2>2. sink' = sink
    BY <1>5 DEF BySelf, callVars
  <2> QED
    BY <2>1, <2>2 DEF SinkInv
<1>6. CASE UNCHANGED <<srv, reply>>
  <2>1. ~Take
    BY <1>6 DEF Take
  <2>2. taken' = taken /\ script' = script
    BY <2>1, HostEvolves DEF HostSteps, HostWrites, HostCloses, Cancel, hostVars
  <2>3. UNCHANGED <<sink, via>>
    BY <1>6, CallEvolves DEF CallSteps, LoadClient, InstallSink, TakeAnswer, GiveUp, RemoveSink, Failed,
       Answer, ForwardPeers
  <2>4. CASE Connect \/ ConnectClaimed \/ ConnectCancelled
    BY <1>2, <1>6, <2>2, <2>3, <2>4 DEF Connect, ConnectClaimed, ConnectCancelled
  <2>5. CASE RecvPeers
    <3>1. loop = "recv" /\ cur' = cur /\ (UNCHANGED <<loop, hand>> \/ hand'.to = sink[cur])
      BY <2>5 DEF RecvPeers, Receiving
    <3> QED
      BY <1>2, <1>6, <2>2, <2>3, <3>1
  <2>6. CASE ForwardPeers \/ AckDelivery
    <3>1. loop' # "forward" /\ hand'.to = 0
      BY <2>6 DEF ForwardPeers, AckDelivery, Nothing
    <3> QED
      BY <1>2, <1>6, <2>2, <2>3, <3>1
  <2>7. CASE RecvDeliver
    <3>1. loop' # "forward" /\ hand'.to = 0
      BY <2>7 DEF RecvDeliver
    <3> QED
      BY <1>2, <1>6, <2>2, <2>3, <3>1
  <2>8. CASE HandleBuffers \/ HandlePushes \/ PushEnds \/ RecvFails
    <3>1. loop' # "forward" /\ hand' = hand
      BY <2>8 DEF HandleBuffers, HandlePushes, PushEnds, RecvFails
    <3> QED
      BY <1>2, <1>6, <2>2, <2>3, <3>1
  <2>9. CASE Break \/ UNCHANGED <<cur, link, loop, hand, seen, dials>>
    <3>1. UNCHANGED <<cur, loop, hand>>
      BY <2>9 DEF Break, loopVars
    <3> QED
      BY <1>2, <1>6, <2>2, <2>3, <3>1
  <2> QED
    BY <2>4, <2>5, <2>6, <2>7, <2>8, <2>9, LoopEvolves
<1> QED
  BY <1>1, <1>3, <1>4, <1>5, <1>6, ServeEvolves DEF ServeSteps

\* The numbers of the peers replies on a connection: above n, up to n, and rising.
Above(s, n) == \A k \in 1..Len(s) : s[k].what = "peers" => n < s[k].n
UpTo(s, n) == \A k \in 1..Len(s) : s[k].what = "peers" => s[k].n <= n
Rising(s) ==
  \A j, k \in 1..Len(s) :
    (j < k /\ s[j].what = "peers" /\ s[k].what = "peers") => s[j].n < s[k].n

\* A peers reply carries a number.
LEMMA FrameNumber == ASSUME NEW f \in Frames, f.what = "peers" PROVE f.n \in Nat
BY DEF Frames

\* Taking the first frame off: the rest keeps its order, and a reply taken is behind it.
LEMMA TailOfFrames ==
  ASSUME NEW s \in Seq(Frames), s # <<>>
  PROVE  /\ \A n \in Int : Above(s, n) => Above(Tail(s), n)
         /\ \A n \in Int : UpTo(s, n) => UpTo(Tail(s), n)
         /\ Rising(s) => Rising(Tail(s))
         /\ Head(s).what = "peers" => /\ \A n \in Int : Above(s, n) => n < Head(s).n
                                      /\ \A n \in Int : UpTo(s, n) => Head(s).n <= n
                                      /\ Rising(s) => Above(Tail(s), Head(s).n)
<1>1. PICK k \in Nat : k = Len(s)
  OBVIOUS
<1>2. k # 0
  BY <1>1, EmptySeq
<1>3. Len(Tail(s)) = k - 1 /\ \A i \in 1..(k - 1) : Tail(s)[i] = s[i + 1]
  BY <1>1, <1>2
<1>4. Head(s) = s[1] /\ 1 \in 1..k
  BY <1>1, <1>2
<1>5. \A i \in 1..(k - 1) : i + 1 \in 1..k /\ 1 < i + 1
  BY <1>1
<1>6. \A n \in Int : Above(s, n) => Above(Tail(s), n)
  BY <1>1, <1>3, <1>5 DEF Above
<1>7. \A n \in Int : UpTo(s, n) => UpTo(Tail(s), n)
  BY <1>1, <1>3, <1>5 DEF UpTo
<1>8. Rising(s) => Rising(Tail(s))
  BY <1>1, <1>3, <1>5 DEF Rising
<1>9. Head(s).what = "peers" => /\ \A n \in Int : Above(s, n) => n < Head(s).n
                                /\ \A n \in Int : UpTo(s, n) => Head(s).n <= n
                                /\ Rising(s) => Above(Tail(s), Head(s).n)
  BY <1>1, <1>3, <1>4, <1>5 DEF Above, UpTo, Rising
<1> QED
  BY <1>6, <1>7, <1>8, <1>9

\* Appending a delivery, or a reply with a number above all that were sent.
LEMMA AppendedFrame ==
  ASSUME NEW s \in Seq(Frames), NEW f \in Frames, NEW r \in Nat, NEW q \in Nat,
         UpTo(s, r), Rising(s), r <= q, f.what = "peers" => r < f.n /\ f.n <= q
  PROVE  /\ \A n \in Int : n <= r /\ Above(s, n) => Above(Append(s, f), n)
         /\ UpTo(Append(s, f), q)
         /\ Rising(Append(s, f))
<1>1. PICK k \in Nat : k = Len(s)
  OBVIOUS
<1>2. PICK t : t = Append(s, f)
  OBVIOUS
<1>3. Len(t) = k + 1 /\ t[k + 1] = f /\ \A i \in 1..k : t[i] = s[i] /\ t[i] \in Frames
  BY <1>1, <1>2, AppendProperties
<1>4. \A i \in 1..(k + 1) : i \in 1..k \/ i = k + 1
  BY <1>1
<1>5. \A i \in 1..k : t[i].what = "peers" => t[i].n \in Nat /\ t[i].n <= r
  BY <1>1, <1>3, FrameNumber DEF UpTo
<1>6. f.what = "peers" => f.n \in Nat
  BY FrameNumber
<1>7. \A n \in Int : n <= r /\ Above(s, n) => Above(t, n)
  BY <1>1, <1>3, <1>4, <1>6 DEF Above
<1>8. UpTo(t, q)
  BY <1>1, <1>3, <1>4, <1>5, <1>6 DEF UpTo
<1>9. Rising(t)
  <2> SUFFICES ASSUME NEW i \in 1..(k + 1), NEW j \in 1..(k + 1), i < j,
                      t[i].what = "peers", t[j].what = "peers"
               PROVE  t[i].n < t[j].n
    BY <1>3 DEF Rising
  <2>1. i \in 1..k
    BY <1>1
  <2>2. CASE j \in 1..k
    BY <1>1, <1>3, <2>1, <2>2 DEF Rising
  <2>3. CASE j = k + 1
    BY <1>3, <1>5, <1>6, <2>1, <2>3
  <2> QED
    BY <1>4, <2>2, <2>3
<1> QED
  BY <1>2, <1>7, <1>8, <1>9

\* The broker numbers its replies: those on the wire rise, up to the last one sent, and
\* none is sent that was not asked for.
ReplyInv ==
  \A c \in Conns : replied[c] <= asked[c] /\ UpTo(wire[c], replied[c]) /\ Rising(wire[c])

\* What is numbered at most n is no longer on the wire, and never will be.
Behind(c, n) == n <= replied[c] /\ Above(wire[c], n)

\* A step either leaves a connection's replies alone, takes frames off its wire, or
\* appends one.
LEMMA ReplyStep ==
  ASSUME TypeOK, ShapeInv, ReplyInv, [Next]_vars
  PROVE  /\ ReplyInv'
         /\ \A c \in Conns, n \in Int : Behind(c, n) => Behind(c, n)'
<1>0. wire \in [Conns -> Seq(Frames)] /\ asked \in [Conns -> Nat] /\ replied \in [Conns -> Nat]
  BY DEF TypeOK, ShapeInv
<1>1. CASE UNCHANGED <<asked, replied, wire, acked, pushes>>
  BY <1>1 DEF ReplyInv, Behind
<1>2. CASE Request /\ ByRequest
  <2>1. UNCHANGED <<replied, wire>> /\ via \in Conns
    BY <1>2, SessionFacts DEF Request, CallPlaces
  <2>2. \A c \in Conns : asked[c] <= asked'[c] /\ asked'[c] \in Nat
    <3>1. asked' = asked \/ asked' = [asked EXCEPT ![via] = @ + 1]
      BY <1>2 DEF Request, Written, NotWritten
    <3>2. \A c \in Conns : asked'[c] = asked[c] \/ asked'[c] = asked[c] + 1
      BY <1>0, <3>1
    <3>3. \A c \in Conns : asked[c] \in Nat
      BY <1>0
    <3> QED
      BY <3>2, <3>3
  <2>3. \A c \in Conns : replied[c] <= asked'[c]
    BY <1>0, <2>2 DEF ReplyInv
  <2> QED
    BY <2>1, <2>3 DEF ReplyInv, Behind
<1>3. CASE AckDelivery
  BY <1>3 DEF AckDelivery, ReplyInv, Behind
<1>4. CASE RecvPeers \/ RecvDeliver
  <2>1. Receiving /\ UNCHANGED <<asked, replied>>
    BY <1>4 DEF RecvPeers, RecvDeliver
  <2>2. cur \in Conns /\ wire[cur] # <<>> /\ wire' = [wire EXCEPT ![cur] = Tail(@)]
    BY <2>1, SessionFacts DEF Receiving, Offline
  <2>3. \A c \in Conns : wire'[c] = IF c = cur THEN Tail(wire[cur]) ELSE wire[c]
    BY <1>0, <2>2
  <2>4. wire[cur] \in Seq(Frames)
    BY <1>0, <2>2
  <2>5. UpTo(Tail(wire[cur]), replied[cur]) /\ Rising(Tail(wire[cur]))
    BY <1>0, <2>2, <2>4, TailOfFrames DEF ReplyInv
  <2>6. \A n \in Int : Above(wire[cur], n) => Above(Tail(wire[cur]), n)
    BY <2>2, <2>4, TailOfFrames
  <2> QED
    BY <2>1, <2>3, <2>5, <2>6 DEF ReplyInv, Behind
<1>5. CASE RecvFails
  <2>1. UNCHANGED <<asked, replied>> /\ wire' = [wire EXCEPT ![cur] = <<>>]
    BY <1>5 DEF RecvFails
  <2>2. \A c \in Conns : wire'[c] = wire[c] \/ wire'[c] = <<>>
    BY <1>0, <2>1
  <2>3. \A n \in Int : Above(<<>>, n) /\ UpTo(<<>>, n) /\ Rising(<<>>)
    BY DEF Above, UpTo, Rising
  <2> QED
    BY <1>0, <2>1, <2>2, <2>3 DEF ReplyInv, Behind
<1>6. ASSUME NEW f \in Frames, cur \in Conns,
             wire' = [wire EXCEPT ![cur] = Append(@, f)], asked' = asked,
             \/ f.what # "peers" /\ replied' = replied
             \/ f.n = replied[cur] + 1 /\ f.n <= asked[cur] /\ replied' = [replied EXCEPT ![cur] = f.n]
      PROVE  /\ ReplyInv'
             /\ \A c \in Conns, n \in Int : Behind(c, n) => Behind(c, n)'
  <2>1. PICK r \in Nat : r = replied[cur]
    BY <1>0, <1>6
  <2>2. PICK q \in Nat : q = replied'[cur]
    BY <1>0, <1>6
  <2>3. r <= q /\ q <= asked[cur] /\ (f.what = "peers" => r < f.n /\ f.n <= q)
    BY <1>0, <1>6, <2>1, <2>2 DEF ReplyInv
  <2>4. wire[cur] \in Seq(Frames) /\ UpTo(wire[cur], r) /\ Rising(wire[cur])
    BY <1>0, <1>6, <2>1 DEF ReplyInv
  <2>5. /\ \A n \in Int : n <= r /\ Above(wire[cur], n) => Above(Append(wire[cur], f), n)
        /\ UpTo(Append(wire[cur], f), q)
        /\ Rising(Append(wire[cur], f))
    BY <2>3, <2>4, AppendedFrame
  <2>6. \A c \in Conns : c # cur => wire'[c] = wire[c] /\ replied'[c] = replied[c]
    BY <1>0, <1>6
  <2>7. wire'[cur] = Append(wire[cur], f)
    BY <1>0, <1>6
  <2>8. ReplyInv'
    BY <1>6, <2>2, <2>3, <2>5, <2>6, <2>7 DEF ReplyInv
  <2>9. ASSUME NEW c \in Conns, NEW n \in Int, Behind(c, n) PROVE Behind(c, n)'
    <3>1. CASE c # cur
      BY <2>6, <2>9, <3>1 DEF Behind
    <3>2. CASE c = cur
      <4>1. n <= r /\ Above(wire[cur], n)
        BY <2>1, <2>9, <3>2 DEF Behind
      <4>2. n <= q
        BY <2>3, <4>1
      <4> QED
        BY <1>6, <2>2, <2>5, <2>7, <3>2, <4>1, <4>2 DEF Behind
    <3> QED
      BY <3>1, <3>2
  <2> QED
    BY <2>8, <2>9
<1>7. CASE BrokerReplies
  <2>1. cur \in Conns
    BY <1>7, SessionFacts, SessionAssumption DEF BrokerReplies, Working, TypeOK, Conns
  <2>2. replied'[cur] = replied[cur] + 1 /\ replied[cur] < asked[cur] /\ asked' = asked
        /\ replied' = [replied EXCEPT ![cur] = replied[cur] + 1]
    BY <1>0, <1>7, <2>1 DEF BrokerReplies
  <2>3. PICK f : f = PeersReply(replied[cur] + 1)
    OBVIOUS
  <2>4. f \in Frames /\ f.n = replied[cur] + 1
    BY <1>0, <2>1, <2>3 DEF PeersReply, Frames
  <2>5. wire' = [wire EXCEPT ![cur] = Append(@, f)]
    BY <1>7, <2>2, <2>3 DEF BrokerReplies
  <2>6. f.n <= asked[cur]
    BY <1>0, <2>1, <2>2, <2>4
  <2> QED
    BY <1>6, <2>1, <2>2, <2>4, <2>5, <2>6
<1>8. ASSUME NEW i \in Deliveries, BrokerDelivers(i)
      PROVE  /\ ReplyInv'
             /\ \A c \in Conns, n \in Int : Behind(c, n) => Behind(c, n)'
  <2>1. cur \in Conns
    BY <1>8, SessionFacts, SessionAssumption DEF BrokerDelivers, Working, TypeOK, Conns
  <2>2. PICK f : f = DeliverFrame(i)
    OBVIOUS
  <2>3. f \in Frames /\ f.what # "peers"
    BY <2>2 DEF DeliverFrame, Frames
  <2>4. UNCHANGED <<asked, replied>> /\ wire' = [wire EXCEPT ![cur] = Append(@, f)]
    BY <1>8, <2>2 DEF BrokerDelivers
  <2> QED
    BY <1>6, <2>1, <2>3, <2>4
<1> QED
  BY <1>1, <1>2, <1>3, <1>4, <1>5, <1>7, <1>8, BrokerEvolves

\* How many peers calls on a connection are over with an answer, and whether a call may
\* still get one.
Served(c) == asked[c] - gaveUp[c] - (IF srv = "wait" /\ via = c THEN 1 ELSE 0)
Listening == srv \in {"request", "wait"} /\ sink[via] = taken

\* As many replies as there were answered calls are behind; what the resume loop has in
\* hand, and before it what is in the call's channel, is ahead of them.
AnswerInv ==
  /\ \A c \in Conns : 0 <= Served(c) /\ Behind(c, Served(c))
  /\ loop = "forward" => Served(cur) < hand.n /\ Behind(cur, hand.n)
  /\ Listening /\ chan # <<>> =>
       /\ chan[1].conn = via /\ chan[1].n \in Nat
       /\ Served(via) < chan[1].n /\ Behind(via, chan[1].n)
       /\ loop = "forward" /\ cur = via => chan[1].n < hand.n

\* Only an answer taken from the channel changes how many calls were answered: a request
\* adds one that waits, giving up makes of one that waits one that was given up.
LEMMA ServedStep ==
  ASSUME TypeOK, ShapeInv, [Next]_vars
  PROVE  \A c \in Conns :
           /\ Served(c) \in Int /\ Served(c)' \in Int
           /\ Served(c)' = IF TakeAnswer /\ c = via THEN Served(c) + 1 ELSE Served(c)
<1> SUFFICES ASSUME NEW c \in Conns
             PROVE  /\ Served(c) \in Int /\ Served(c)' \in Int
                    /\ Served(c)' = IF TakeAnswer /\ c = via THEN Served(c) + 1 ELSE Served(c)
  OBVIOUS
<1>1. PICK a \in Nat : a = asked[c]
  BY DEF TypeOK
<1>2. PICK g \in Nat : g = gaveUp[c]
  BY DEF TypeOK
<1>3. asked \in [Conns -> Nat] /\ gaveUp \in [Conns -> Nat]
  BY DEF TypeOK
<1>4. Served(c) = a - g - (IF srv = "wait" /\ via = c THEN 1 ELSE 0)
  BY <1>1, <1>2 DEF Served
<1>5. CASE Request /\ ByRequest
  <2>1. srv = "request" /\ UNCHANGED <<via, gaveUp>> /\ ~TakeAnswer
    BY <1>5 DEF Request, callVars, TakeAnswer
  <2>2. \/ asked' = asked /\ srv' # "wait"
        \/ asked' = [asked EXCEPT ![via] = @ + 1] /\ srv' = "wait"
    BY <1>5 DEF Request, Written, NotWritten, Sent, Failed, Answer
  <2>3. \/ asked'[c] = a /\ ~(srv' = "wait" /\ via' = c)
        \/ asked'[c] = a + 1 /\ srv' = "wait" /\ via' = c
    BY <1>1, <1>3, <2>1, <2>2
  <2>4. Served(c) = a - g
    BY <1>4, <2>1, <1>1, <1>2
  <2>5. Served(c)' = a - g
    BY <1>1, <1>2, <2>1, <2>3 DEF Served
  <2> QED
    BY <1>1, <1>2, <2>1, <2>4, <2>5
<1>6. CASE CallSteps /\ ByCall
  <2>1. asked' = asked
    BY <1>6 DEF ByCall, brokerVars
  <2>2. CASE LoadClient \/ InstallSink \/ RemoveSink
    <3>1. srv # "wait" /\ srv' # "wait" /\ gaveUp' = gaveUp /\ ~TakeAnswer
      BY <2>2 DEF LoadClient, InstallSink, RemoveSink, Failed, Answer, TakeAnswer
    <3> QED
      BY <1>1, <1>2, <2>1, <3>1 DEF Served
  <2>3. CASE TakeAnswer
    <3>1. srv = "wait" /\ srv' # "wait" /\ UNCHANGED <<gaveUp, via>>
      BY <2>3 DEF TakeAnswer
    <3> QED
      BY <1>1, <1>2, <2>1, <2>3, <3>1 DEF Served
  <2>4. CASE GiveUp /\ ~TakeAnswer
    <3>1. srv = "wait" /\ srv' # "wait" /\ via' = via /\ gaveUp' = [gaveUp EXCEPT ![via] = @ + 1]
      BY <2>4 DEF GiveUp
    <3>2. gaveUp'[c] = IF via = c THEN g + 1 ELSE g
      BY <1>2, <1>3, <3>1
    <3>3. Served(c)' = a - (IF via = c THEN g + 1 ELSE g)
      BY <1>1, <1>2, <2>1, <3>1, <3>2 DEF Served
    <3>4. Served(c) = a - g - (IF via = c THEN 1 ELSE 0)
      BY <1>4, <3>1
    <3> QED
      BY <1>1, <1>2, <2>4, <3>3, <3>4
  <2> QED
    BY <1>6, <2>2, <2>3, <2>4 DEF CallSteps
<1>7. CASE ServeSteps /\ BySelf
  <2>1. UNCHANGED <<asked, gaveUp>>
    BY <1>7 DEF BySelf, brokerVars, callVars
  <2>2. srv # "wait" /\ srv' # "wait" /\ ~TakeAnswer
    BY <1>7 DEF ServeSteps, Top, Take, SignalInitialized, WriteReply, FlushReply, EndOfInput,
       Interrupt, Reap, TakeAnswer
  <2> QED
    BY <1>1, <1>2, <2>1, <2>2 DEF Served
<1>8. CASE UNCHANGED <<srv, reply>>
  <2>1. ~Request /\ ~TakeAnswer
    BY <1>8 DEF Request, Written, NotWritten, Sent, Failed, Answer, TakeAnswer
  <2>2. UNCHANGED <<via, gaveUp>>
    BY <1>8, CallEvolves DEF CallSteps, LoadClient, InstallSink, TakeAnswer, GiveUp, RemoveSink, Failed,
       Answer, ForwardPeers
  <2>3. asked' = asked
    BY <2>1, BrokerEvolves DEF RecvPeers, RecvDeliver, RecvFails, AckDelivery, BrokerReplies, BrokerDelivers
  <2> QED
    BY <1>1, <1>2, <1>8, <2>1, <2>2, <2>3 DEF Served
<1> QED
  BY <1>5, <1>6, <1>7, <1>8, ServeEvolves

\* What is below a reply that is behind is behind, too.
LEMMA BehindBelow ==
  ASSUME TypeOK, ShapeInv, NEW c \in Conns, NEW n \in Int, NEW m \in Int, m <= n, Behind(c, n)
  PROVE  Behind(c, m)
<1>1. PICK r \in Nat : r = replied[c]
  BY DEF TypeOK
<1>2. PICK s \in Seq(Frames) : s = wire[c]
  BY DEF ShapeInv
<1>3. \A k \in 1..Len(s) : s[k].what = "peers" => s[k].n \in Nat
  BY <1>2, ElementOfSeq, FrameNumber
<1>4. m <= r /\ Above(s, m)
  BY <1>1, <1>2, <1>3 DEF Behind, Above
<1> QED
  BY <1>1, <1>2, <1>4 DEF Behind

\* An answer overtakes no other on its way from the wire through the hand into the channel.
LEMMA AnswerStep ==
  ASSUME TypeOK, ShapeInv, SinkInv, ReplyInv, AnswerInv, [Next]_vars
  PROVE  AnswerInv'
<1>1. /\ srv \in CallPlaces => via \in Conns
      /\ loop \notin Offline => cur \in Conns
      /\ srv \in ToolPlaces => taken # 0
      /\ loop = "forward" => hand.n \in Nat
      /\ replied \in [Conns -> Nat]
  BY SessionFacts DEF ShapeInv, TypeOK
<1>2. \A c \in Conns, n \in Int : Behind(c, n) => Behind(c, n)'
  BY ReplyStep
<1>3. \A c \in Conns :
        /\ Served(c) \in Int /\ Served(c)' \in Int
        /\ Served(c)' = IF TakeAnswer /\ c = via THEN Served(c) + 1 ELSE Served(c)
  BY ServedStep
\* An answer that is taken is ahead of all that were answered before.
<1>4. ASSUME TakeAnswer
      PROVE  /\ via \in Conns /\ chan[1].n \in Nat
             /\ Served(via) < chan[1].n /\ Behind(via, chan[1].n)
             /\ loop = "forward" /\ cur = via => chan[1].n < hand.n
  <2>1. srv = "wait" /\ chan # <<>>
    BY <1>4 DEF TakeAnswer
  <2>2. Listening
    BY <2>1 DEF Listening, SinkInv
  <2> QED
    BY <1>1, <2>1, <2>2 DEF AnswerInv, CallPlaces
<1>5. ASSUME NEW c \in Conns PROVE 0 <= Served(c)' /\ (Behind(c, Served(c)))'
  <2>1. PICK s \in Int : s = Served(c)
    BY <1>3
  <2>2. PICK t \in Int : t = Served(c)'
    BY <1>3
  <2>3. 0 <= s /\ Behind(c, s)
    BY <2>1 DEF AnswerInv
  <2>4. CASE TakeAnswer /\ c = via
    <3>1. PICK n \in Nat : n = chan[1].n
      BY <1>4, <2>4
    <3>2. t = s + 1 /\ s < n /\ Behind(c, n)
      BY <1>3, <1>4, <2>1, <2>2, <2>4, <3>1
    <3>3. t <= n
      BY <3>1, <3>2
    <3>4. Behind(c, t)
      BY <2>2, <3>1, <3>2, <3>3, BehindBelow
    <3>6. Behind(c, t)'
      BY <1>2, <2>2, <3>4
    <3> QED
      BY <2>2, <2>3, <3>2, <3>6 DEF Behind
  <2>5. CASE ~(TakeAnswer /\ c = via)
    <3>1. t = s
      BY <1>3, <2>1, <2>2, <2>5
    <3>2. Behind(c, s)'
      BY <1>2, <2>1, <2>3
    <3> QED
      BY <2>2, <2>3, <3>1, <3>2 DEF Behind
  <2> QED
    BY <2>4, <2>5
\* What the resume loop has in hand.
<1>6. loop' = "forward" => (Served(cur) < hand.n /\ Behind(cur, hand.n))'
  <2> SUFFICES ASSUME loop' = "forward" PROVE (Served(cur) < hand.n /\ Behind(cur, hand.n))'
    OBVIOUS
  <2>1. CASE UNCHANGED <<cur, loop, hand>>
    <3>1. cur \in Conns /\ loop = "forward"
      BY <1>1, <2>1 DEF Offline
    <3>2. PICK h \in Nat : h = hand.n
      BY <1>1, <3>1
    <3>3. PICK c \in Conns : c = cur
      BY <3>1
    <3>4. Served(c) < h /\ Behind(c, h)
      BY <3>1, <3>2, <3>3 DEF AnswerInv
    <3>5. Behind(c, h)'
      BY <1>2, <3>2, <3>4
    <3>6. Served(c)' < h
      <4>1. PICK s \in Int : s = Served(c)
        BY <1>3
      <4>2. CASE TakeAnswer /\ c = via
        <5>1. PICK n \in Nat : n = chan[1].n
          BY <1>4, <4>2
        <5>2. s < n /\ n < h
          BY <1>4, <3>1, <3>2, <3>3, <4>1, <4>2, <5>1
        <5>3. Served(c)' = s + 1
          BY <1>3, <4>1, <4>2
        <5> QED
          BY <4>1, <5>1, <5>2, <5>3
      <4>3. CASE ~(TakeAnswer /\ c = via)
        BY <1>3, <3>4, <4>3
      <4> QED
        BY <4>2, <4>3
    <3>7. cur' = c /\ hand'.n = h
      BY <2>1, <3>2, <3>3
    <3> QED
      BY <3>5, <3>6, <3>7 DEF Served, Behind
  <2>2. CASE RecvPeers /\ loop # "forward"
    <3>1. /\ Receiving /\ Head(wire[cur]).what = "peers" /\ cur' = cur /\ UNCHANGED replied
          /\ hand'.n = Head(wire[cur]).n /\ ~TakeAnswer
      BY <2>2 DEF RecvPeers, TakeAnswer, mcpVars
    <3>2. cur \in Conns /\ wire[cur] # <<>> /\ wire' = [wire EXCEPT ![cur] = Tail(@)]
      BY <1>1, <3>1 DEF Receiving, Offline
    <3>3. PICK c \in Conns : c = cur
      BY <3>2
    <3>4. PICK s \in Seq(Frames) : s = wire[c]
      BY DEF ShapeInv
    <3>5. wire'[c] = Tail(s)
      BY <3>2, <3>3, <3>4 DEF ShapeInv
    <3>6. PICK h : h = Head(s).n
      OBVIOUS
    <3>7. UpTo(s, replied[c]) /\ Rising(s) /\ Above(s, Served(c)) /\ replied[c] \in Int /\ Served(c) \in Int
      BY <1>1, <1>3, <3>4 DEF ReplyInv, AnswerInv, Behind
    <3>8. Served(c) < h /\ h <= replied[c] /\ Above(Tail(s), h)
      BY <3>1, <3>2, <3>3, <3>4, <3>6, <3>7, TailOfFrames
    <3>9. Served(c)' = Served(c)
      BY <1>3, <3>1
    <3>10. cur' = c /\ hand'.n = h /\ replied'[c] = replied[c]
      BY <3>1, <3>3, <3>4, <3>6
    <3> QED
      BY <3>5, <3>8, <3>9, <3>10 DEF Served, Behind
  <2>3. UNCHANGED <<cur, loop, hand>> \/ (RecvPeers /\ loop # "forward")
    BY LoopEvolves DEF Connect, ConnectClaimed, ConnectCancelled, RecvPeers, Receiving, ForwardPeers,
       RecvDeliver, HandleBuffers, HandlePushes, PushEnds, AckDelivery, RecvFails, Break, loopVars
  <2> QED
    BY <2>1, <2>2, <2>3
\* What is in the call's channel.
<1>7. Listening' /\ chan' # <<>> =>
        \/ Listening /\ UNCHANGED <<chan, via>> /\ ~TakeAnswer
        \/ Listening /\ via' = via /\ ForwardPeers /\ chan' = <<[conn |-> cur, n |-> hand.n]>> /\ hand.to = taken
  <2> SUFFICES ASSUME Listening', chan' # <<>>
               PROVE  \/ Listening /\ UNCHANGED <<chan, via>> /\ ~TakeAnswer
                      \/ /\ Listening /\ via' = via /\ ForwardPeers /\ hand.to = taken
                         /\ chan' = <<[conn |-> cur, n |-> hand.n]>>
    OBVIOUS
  <2>1. srv' \in {"request", "wait"} /\ sink'[via'] = taken'
    BY DEF Listening
  <2>2. CASE Request /\ ByRequest
    BY <2>1, <2>2 DEF Request, callVars, Listening, TakeAnswer
  <2>3. CASE CallSteps /\ ByCall
    <3>1. LoadClient
      BY <2>1, <2>3 DEF CallSteps, InstallSink, TakeAnswer, GiveUp, RemoveSink
    <3>2. cur # 0 /\ via' = cur /\ sink' = sink /\ taken' = taken /\ srv = "call"
      BY <2>1, <3>1 DEF LoadClient, Failed, Answer
    <3>3. cur \in Conns
      BY <3>2, SessionAssumption DEF TypeOK, Conns
    <3>4. sink[cur] = 0 /\ taken # 0
      BY <1>1, <3>2, <3>3 DEF SinkInv, Sinking, ToolPlaces
    <3> QED
      BY <2>1, <3>2, <3>4
  <2>4. CASE ServeSteps /\ BySelf
    BY <2>1, <2>4 DEF ServeSteps, Top, Take, SignalInitialized, WriteReply, FlushReply, EndOfInput,
       Interrupt, Reap
  <2>5. CASE UNCHANGED <<srv, reply>>
    <3>1. ~Take /\ ~TakeAnswer
      BY <2>1, <2>5 DEF Take, TakeAnswer
    <3>2. taken' = taken
      BY <3>1, HostEvolves DEF HostSteps, HostWrites, HostCloses, Cancel, hostVars
    <3>3. UNCHANGED <<sink, via>> /\ (chan' = chan \/ ForwardPeers)
      BY <2>5, CallEvolves DEF CallSteps, LoadClient, InstallSink, TakeAnswer, GiveUp, RemoveSink, Failed,
         Answer, ForwardPeers
    <3>4. Listening
      BY <2>1, <2>5, <3>2, <3>3 DEF Listening
    <3> QED
      BY <3>1, <3>3, <3>4 DEF ForwardPeers
  <2> QED
    BY <2>2, <2>3, <2>4, <2>5, ServeEvolves
<1>8. ASSUME Listening', chan' # <<>>
      PROVE  (/\ chan[1].conn = via /\ chan[1].n \in Nat
              /\ Served(via) < chan[1].n /\ Behind(via, chan[1].n)
              /\ loop = "forward" /\ cur = via => chan[1].n < hand.n)'
  <2>1. via' = via /\ Listening /\ via \in Conns
    BY <1>1, <1>7, <1>8 DEF Listening, CallPlaces
  <2>2. PICK v \in Conns : v = via
    BY <2>1
  <2>3. CASE UNCHANGED <<chan, via>> /\ ~TakeAnswer
    <3>1. PICK n \in Nat : n = chan[1].n
      BY <1>8, <2>1, <2>3 DEF AnswerInv
    <3>2. chan'[1].conn = via' /\ Served(v) < n /\ Behind(v, n)
      BY <1>8, <2>1, <2>2, <2>3, <3>1 DEF AnswerInv
    <3>3. Behind(v, n)' /\ Served(v)' < n
      BY <1>2, <1>3, <2>3, <3>1, <3>2
    <3>4. loop' = "forward" /\ cur' = via' => n < hand'.n
      <4>1. CASE UNCHANGED <<cur, loop, hand>>
        BY <1>8, <2>1, <2>3, <3>1, <4>1 DEF AnswerInv
      <4>2. CASE RecvPeers /\ loop # "forward" /\ loop' = "forward" /\ cur' = via'
        <5>1. /\ wire[cur] # <<>> /\ Head(wire[cur]).what = "peers" /\ cur = v
              /\ hand'.n = Head(wire[cur]).n
          BY <2>1, <2>2, <4>2 DEF RecvPeers, Receiving
        <5>2. PICK s \in Seq(Frames) : s = wire[v]
          BY DEF ShapeInv
        <5>3. Above(s, n)
          BY <3>2, <5>2 DEF Behind
        <5> QED
          BY <3>1, <5>1, <5>2, <5>3, TailOfFrames
      <4>3. loop' = "forward" => UNCHANGED <<cur, loop, hand>> \/ (RecvPeers /\ loop # "forward")
        BY LoopEvolves DEF Connect, ConnectClaimed, ConnectCancelled, RecvPeers, Receiving, ForwardPeers,
           RecvDeliver, HandleBuffers, HandlePushes, PushEnds, AckDelivery, RecvFails, Break, loopVars
      <4> QED
        BY <4>1, <4>2, <4>3
    <3>5. chan'[1].n = n /\ via' = v
      BY <2>2, <2>3, <3>1
    <3> QED
      BY <3>1, <3>2, <3>3, <3>4, <3>5 DEF Served, Behind
  <2>4. CASE ForwardPeers /\ chan' = <<[conn |-> cur, n |-> hand.n]>> /\ hand.to = taken
    <3>1. loop = "forward" /\ loop' # "forward" /\ ~TakeAnswer
      BY <2>4 DEF ForwardPeers, TakeAnswer, mcpVars
    <3>2. cur = v
      BY <2>1, <2>2, <2>4, <3>1 DEF SinkInv, Sinking, Listening
    <3>3. PICK n \in Nat : n = hand.n
      BY <1>1, <3>1
    <3>4. Served(v) < n /\ Behind(v, n)
      BY <3>1, <3>2, <3>3 DEF AnswerInv
    <3>5. Behind(v, n)' /\ Served(v)' < n
      BY <1>2, <1>3, <3>1, <3>3, <3>4
    <3>6. chan'[1].n = n /\ chan'[1].conn = v /\ via' = v
      BY <2>1, <2>2, <2>4, <3>2, <3>3
    <3> QED
      BY <3>1, <3>3, <3>5, <3>6 DEF Served, Behind
  <2> QED
    BY <1>7, <1>8, <2>3, <2>4
<1> QED
  BY <1>5, <1>6, <1>8 DEF AnswerInv

\* What bus.peers returns comes from the connection it asked on and is stale by at most
\* as many requests as calls gave up there: a reply is skipped or handed on once, in the
\* order of the requests, and never to the channel of another connection's call.
THEOREM StaleOnlyAfterGivingUp == Spec => []StaleOnlyAfterTimeout
<1>1. Init => SinkInv /\ ReplyInv /\ AnswerInv
  <2> SUFFICES ASSUME Init PROVE SinkInv /\ ReplyInv /\ AnswerInv
    OBVIOUS
  <2>1. srv = "top" /\ loop = "connect" /\ hand = Nothing /\ chan = <<>>
    BY DEF Init, McpInit
  <2>2. \A c \in Conns : sink[c] = 0 /\ asked[c] = 0 /\ replied[c] = 0 /\ gaveUp[c] = 0 /\ wire[c] = <<>>
    BY DEF Init
  <2>3. \A n \in Int : Above(<<>>, n) /\ UpTo(<<>>, n) /\ Rising(<<>>)
    BY DEF Above, UpTo, Rising
  <2>4. SinkInv
    BY <2>1, <2>2 DEF SinkInv, Sinking
  <2>5. ReplyInv
    BY <2>2, <2>3 DEF ReplyInv
  <2>6. \A c \in Conns : Served(c) = 0
    BY <2>1, <2>2 DEF Served
  <2>7. AnswerInv
    BY <2>1, <2>2, <2>3, <2>6 DEF AnswerInv, Listening, Behind
  <2> QED
    BY <2>4, <2>5, <2>7
<1>2. TypeOK /\ ShapeInv /\ SinkInv /\ ReplyInv /\ AnswerInv /\ [Next]_vars
        => SinkInv' /\ ReplyInv' /\ AnswerInv'
  BY SinkStep, ReplyStep, AnswerStep
<1>3. TypeOK /\ ShapeInv /\ SinkInv /\ ReplyInv /\ AnswerInv => StaleOnlyAfterTimeout
  <2> SUFFICES ASSUME TypeOK, ShapeInv, SinkInv, ReplyInv, AnswerInv, srv = "wait", chan # <<>>
               PROVE  /\ chan[1].conn = via
                      /\ chan[1].n \in 1..asked[via]
                      /\ asked[via] - chan[1].n <= gaveUp[via]
    BY DEF StaleOnlyAfterTimeout
  <2>1. Listening /\ via \in Conns
    BY SessionFacts DEF Listening, SinkInv, CallPlaces
  <2>2. chan[1].conn = via /\ chan[1].n \in Nat /\ Served(via) < chan[1].n /\ chan[1].n <= replied[via]
    BY <2>1 DEF AnswerInv, Behind
  <2>3. replied[via] <= asked[via] /\ 0 <= Served(via)
    BY <2>1 DEF ReplyInv, AnswerInv
  <2>4. asked[via] \in Nat /\ gaveUp[via] \in Nat /\ replied[via] \in Nat
    BY <2>1 DEF TypeOK
  <2>5. Served(via) = asked[via] - gaveUp[via] - 1
    BY <2>4 DEF Served
  <2> QED
    BY <2>2, <2>3, <2>4, <2>5
<1> QED
  BY <1>1, <1>2, <1>3, TypeInvariant, PTL DEF Spec

----------------------------------------------------------------------------
(* Requests and responses *)

\* A number above all others comes last, and the ranks of the others stay.
LEMMA RankOfLast ==
  ASSUME NEW S \in SUBSET Nat, IsFiniteSet(S), NEW x \in Nat, \A q \in S : q < x
  PROVE  /\ IsFiniteSet(S \cup {x}) /\ Cardinality(S) \in Nat
         /\ Cardinality(S \cup {x}) = Cardinality(S) + 1
         /\ \A k \in 1..Cardinality(S) : Kth(S \cup {x}, k) = Kth(S, k)
         /\ Kth(S \cup {x}, Cardinality(S) + 1) = x
<1> DEFINE T == S \cup {x}
           Upto(U, p) == {q \in U : q <= p}
<1>1. x \notin S
  OBVIOUS
<1>2. IsFiniteSet(T) /\ Cardinality(T) = Cardinality(S) + 1
  BY <1>1, FS_AddElement
<1>3. PICK n \in Nat : n = Cardinality(S)
  BY FS_CardinalityType
<1>4. Upto(T, x) = T
  <2>1. \A q \in T : q <= x
    OBVIOUS
  <2> QED
    BY <2>1, Zenon
<1>5. \A p \in S : Upto(T, p) = Upto(S, p)
  OBVIOUS
<1>6. \A p \in S : Cardinality(Upto(S, p)) <= n /\ Cardinality(Upto(S, p)) \in Nat
  <2> SUFFICES ASSUME NEW p \in S
               PROVE  Cardinality(Upto(S, p)) <= n /\ Cardinality(Upto(S, p)) \in Nat
    OBVIOUS
  <2>1. Upto(S, p) \in SUBSET S
    OBVIOUS
  <2>2. IsFiniteSet(Upto(S, p)) /\ Cardinality(Upto(S, p)) <= n
    BY <1>3, <2>1, FS_Subset
  <2> QED
    BY <2>2, FS_CardinalityType
<1>7. \A U, k : WithRank(U, k) = {p \in U : Cardinality(Upto(U, p)) = k}
  BY DEF WithRank
<1> HIDE DEF Upto
<1>8. ASSUME NEW k \in 1..n PROVE WithRank(T, k) = WithRank(S, k)
  <2>1. Cardinality(Upto(T, x)) = n + 1
    BY <1>2, <1>3, <1>4
  <2>2. n + 1 # k
    OBVIOUS
  <2> QED
    BY <1>5, <1>7, <2>1, <2>2
<1>9. WithRank(T, n + 1) = {x}
  <2>1. Cardinality(Upto(T, x)) = n + 1
    BY <1>2, <1>3, <1>4
  <2>2. \A p \in S : Cardinality(Upto(T, p)) # n + 1
    BY <1>3, <1>5, <1>6
  <2> QED
    BY <1>7, <2>1, <2>2
<1>10. \A k \in 1..n : Kth(T, k) = Kth(S, k)
  BY <1>8 DEF Kth
<1>11. Kth(T, n + 1) = x
  BY <1>9 DEF Kth
<1> QED
  BY <1>2, <1>3, <1>10, <1>11

\* The requests are finitely many.
LEMMA RequestsFinite ==
  ASSUME taken \in Nat
  PROVE  Requests \in SUBSET Nat /\ IsFiniteSet(Requests) /\ \A q \in Requests : q <= taken
<1>1. Requests \in SUBSET Nat /\ \A q \in Requests : q <= taken
  BY DEF Requests
<1> QED
  BY <1>1, FS_BoundedSetOfNaturals

\* A request that is taken comes last; any other message leaves the requests as they are.
LEMMA RequestTaken ==
  ASSUME taken \in Nat, taken' = taken + 1, script' = script
  PROVE  /\ IsRequest(Incoming) => RequestsTaken' = Append(RequestsTaken, IdOf(Incoming))
         /\ ~IsRequest(Incoming) => RequestsTaken' = RequestsTaken
<1>0. PICK x \in Nat : x = taken + 1
  OBVIOUS
<1>1. Requests' = {p \in 1..x : IsRequest(script[p])}
  BY <1>0 DEF Requests, IsRequest
<1>2. PICK S : S = Requests
  OBVIOUS
<1>3. S \in SUBSET Nat /\ IsFiniteSet(S) /\ \A q \in S : q < x
  BY <1>0, <1>2, RequestsFinite
<1>4. \A p \in 1..x : p \in 1..taken \/ p = x
  BY <1>0
<1>5. CASE ~IsRequest(Incoming)
  <2>1. Requests' = Requests
    BY <1>0, <1>1, <1>4, <1>5 DEF Requests, Incoming
  <2> QED
    BY <1>5, <2>1 DEF RequestsTaken, IdOf
<1>6. CASE IsRequest(Incoming)
  <2>1. Requests' = S \cup {x}
    BY <1>0, <1>1, <1>2, <1>4, <1>6 DEF Requests, Incoming
  <2>2. PICK n \in Nat : n = Cardinality(S)
    BY <1>3, RankOfLast
  <2>3. Cardinality(Requests') = n + 1
    BY <1>0, <1>3, <2>1, <2>2, RankOfLast
  <2>4. \A k \in 1..n : Kth(Requests', k) = Kth(S, k)
    BY <1>0, <1>3, <2>1, <2>2, RankOfLast
  <2>5. Kth(Requests', n + 1) = x
    BY <1>0, <1>3, <2>1, <2>2, RankOfLast
  <2>6. PICK f : f = RequestsTaken
    OBVIOUS
  <2>7. PICK i : i = IdOf(Incoming)
    OBVIOUS
  <2>8. f = [k \in 1..n |-> IdOf(script[Kth(S, k)])]
    BY <1>2, <2>2, <2>6 DEF RequestsTaken
  <2>9. RequestsTaken' = [k \in 1..(n + 1) |-> IF k = n + 1 THEN i ELSE f[k]]
    <3>1. RequestsTaken' = [k \in 1..(n + 1) |-> IdOf(script[Kth(Requests', k)])]
      BY <2>3 DEF RequestsTaken, IdOf
    <3>2. \A k \in 1..(n + 1) : k = n + 1 \/ k \in 1..n
      OBVIOUS
    <3>3. \A k \in 1..(n + 1) : IdOf(script[Kth(Requests', k)]) = IF k = n + 1 THEN i ELSE f[k]
      BY <1>0, <2>4, <2>5, <2>7, <2>8, <3>2 DEF Incoming
    <3> QED
      BY <3>1, <3>3
  <2>10. PICK R : R = {f[k] : k \in 1..n} \cup {i}
    OBVIOUS
  <2>11. f \in [1..n -> R] /\ i \in R
    BY <2>8, <2>10
  <2>12. f \in Seq(R) /\ Len(f) = n
    BY <2>11
  <2>13. Append(f, i) = [k \in 1..(n + 1) |-> IF k = n + 1 THEN i ELSE f[k]]
    <3>0. PICK a : a = Append(f, i)
      OBVIOUS
    <3>1. /\ a \in Seq(R) /\ Len(a) = n + 1
          /\ \A k \in 1..n : a[k] = f[k]
          /\ a[n + 1] = i
      BY <2>11, <2>12, <3>0, AppendProperties
    <3>2. a = [k \in 1..(n + 1) |-> a[k]]
      BY <3>1
    <3>3. \A k \in 1..(n + 1) : k = n + 1 \/ k \in 1..n
      OBVIOUS
    <3>4. a = [k \in 1..(n + 1) |-> IF k = n + 1 THEN i ELSE f[k]]
      BY <3>1, <3>2, <3>3
    <3> QED
      BY <3>0, <3>4
  <2> QED
    BY <1>6, <2>6, <2>7, <2>9, <2>13
<1> QED
  BY <1>5, <1>6

\* While Serve works on a request, that one alone is unanswered, and the response it has
\* made is under that request's id; at all its other places none is.
Due == ToolPlaces \cup {"write", "flush"}

DialogueInv ==
  /\ replies \in Seq(Nat)
  /\ srv \in Due => RequestsTaken = Append(replies, IdOf(Current))
  /\ srv \notin Due => RequestsTaken = replies
  /\ srv \in {"unsink", "write", "flush"} => reply.id = IdOf(Current)

\* The host gets a response only when Serve has written its own.
LEMMA RepliesStep ==
  ASSUME TypeOK, LineInv, [Next]_vars
  PROVE  /\ FlushReply => replies' = Append(replies, reply.id)
         /\ ~FlushReply => replies' = replies
<1>1. CASE UNCHANGED <<line, replies, notes, wmu>>
  <2>1. ~FlushReply
    BY <1>1 DEF FlushReply, FinishOut
  <2> QED
    BY <1>1, <2>1
<1>2. CASE WriteReply \/ HandlePushes
  <2>1. ~FlushReply /\ replies' = replies
    BY <1>2 DEF WriteReply, HandlePushes, LockOut, FlushReply, FinishOut
  <2> QED
    BY <2>1
<1>3. CASE FlushReply
  <2>1. line[1] = reply /\ reply.what = "reply"
    BY <1>3 DEF FlushReply, FinishOut, LineInv, TypeOK, McpTypeOK, Replies
  <2> QED
    BY <1>3, <2>1, FinishOutProperties, WritersDiffer DEF FlushReply
<1>4. CASE PushEnds
  <2>1. wmu = {PumpWriter} /\ line[1].what = "push"
    BY <1>4, FinishOutProperties, WritersDiffer DEF PushEnds, LineInv
  <2>2. ~FlushReply
    BY <2>1, WritersDiffer DEF FlushReply, FinishOut
  <2> QED
    BY <1>4, <2>1, <2>2, FinishOutProperties, WritersDiffer DEF PushEnds
<1>5. ASSUME NEW c \in Conns, AnnounceSelf(c) \/ AnnounceEnds(c)
      PROVE  replies' = replies /\ ~FlushReply
  <2>1. CASE AnnounceSelf(c)
    BY <2>1 DEF AnnounceSelf, LockOut, FlushReply, FinishOut
  <2>2. CASE AnnounceEnds(c)
    <3>1. wmu = {c} /\ line[1].what = "announce"
      BY <2>2, FinishOutProperties, WritersDiffer DEF AnnounceEnds, LineInv
    <3>2. ~FlushReply
      BY <3>1, WritersDiffer DEF FlushReply, FinishOut
    <3> QED
      BY <2>2, <3>1, <3>2, FinishOutProperties, WritersDiffer DEF AnnounceEnds
  <2> QED
    BY <1>5, <2>1, <2>2
<1> QED
  BY <1>1, <1>2, <1>3, <1>4, <1>5, OutEvolves

\* Taking a request is Ask, writing its response is Answer, and all else is invisible.
LEMMA DialogueStep ==
  ASSUME TypeOK, ShapeInv, LineInv, DialogueInv, [Next]_vars
  PROVE  DialogueInv' /\ (Dialogue!Next \/ UNCHANGED Dialogue!calls)
<1> USE DEF Due, ToolPlaces
<1>0. taken \in Nat
  BY SessionFacts
<1>1. ASSUME UNCHANGED <<script, taken>>
      PROVE  RequestsTaken' = RequestsTaken /\ Current' = Current /\ \A m : IdOf(m)' = IdOf(m)
  BY <1>1 DEF RequestsTaken, Requests, IsRequest, Current, IdOf
\* The steps that neither take a message nor answer one.
<1>2. ASSUME UNCHANGED <<script, taken>>, ~FlushReply,
             (srv \in Due) = (srv' \in Due),
             srv' \in {"unsink", "write", "flush"} => reply'.id = IdOf(Current)
      PROVE  DialogueInv' /\ (Dialogue!Next \/ UNCHANGED Dialogue!calls)
  <2>1. replies' = replies
    BY <1>2, RepliesStep
  <2>2. RequestsTaken' = RequestsTaken /\ Current' = Current
    BY <1>1, <1>2
  <2>3. DialogueInv'
    BY <1>2, <2>1, <2>2 DEF DialogueInv, IdOf
  <2> QED
    BY <2>1, <2>2, <2>3 DEF Dialogue!calls
<1>3. srv \in ToolPlaces => IdOf(Current) = Current.id
  BY DEF ShapeInv, IdOf, Tools
<1>4. CASE UNCHANGED <<srv, reply>>
  <2>1. ~Take /\ ~FlushReply
    BY <1>4 DEF Take, FlushReply
  <2>2. UNCHANGED <<script, taken>>
    BY <2>1, HostEvolves DEF HostSteps, HostWrites, HostCloses, Cancel, hostVars
  <2> QED
    BY <1>2, <1>4, <2>1, <2>2 DEF DialogueInv
<1>5. CASE Request /\ ByRequest
  <2>1. srv = "request" /\ UNCHANGED <<script, taken>> /\ ~FlushReply
    BY <1>5 DEF Request, hostVars, FlushReply
  <2>2. /\ srv' \in {"wait", "write", "unsink"}
        /\ srv' \in {"unsink", "write"} => reply'.id = Current.id
    BY <1>5 DEF Request, Written, NotWritten, Sent, Failed, Answer, Reply
  <2> QED
    BY <1>2, <1>3, <2>1, <2>2
<1>6. CASE CallSteps /\ ByCall
  <2>1. srv \in ToolPlaces /\ UNCHANGED <<script, taken>> /\ ~FlushReply
    BY <1>6 DEF CallSteps, LoadClient, InstallSink, TakeAnswer, GiveUp, RemoveSink, hostVars, FlushReply
  <2>2. CASE LoadClient \/ InstallSink \/ TakeAnswer \/ GiveUp
    <3>1. /\ srv' \in {"sink", "request", "write", "unsink"}
          /\ srv' \in {"unsink", "write"} => reply'.id = Current.id
      BY <2>2 DEF LoadClient, InstallSink, TakeAnswer, GiveUp, Failed, Answer, Reply
    <3> QED
      BY <1>2, <1>3, <2>1, <3>1
  <2>3. CASE RemoveSink
    <3>1. srv = "unsink" /\ srv' = "write" /\ reply' = reply
      BY <2>3 DEF RemoveSink
    <3> QED
      BY <1>2, <2>1, <3>1 DEF DialogueInv
  <2> QED
    BY <1>6, <2>2, <2>3 DEF CallSteps
<1>7. CASE ServeSteps /\ BySelf
  <2>1. CASE Take
    <3>1. srv = "read" /\ taken' = taken + 1 /\ script' = script /\ ~FlushReply
      BY <2>1 DEF Take, hostVars, FlushReply
    <3>2. replies' = replies /\ RequestsTaken = replies /\ replies \in Seq(Nat)
      BY <3>1, RepliesStep DEF DialogueInv
    <3>3. taken + 1 \in 1..Len(script)
      BY <1>0, <2>1, McpAssumption DEF Take, TypeOK, McpTypeOK
    <3>4. PICK m : m = Incoming /\ m \in Messages /\ m.id \in Nat /\ m.method \in Methods
      BY <3>3, MessageTypes DEF Incoming, TypeOK
    <3>5. Current' = m
      BY <3>1, <3>4 DEF Current, Incoming
    <3>6. CASE IsRequest(m)
      <4>1. RequestsTaken' = Append(replies, IdOf(m))
        BY <1>0, <3>1, <3>2, <3>4, <3>6, RequestTaken
      <4>2. srv' \in {"call", "write"} /\ (srv' = "write" => reply' = Response(m))
        BY <2>1, <3>4, <3>6 DEF Take, IsRequest, Answered, Methods, Tools
      <4>3. srv' = "write" => reply'.id = IdOf(m)
        BY <4>2 DEF Response, Reply, IdOf
      <4>4. DialogueInv'
        BY <3>2, <3>5, <4>1, <4>2, <4>3 DEF DialogueInv, IdOf
      <4>5. IdOf(m) \in {IdOf(x) : x \in UNION {{s[n] : n \in 1..Len(s)} : s \in Scripts}}
        <5>1. script \in Scripts
          BY DEF TypeOK, McpTypeOK
        <5>2. m \in {script[n] : n \in 1..Len(script)}
          BY <3>3, <3>4 DEF Incoming
        <5>3. m \in UNION {{s[n] : n \in 1..Len(s)} : s \in Scripts}
          BY <5>1, <5>2
        <5> QED
          BY <5>3
      <4>6. Dialogue!Ask(IdOf(m))
        BY <3>2, <4>1 DEF Dialogue!Ask
      <4> QED
        BY <4>4, <4>5, <4>6 DEF Dialogue!Next
    <3>7. CASE ~IsRequest(m)
      <4>1. RequestsTaken' = replies
        BY <1>0, <3>1, <3>2, <3>4, <3>7, RequestTaken
      <4>2. srv' \in {"signal", "returned", "top"}
        BY <2>1, <3>4, <3>7 DEF Take, IsRequest, Answered, Methods, Tools
      <4>3. DialogueInv'
        BY <3>2, <4>1, <4>2 DEF DialogueInv
      <4> QED
        BY <3>2, <4>1, <4>3 DEF Dialogue!calls
    <3> QED
      BY <3>6, <3>7
  <2>2. CASE FlushReply
    <3>1. srv = "flush" /\ srv' = "top" /\ UNCHANGED <<script, taken>>
      BY <2>2 DEF FlushReply, hostVars
    <3>2. RequestsTaken = Append(replies, reply.id) /\ replies \in Seq(Nat) /\ reply.id \in Nat
      BY <3>1 DEF DialogueInv, TypeOK, McpTypeOK, Replies
    <3>3. replies' = RequestsTaken /\ RequestsTaken' = RequestsTaken
      BY <1>1, <2>2, <3>1, <3>2, RepliesStep
    <3>4. RequestsTaken \in Seq(Nat) /\ RequestsTaken # replies
      <4>1. Len(RequestsTaken) = Len(replies) + 1 /\ Len(replies) \in Nat /\ RequestsTaken \in Seq(Nat)
        BY <3>2, AppendProperties
      <4> QED
        BY <4>1
    <3>5. DialogueInv'
      BY <3>1, <3>3, <3>4 DEF DialogueInv
    <3>6. Dialogue!Answer
      BY <3>3, <3>4 DEF Dialogue!Answer
    <3> QED
      BY <3>5, <3>6 DEF Dialogue!Next
  <2>3. CASE WriteReply
    <3>1. srv = "write" /\ srv' = "flush" /\ reply' = reply /\ UNCHANGED <<script, taken>> /\ ~FlushReply
      BY <2>3 DEF WriteReply, hostVars, FlushReply
    <3> QED
      BY <1>2, <3>1 DEF DialogueInv
  <2>4. CASE Top \/ SignalInitialized \/ EndOfInput \/ Interrupt \/ Reap
    <3>1. /\ srv \in {"top", "signal", "read", "reap"} /\ srv' \in {"returned", "read", "top", "reap"}
          /\ UNCHANGED <<script, taken>> /\ ~FlushReply
      BY <2>4 DEF Top, SignalInitialized, EndOfInput, Interrupt, Reap, hostVars, FlushReply
    <3> QED
      BY <1>2, <3>1
  <2> QED
    BY <1>7, <2>1, <2>2, <2>3, <2>4 DEF ServeSteps
<1> QED
  BY <1>4, <1>5, <1>6, <1>7, ServeEvolves

\* The process implements RequestReply: each request is answered exactly once, under its
\* own id, in order and before the next is taken up.
THEOREM AnswersEachRequest == Spec => AnswersEachOnce
<1>1. Init => DialogueInv /\ Dialogue!Init
  <2> SUFFICES ASSUME Init PROVE DialogueInv /\ Dialogue!Init
    OBVIOUS
  <2>1. srv = "top" /\ taken = 0 /\ replies = <<>>
    BY DEF Init, McpInit
  <2>2. Requests = {}
    BY <2>1 DEF Requests
  <2>3. Cardinality(Requests) = 0
    BY <2>2, FS_EmptySet
  <2>4. RequestsTaken = <<>>
    BY <2>3 DEF RequestsTaken
  <2> QED
    BY <2>1, <2>4 DEF DialogueInv, Due, ToolPlaces, Dialogue!Init
<1>2. TypeOK /\ ShapeInv /\ LineInv /\ DialogueInv /\ [Next]_vars
        => DialogueInv' /\ [Dialogue!Next]_(Dialogue!calls)
  BY DialogueStep
<1> QED
  BY <1>1, <1>2, TypeInvariant, LineInvariant, PTL DEF Spec, AnswersEachOnce, Dialogue!Spec
=============================================================================
