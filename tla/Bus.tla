--------------------------------- MODULE Bus ---------------------------------
(***************************************************************************)
(* The whole bus: the broker's goroutines, the peers' clients              *)
(* (internal/adapter/client.go, as ResumingClient drives it) and the       *)
(* failures around them.  A peer is a sequence of connections under one    *)
(* name; each connection sends its script in order, reads what the broker  *)
(* writes and acks every delivery by its delivery key.  A script may also  *)
(* hold acks of its own accord, of rows the peer has not read or the store *)
(* does not know: the broker takes any key.                                *)
(***************************************************************************)
EXTENDS Broker

CONSTANTS Script,      \* the frames each connection's peer sends once connected
          Fickle,      \* bound: connections whose peer may go away by itself
          Era,         \* bound: after how many broker crashes each may be dialled
          MaxCrashes   \* bound: broker crashes

ASSUME BusAssumption ==
  /\ Script \in [Conns -> Seq(Requests)]
  /\ Fickle \subseteq Conns
  /\ Era \in [Conns -> SUBSET Nat]
  /\ MaxCrashes \in Nat

VARIABLES sent,     \* how much of its script each connection has sent
          crashes   \* broker crashes so far

brokerVars == <<storeVars, registry, linkVars, procVars, audit, faults>>
vars == <<brokerVars, sent, crashes>>

TypeOK ==
  /\ StoreTypeOK /\ RegistryTypeOK /\ LinkTypeOK /\ BrokerTypeOK
  /\ sent \in [Conns -> Nat]
  /\ crashes \in 0..MaxCrashes

Init ==
  /\ StoreInit /\ RegistryInit /\ LinkInit /\ BrokerInit
  /\ sent = [c \in Conns |-> 0]
  /\ crashes = 0

----------------------------------------------------------------------------
(* The peer's end of a connection *)

\* The peer does not use this connection now.
Barred(c) == pc[c] = "free" /\ crashes \notin Era[c]

\* Connect: the socket is accepted and the register frame goes first.
Dial(c) ==
  /\ pc[c] = "free"
  /\ ~Barred(c)
  /\ ws' = [ws EXCEPT ![c] = "open"]
  /\ cl' = [cl EXCEPT ![c] = "connecting"]
  /\ in' = [in EXCEPT ![c] = <<Claim[c]>>]
  /\ Goto(c, "handshake")
  /\ UNCHANGED <<storeVars, registry, out, seen, todo, cur, dst, audit, faults, sent, crashes>>

\* The next frame the peer will read.
Unread(c) == seen[c] < Len(out[c])
NextFrame(c) == out[c][seen[c] + 1]
Advance(c) == seen' = [seen EXCEPT ![c] = @ + 1]

\* Connect succeeds when the first frame back is the peers frame.
Connected(c) ==
  /\ cl[c] = "connecting"
  /\ Unread(c)
  /\ NextFrame(c) = PeersFrame
  /\ Advance(c)
  /\ cl' = [cl EXCEPT ![c] = "up"]
  /\ UNCHANGED <<storeVars, registry, ws, in, out, procVars, audit, faults, sent, crashes>>

\* Any other first frame, or a read error, makes Connect give the socket up.
ConnectFails(c) ==
  /\ cl[c] = "connecting"
  /\ \/ Unread(c) /\ NextFrame(c) # PeersFrame
     \/ ws[c] = "closed"
  /\ cl' = [cl EXCEPT ![c] = "closed"]
  /\ UNCHANGED <<storeVars, registry, ws, in, out, seen, procVars, audit, faults, sent, crashes>>

\* Send, Broadcast, RequestPeers, an unprompted Ack: the next frame of the script.
Send(c) ==
  /\ cl[c] = "up"
  /\ ws[c] = "open"
  /\ sent[c] < Len(Script[c])
  /\ in' = [in EXCEPT ![c] = Append(@, Script[c][sent[c] + 1])]
  /\ sent' = [sent EXCEPT ![c] = @ + 1]
  /\ UNCHANGED <<storeVars, registry, ws, cl, out, seen, procVars, audit, faults, crashes>>

\* Recv and Ack: a delivery is consumed, then acked by its key; on a dead
\* socket the ack is lost.
Recv(c) ==
  /\ cl[c] = "up"
  /\ Unread(c)
  /\ NextFrame(c).type = "deliver"
  /\ Advance(c)
  /\ in' = [in EXCEPT ![c] = IF ws[c] = "open" THEN Append(@, Ack(NextFrame(c).key)) ELSE @]
  /\ UNCHANGED <<storeVars, registry, ws, cl, out, procVars, audit, faults, sent, crashes>>

\* A peers reply is handed to a waiting caller, if any, and skipped.
RecvPeers(c) ==
  /\ cl[c] = "up"
  /\ Unread(c)
  /\ NextFrame(c) = PeersFrame
  /\ Advance(c)
  /\ UNCHANGED <<storeVars, registry, ws, cl, in, out, procVars, audit, faults, sent, crashes>>

\* The peer notices that the broker closed the connection.
Hangup(c) ==
  /\ cl[c] = "up"
  /\ ws[c] = "closed"
  /\ cl' = [cl EXCEPT ![c] = "closed"]
  /\ UNCHANGED <<storeVars, registry, ws, in, out, seen, procVars, audit, faults, sent, crashes>>

\* The peer's end goes away: Close, a crash of the adapter, a lost network.
Drop(c) ==
  /\ c \in Fickle
  /\ cl[c] \in {"connecting", "up"}
  /\ cl' = [cl EXCEPT ![c] = "closed"]
  /\ UNCHANGED <<storeVars, registry, ws, in, out, seen, procVars, audit, faults, sent, crashes>>

\* The broker process dies and is restarted on the same database file.
Crash ==
  /\ crashes < MaxCrashes
  /\ crashes' = crashes + 1
  /\ pc' = [c \in Conns |-> IF pc[c] = "free" THEN "free" ELSE "done"]
  /\ todo' = [c \in Conns |-> {}]
  /\ ws' = [c \in Conns |-> IF ws[c] = "none" THEN "none" ELSE "closed"]
  /\ registry' = [n \in Names |-> NoBinding]
  /\ UNCHANGED <<storeVars, cl, in, out, seen, cur, dst, audit, faults, sent>>

BrokerStep(c) == Serve(c) /\ UNCHANGED <<sent, crashes>>

\* What the peer does unless it fails.
PeerStep(c) ==
  \/ Dial(c) \/ Connected(c) \/ ConnectFails(c)
  \/ Send(c) \/ Recv(c) \/ RecvPeers(c) \/ Hangup(c)

\* Nothing is left to do on c: it is over, or a steady peer has sent and read all.
Over(c) == (pc[c] = "done" /\ cl[c] = "closed") \/ Barred(c)
Quiet(c) ==
  /\ pc[c] = "serve" /\ ws[c] = "open" /\ in[c] = <<>>
  /\ cl[c] = "up" /\ c \notin Fickle /\ sent[c] = Len(Script[c]) /\ ~Unread(c)

\* The bus may only stop when every connection is over or quiet: TLC's deadlock
\* check finds a goroutine that outlives its peer, or one that hangs.
Rest == (\A c \in Conns : Over(c) \/ Quiet(c)) /\ UNCHANGED vars

Next == (\E c \in Conns : BrokerStep(c) \/ PeerStep(c) \/ Drop(c)) \/ Crash \/ Rest

Spec == Init /\ [][Next]_vars

\* Goroutines that can run do run, and so do the peers.
FairSpec == Spec /\ \A c \in Conns : WF_vars(BrokerStep(c)) /\ WF_vars(PeerStep(c))
==============================================================================
