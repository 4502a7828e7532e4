-------------------------------- MODULE Link --------------------------------
(***************************************************************************)
(* The two ends of the WebSocket connections, and the frames on them.      *)
(* The broker's end is peerConn (internal/broker/server.go), the peer's is *)
(* the adapter's Client (internal/adapter/client.go).  out[c] is all the   *)
(* broker has ever written to c, of which the peer has read the first      *)
(* seen[c] frames; in[c] is what the peer wrote and the broker has not     *)
(* read.  Frames in flight when an end closes may or may not still arrive. *)
(***************************************************************************)
EXTENDS Universe

VARIABLES ws,     \* broker's end: "none", "open", "closed" (peerConn.closed)
          cl,     \* peer's end: "none", "connecting", "up", "closed"
          in,     \* peer to broker, a queue
          out,    \* broker to peer, the whole stream
          seen    \* how much of out the peer has read

linkVars == <<ws, cl, in, out, seen>>

\* Frames.  An envelope names its destination with a peer name or with Star;
\* kind repeats which of the two it is.  "other" stands for every frame the
\* broker reads and ignores: a binary frame, a second register, a deliver,
\* malformed JSON, an envelope without id or to.
Star == 0
Envelopes == [type : {"env"}, id : Ids, to : Names \cup {Star}, kind : {"msg", "broadcast"}]
PeersFrame == [type |-> "peers"]
OtherFrame == [type |-> "other"]
Ack(k) == [type |-> "ack", key |-> k]
Deliver(k) == [type |-> "deliver", key |-> k]
RegisterFrames == [type : {"register"}, name : Names, token : Tokens]
Acks == [type : {"ack"}, key : RowIds]
Requests == Envelopes \cup {PeersFrame, OtherFrame} \cup Acks
InFrames == RegisterFrames \cup Requests
OutFrames == {PeersFrame} \cup [type : {"deliver"}, key : RowIds]

LinkTypeOK ==
  /\ ws \in [Conns -> {"none", "open", "closed"}]
  /\ cl \in [Conns -> {"none", "connecting", "up", "closed"}]
  /\ in \in [Conns -> Seq(InFrames)]
  /\ out \in [Conns -> Seq(OutFrames)]
  /\ seen \in [Conns -> Nat]
  /\ \A c \in Conns : seen[c] <= Len(out[c])

LinkInit ==
  /\ ws = [c \in Conns |-> "none"]
  /\ cl = [c \in Conns |-> "none"]
  /\ in = [c \in Conns |-> <<>>]
  /\ out = [c \in Conns |-> <<>>]
  /\ seen = [c \in Conns |-> 0]

\* Row k was written to connection c / read from it by the peer.
WrittenTo(k, c) == \E i \in 1..Len(out[c]) : out[c][i] = Deliver(k)
ReadFrom(k, c) == \E i \in 1..seen[c] : out[c][i] = Deliver(k)

----------------------------------------------------------------------------
\* A broker write on c goes through while its own end is open; it fails on a
\* closed one, and may fail or vanish when the peer's end has gone.
Write(c, frame) ==
  /\ ws[c] = "open"
  /\ out' = [out EXCEPT ![c] = Append(@, frame)]
  /\ UNCHANGED <<ws, cl, in, seen>>

WriteFails(c) ==
  /\ ws[c] # "open" \/ cl[c] = "closed"
  /\ UNCHANGED linkVars

\* CloseTakenOver and closeNormal: the first close wins, later ones do nothing.
Close(c) ==
  /\ ws' = [ws EXCEPT ![c] = "closed"]
  /\ UNCHANGED <<cl, in, out, seen>>

\* The broker takes the next frame off an open connection.
Read(c) ==
  /\ ws[c] = "open"
  /\ in[c] # <<>>
  /\ in' = [in EXCEPT ![c] = Tail(@)]
  /\ UNCHANGED <<ws, cl, out, seen>>

\* A read fails once either end is closed; frames still queued may be lost.
ReadFails(c) == ws[c] # "open" \/ cl[c] = "closed"
============================================================================
