-------------------------- MODULE SessionProperties --------------------------
(***************************************************************************)
(* The correctness properties of an adapter process.                       *)
(***************************************************************************)
EXTENDS Session

----------------------------------------------------------------------------
(* stdout *)

\* Responses, pushes and announcements come from three kinds of goroutines and never
\* run into each other: no body is written while another waits for its newline.
FramesWhole == Len(line) <= 1

\* The messages dispatch answers.  (It also answers initialize and tools/list without an
\* id, and a line that is no JSON.)
IsRequest(m) ==
  \/ m.method \in {"initialize", "tools/list", "garbage"}
  \/ m.id # 0 /\ m.method \notin {"initialized", "empty", "badframe"}

IdOf(m) == IF m.method = "garbage" THEN 0 ELSE m.id

\* The k-th of a set of numbers, in their order.
WithRank(S, k) == {p \in S : Cardinality({q \in S : q <= p}) = k}
Kth(S, k) == CHOOSE p \in WithRank(S, k) : TRUE

\* The places of the requests among the messages Serve has taken, and their ids in order.
Requests == {p \in 1..taken : IsRequest(script[p])}
RequestsTaken == [k \in 1..Cardinality(Requests) |-> IdOf(script[Kth(Requests, k)])]

\* Serve answers each request exactly once, under its own id, in order and before it
\* takes up the next, whatever bus calls time out or fail and whatever is pushed in
\* between: the process implements RequestReply.
Dialogue == INSTANCE RequestReply WITH
  RequestIds <- {IdOf(m) : m \in UNION {{s[n] : n \in 1..Len(s)} : s \in Scripts}},
  asked <- RequestsTaken,
  answered <- replies

AnswersEachOnce == Dialogue!Spec

----------------------------------------------------------------------------
(* bus.peers *)

\* What bus.peers is about to return was asked for on the same connection, and is stale
\* by at most as many requests as calls gave up on that connection: a reply that comes
\* after its call timed out goes to the next call's sink, and nothing else is wrong.
StaleOnlyAfterTimeout ==
  (srv = "wait" /\ chan # <<>>) =>
    /\ chan[1].conn = via
    /\ chan[1].n \in 1..asked[via]
    /\ asked[via] - chan[1].n <= gaveUp[via]

\* Every bus call comes to an end, also when its reply was lost with the connection and
\* the host and the context stay: peersReplyTimeout bounds the wait for the answer.  It
\* does not bound the write of the request: a call that stays in there is the exception.
CallsReturn == []<>(~WriteWaits) => (srv \in ToolPlaces ~> srv \notin ToolPlaces)

\* A peers reply never stops the pump: forwardPeers does not wait for a reader, who may
\* have left.
PumpGoesOn == loop = "forward" ~> loop # "forward"

\* Once a rival holds the name and the resume loop is gone for good, no call that comes
\* to its write reports success any more: Run closed the Client that cur still names.  (A
\* call that had its answer by then may still return it.)
NeverSilent ==
  [][(loop = "gone" /\ srv = "request" /\ srv' # "request") => reply'.kind = "failure"]_vars

----------------------------------------------------------------------------
(* pushes and announcements *)

\* What the cc mode acks has been written to the session, in full, before.
AckedWasPushed ==
  mode = "cc" => \A i \in acked : \E x \in notes : x.what = "push" /\ x.id = i

\* Claude Code drops what comes before its initialized notification: no announcement
\* is written before the host has sent it.
AnnouncedIsHeard ==
  \A x \in notes : x.what = "announce" => x.heard

\* The host goes on reading: nobody keeps the write lock of stdout for good.
HostReads == []<>(wmu = {})

\* Once Serve has seen initialized, every connection made so far is announced, unless
\* the session ends first or the host stops reading.
Announces ==
  HostReads => \A c \in Conns : (ann[c] = "waiting" /\ ready) ~> (ann[c] = "done" \/ Exited)

----------------------------------------------------------------------------
(* start and end *)

\* The probe comes to a result, also when every name it mints is taken.
Starts == <>(boot # "probe")

\* The adapter lives no longer than its session: when stdin is closed or the context
\* is cancelled, Serve, the resume loop and with them the process end.  Three waits may
\* hold them up, and nothing else: for a host that does not read, for a broker that does
\* not read a request, and for a pending read that the close of stdin does not end.
EndsWithSession ==
  (HostReads /\ []<>(~WriteWaits) /\ []<>(~ReadWaits)) => (eof \/ cancelled ~> Exited)

----------------------------------------------------------------------------
(* what the documentation says and the code does not keep *)

\* "Send ack only after the host has consumed the message": a push acked by the cc mode
\* was written when the session no longer drops pushes.
AckedIsHeard ==
  mode = "cc" => \A i \in acked : \E x \in notes :
    x.what = "push" /\ x.id = i /\ x.heard
==============================================================================
