------------------------------ MODULE Pressure ------------------------------
(***************************************************************************)
(* Sockets with bounded buffers: who can block whom.  The goroutine that   *)
(* serves a peer writes deliveries to the recipient's socket itself, under *)
(* the recipient's write lock and without a deadline; the recipient acks   *)
(* from the goroutine that reads.  The store, the registry and takeovers   *)
(* are left to module Broker: here every peer is registered and a frame is *)
(* told apart only by what its handling writes.                            *)
(***************************************************************************)
EXTENDS Integers, Sequences, Functions

CONSTANTS Peers,    \* registered peers, numbers
          Cap,      \* frames a direction of a socket holds
          Plans,    \* bounds: what each host sends, and what waits in the store
          MaxDrops  \* bound: peers that go away

ASSUME PressureAssumption ==
  /\ Peers \subseteq Nat \ {0}
  /\ Cap \in Nat \ {0} /\ MaxDrops \in Nat
  /\ Plans \subseteq [Peers -> [sends : Seq(SUBSET Peers), pending : Nat]]

VARIABLES plan,   \* what each host sends: recipients; {} asks for the peers
          owed,   \* pending rows flushPending has still to write
          rest,   \* recipients a goroutine has still to write its envelope to
          sent,   \* how much of it has been written
          up,     \* frames to the broker
          down,   \* frames from the broker
          cwmu,   \* Client.wmu: who holds it
          pump,   \* the resume loop of each peer: in Recv or in Ack
          at,     \* the broker's goroutine of each peer
          job,    \* the frame it writes, and to which peer
          wmu,    \* peerConn.wmu: whose goroutine holds it; 0 is nobody
          gone,   \* peers that went away
          drops

clientVars == <<sent, cwmu, pump>>
brokerVars == <<owed, rest, at, job, wmu>>
vars == <<plan, clientVars, up, down, brokerVars, gone, drops>>

AckUp == [what |-> "ack", to |-> {}]
PeersUp == [what |-> "peers", to |-> {}]
EnvUp(S) == [what |-> "env", to |-> S]

TypeOK ==
  /\ plan \in Plans
  /\ \A p \in Peers : Len(up[p]) <= Cap /\ Len(down[p]) <= Cap
  /\ sent \in [Peers -> Nat]
  /\ cwmu \in [Peers -> {"free", "host", "pump"}]
  /\ pump \in [Peers -> {"recv", "ack"}]
  /\ owed \in [Peers -> Nat]
  /\ rest \in [Peers -> SUBSET Peers]
  /\ at \in [Peers -> {"read", "lock", "write", "done"}]
  /\ job \in [Peers -> [frame : {"deliver", "peers"}, to : Peers]]
  /\ wmu \in [Peers -> Peers \cup {0}]
  /\ gone \subseteq Peers /\ drops \in 0..MaxDrops

Init ==
  /\ plan \in Plans /\ owed = [p \in Peers |-> plan[p].pending]
  /\ rest = [p \in Peers |-> {}]
  /\ sent = [p \in Peers |-> 0]
  /\ up = [p \in Peers |-> <<>>] /\ down = up
  /\ cwmu = [p \in Peers |-> "free"] /\ pump = [p \in Peers |-> "recv"]
  /\ at = [p \in Peers |-> "read"] /\ job = [p \in Peers |-> [frame |-> "peers", to |-> p]]
  /\ wmu = [p \in Peers |-> 0]
  /\ gone = {} /\ drops = 0

----------------------------------------------------------------------------
(* a peer *)

\* writeJSON of the client: its lock, then a write that waits for room.
Lock(p, who) ==
  /\ p \notin gone /\ cwmu[p] = "free"
  /\ cwmu' = [cwmu EXCEPT ![p] = who]

WriteUp(p, who, f) ==
  /\ p \notin gone /\ cwmu[p] = who /\ Len(up[p]) < Cap
  /\ up' = [up EXCEPT ![p] = Append(@, f)]

Unlock(p) == cwmu' = [cwmu EXCEPT ![p] = "free"]

HostLocks(p) ==
  /\ sent[p] < Len(plan[p].sends)
  /\ Lock(p, "host")
  /\ UNCHANGED <<plan, sent, pump, up, down, brokerVars, gone, drops>>

\* Send, Broadcast and RequestPeers
HostWrites(p) ==
  /\ LET to == plan[p].sends[sent[p] + 1]
     IN  WriteUp(p, "host", IF to = {} THEN PeersUp ELSE EnvUp(to))
  /\ Unlock(p)
  /\ sent' = [sent EXCEPT ![p] = @ + 1]
  /\ UNCHANGED <<plan, pump, down, brokerVars, gone, drops>>

\* Recv; a delivery is handled and then acked, a peers reply is not.
PumpReads(p) ==
  /\ p \notin gone /\ pump[p] = "recv" /\ down[p] # <<>>
  /\ down' = [down EXCEPT ![p] = Tail(@)]
  /\ pump' = [pump EXCEPT ![p] = IF Head(down[p]) = "deliver" THEN "ack" ELSE "recv"]
  /\ UNCHANGED <<plan, sent, cwmu, up, brokerVars, gone, drops>>

PumpLocks(p) ==
  /\ pump[p] = "ack"
  /\ Lock(p, "pump")
  /\ UNCHANGED <<plan, sent, pump, up, down, brokerVars, gone, drops>>

\* Mutant: the lock is kept after the write.
PumpAcksKeeps(p) ==
  /\ WriteUp(p, "pump", AckUp)
  /\ pump' = [pump EXCEPT ![p] = "recv"]
  /\ UNCHANGED <<plan, sent, cwmu, down, brokerVars, gone, drops>>

PumpAcks(p) ==
  /\ WriteUp(p, "pump", AckUp)
  /\ Unlock(p)
  /\ pump' = [pump EXCEPT ![p] = "recv"]
  /\ UNCHANGED <<plan, sent, down, brokerVars, gone, drops>>

\* The peer's process or network goes away: its ends are closed and what is on the
\* way is lost.
Drop(p) ==
  /\ p \notin gone /\ drops < MaxDrops
  /\ drops' = drops + 1
  /\ gone' = gone \cup {p}
  /\ up' = [up EXCEPT ![p] = <<>>] /\ down' = [down EXCEPT ![p] = <<>>]
  /\ UNCHANGED <<plan, clientVars, brokerVars>>

----------------------------------------------------------------------------
(* the broker's goroutine of a peer *)

\* The next write of p's goroutine: frame f to peer q.
Turn(p, f, q) ==
  /\ at' = [at EXCEPT ![p] = "lock"]
  /\ job' = [job EXCEPT ![p] = [frame |-> f, to |-> q]]

\* Mutant: one row too many.
FlushNextTooMany(p) ==
  /\ at[p] = "read" /\ owed[p] >= 0
  /\ owed' = [owed EXCEPT ![p] = @ - 1]
  /\ Turn(p, "deliver", p)
  /\ UNCHANGED <<plan, clientVars, up, down, rest, wmu, gone, drops>>

\* flushPending writes every pending row before serve reads a first frame.
FlushNext(p) ==
  /\ at[p] = "read" /\ owed[p] > 0
  /\ owed' = [owed EXCEPT ![p] = @ - 1]
  /\ Turn(p, "deliver", p)
  /\ UNCHANGED <<plan, clientVars, up, down, rest, wmu, gone, drops>>

\* deliverTo the next recipient: the one of a direct message, or of a broadcast in the
\* order of the registry's list.
RouteNext(p) ==
  /\ at[p] = "read"
  /\ \E q \in rest[p] :
       /\ \A r \in rest[p] : q <= r
       /\ Turn(p, "deliver", q)
       /\ rest' = [rest EXCEPT ![p] = @ \ {q}]
  /\ UNCHANGED <<plan, clientVars, up, down, owed, wmu, gone, drops>>

\* The goroutine has written all it had to.
Free(p) == at[p] = "read" /\ owed[p] = 0 /\ rest[p] = {}

\* serve and routeFrame: an ack only touches the store; an envelope leads to deliverTo
\* each recipient, a peers request to a reply on the own connection.
Reads(p) ==
  /\ Free(p) /\ up[p] # <<>>
  /\ up' = [up EXCEPT ![p] = Tail(@)]
  /\ LET f == Head(up[p])
     IN  /\ rest' = [rest EXCEPT ![p] = f.to]
         /\ IF f.what = "peers" THEN Turn(p, "peers", p) ELSE UNCHANGED <<at, job>>
  /\ UNCHANGED <<plan, clientVars, down, owed, wmu, gone, drops>>

ReadFails(p) ==
  /\ Free(p) /\ p \in gone
  /\ at' = [at EXCEPT ![p] = "done"]
  /\ UNCHANGED <<plan, clientVars, up, down, owed, rest, job, wmu, gone, drops>>

\* writeJSON of the broker: the lock of the connection written to.
Locks(p) ==
  /\ at[p] = "lock" /\ wmu[job[p].to] = 0
  /\ wmu' = [wmu EXCEPT ![job[p].to] = p]
  /\ at' = [at EXCEPT ![p] = "write"]
  /\ UNCHANGED <<plan, clientVars, up, down, owed, rest, job, gone, drops>>

\* The write waits for room.
Writes(p) ==
  LET q == job[p].to
  IN  /\ at[p] = "write" /\ q \notin gone /\ Len(down[q]) < Cap
      /\ down' = [down EXCEPT ![q] = Append(@, job[p].frame)]
      /\ wmu' = [wmu EXCEPT ![q] = 0]
      /\ at' = [at EXCEPT ![p] = "read"]
      /\ UNCHANGED <<plan, clientVars, up, owed, rest, job, gone, drops>>

\* Mutant: an error returns without the unlock.
WriteFailsKeeps(p) ==
  /\ at[p] = "write" /\ job[p].to \in gone
  /\ at' = [at EXCEPT ![p] = "read"]
  /\ owed' = [owed EXCEPT ![p] = 0]
  /\ UNCHANGED <<plan, clientVars, up, down, rest, job, wmu, gone, drops>>

\* The recipient went away: the row stays for its next register, a flush ends and a
\* fan-out goes on.
WriteFails(p) ==
  /\ at[p] = "write" /\ job[p].to \in gone
  /\ wmu' = [wmu EXCEPT ![job[p].to] = 0]
  /\ at' = [at EXCEPT ![p] = "read"]
  /\ owed' = [owed EXCEPT ![p] = 0]
  /\ UNCHANGED <<plan, clientVars, up, down, rest, job, gone, drops>>

Goroutine(p) ==
  \/ FlushNext(p) \/ RouteNext(p) \/ Reads(p) \/ ReadFails(p)
  \/ Locks(p) \/ Writes(p) \/ WriteFails(p)
Host(p) == HostLocks(p) \/ HostWrites(p)
Pump(p) == PumpReads(p) \/ PumpLocks(p) \/ PumpAcks(p)

Next == \E p \in Peers : Goroutine(p) \/ Host(p) \/ Pump(p) \/ Drop(p)

\* Every goroutine runs when it can.  Nothing is assumed of drops.
Spec ==
  /\ Init /\ [][Next]_vars
  /\ \A p \in Peers : WF_vars(Goroutine(p)) /\ WF_vars(Host(p)) /\ WF_vars(Pump(p))

----------------------------------------------------------------------------

\* Everything p's host has to send has left the broker, or p has left.
Sent(p) ==
  /\ Free(p) \/ at[p] = "done"
  /\ up[p] = <<>>
  /\ p \in gone \/ (sent[p] = Len(plan[p].sends) /\ cwmu[p] = "free")

Drained == \A p \in Peers : Sent(p) /\ (p \in gone \/ (down[p] = <<>> /\ pump[p] = "recv"))

\* The peers of S wait for each other: the goroutine of each waits for room on the
\* socket of one of them, and each of them waits for its own goroutine before it reads.
Deadlocked(S) ==
  \A p \in S :
    /\ at[p] \in {"lock", "write"} /\ job[p].to \in S \ gone
    /\ Len(down[p]) = Cap /\ Len(up[p]) = Cap /\ pump[p] = "ack"

Stuck == \E S \in SUBSET Peers \ {{}} : Deadlocked(S)

\* Whom the goroutine of p writes to: its host's recipients, and p itself with the
\* answers to peers requests and the pending rows.
Targets(p) ==
  UNION Range(plan[p].sends)
    \cup {q \in {p} : plan[p].pending > 0 \/ {} \in Range(plan[p].sends)}

\* No cycle of traffic can be reached from p.
Clear(p) ==
  \E S \in SUBSET Peers :
    /\ p \in S /\ \A q \in S : Targets(q) \subseteq S
    /\ \A T \in SUBSET S \ {{}} : \E q \in T : Targets(q) \cap T = {}

\* Blocked writes have one cause only: unless all traffic comes to rest, some peers
\* wait in a circle with both directions of their sockets full.  A peer that goes away
\* while others write to it or wait for its lock holds up nobody for good.
FlowsOrCycle == <>[](Drained \/ Stuck)

\* A circle of peers that block each other does not spread to those who write to none
\* of them, directly or through others: whatever they send leaves the broker, also to a
\* recipient that members of the circle write to under the same lock.
BystandersFlow == \A p \in Peers : <>[](Clear(p) => Sent(p))
==============================================================================
