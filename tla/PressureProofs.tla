--------------------------- MODULE PressureProofs ---------------------------
(***************************************************************************)
(* Sockets with bounded buffers, for any peers, capacity and plans: no     *)
(* buffer is ever overfull, and each connection's write lock is held by    *)
(* exactly the goroutine that is writing to it.                            *)
(***************************************************************************)
EXTENDS Pressure, SequenceTheorems, TLAPS

UpFrames == {AckUp, PeersUp} \cup {EnvUp(S) : S \in SUBSET Peers}
DownFrames == {"deliver", "peers"}

\* What is on the sockets, and that a host that holds its client's lock has something
\* to send.
SocketInv ==
  /\ up \in [Peers -> Seq(UpFrames)]
  /\ down \in [Peers -> Seq(DownFrames)]
  /\ \A p \in Peers : cwmu[p] = "host" => sent[p] < Len(plan[p].sends)

\* What a host has to send.
LEMMA PlanTypes ==
  ASSUME TypeOK, NEW p \in Peers
  PROVE  /\ plan[p].sends \in Seq(SUBSET Peers) /\ plan[p].pending \in Nat
         /\ Len(plan[p].sends) \in Nat /\ sent[p] \in Nat
<1>1. plan \in [Peers -> [sends : Seq(SUBSET Peers), pending : Nat]]
  BY PressureAssumption DEF TypeOK
<1> QED
  BY <1>1 DEF TypeOK

\* A step keeps both: each write waits for room, and a frame names a registered peer.
LEMMA TypeStep ==
  ASSUME TypeOK, SocketInv, [Next]_vars
  PROVE  TypeOK' /\ SocketInv'
<1>0. Peers \subseteq Nat \ {0} /\ Cap \in Nat \ {0} /\ MaxDrops \in Nat
  BY PressureAssumption
<1> USE DEF SocketInv, TypeOK
<1>1. CASE UNCHANGED vars
  BY <1>1 DEF vars, clientVars, brokerVars
<1>2. ASSUME NEW p \in Peers, FlushNext(p) \/ RouteNext(p) PROVE TypeOK' /\ SocketInv'
  <2>1. PICK q \in Peers : Turn(p, "deliver", q)
    BY <1>2 DEF FlushNext, RouteNext
  <2>2. owed' \in [Peers -> Nat] /\ rest' \in [Peers -> SUBSET Peers]
    <3>1. CASE FlushNext(p)
      BY <3>1 DEF FlushNext
    <3>2. CASE RouteNext(p)
      BY <3>2 DEF RouteNext
    <3> QED
      BY <1>2, <3>1, <3>2
  <2>3. UNCHANGED <<plan, sent, cwmu, pump, up, down, wmu, gone, drops>>
    BY <1>2 DEF FlushNext, RouteNext, clientVars
  <2>4. at' \in [Peers -> {"read", "lock", "write", "done"}]
        /\ job' \in [Peers -> [frame : {"deliver", "peers"}, to : Peers]]
    BY <2>1 DEF Turn
  <2> QED
    BY <2>2, <2>3, <2>4
<1>3. ASSUME NEW p \in Peers, Reads(p) PROVE TypeOK' /\ SocketInv'
  <2>1. PICK f : f = Head(up[p])
    OBVIOUS
  <2>2. up[p] \in Seq(UpFrames) /\ up[p] # <<>> /\ up' = [up EXCEPT ![p] = Tail(@)]
    BY <1>3 DEF Reads
  <2>3. f \in UpFrames /\ Tail(up[p]) \in Seq(UpFrames) /\ Len(Tail(up[p])) = Len(up[p]) - 1
        /\ Len(up[p]) \in Nat
    BY <2>1, <2>2, HeadTailProperties, LenProperties
  <2>4. f.to \in SUBSET Peers
    BY <2>3 DEF UpFrames, AckUp, PeersUp, EnvUp
  <2>5. at' \in [Peers -> {"read", "lock", "write", "done"}]
        /\ job' \in [Peers -> [frame : {"deliver", "peers"}, to : Peers]]
    <3>1. \/ UNCHANGED <<at, job>>
          \/ /\ at' = [at EXCEPT ![p] = "lock"]
             /\ job' = [job EXCEPT ![p] = [frame |-> "peers", to |-> p]]
      BY <1>3, <2>1 DEF Reads, Turn
    <3>2. /\ at \in [Peers -> {"read", "lock", "write", "done"}]
          /\ job \in [Peers -> [frame : {"deliver", "peers"}, to : Peers]]
      OBVIOUS
    <3> HIDE DEF TypeOK, SocketInv
    <3>3. at' \in [Peers -> {"read", "lock", "write", "done"}]
      BY <3>1, <3>2
    <3>4. \A j \in [frame : {"deliver", "peers"}, to : Peers] :
            [job EXCEPT ![p] = j] \in [Peers -> [frame : {"deliver", "peers"}, to : Peers]]
      BY <3>2
    <3> QED
      BY <3>1, <3>2, <3>3, <3>4
  <2>6. up' \in [Peers -> Seq(UpFrames)] /\ \A q \in Peers : Len(up'[q]) <= Cap
    BY <1>0, <2>2, <2>3
  <2>7. UNCHANGED <<plan, sent, cwmu, pump, down, owed, wmu, gone, drops>>
    BY <1>3 DEF Reads, clientVars
  <2>8. rest' \in [Peers -> SUBSET Peers]
    BY <1>3, <2>1, <2>4 DEF Reads
  <2> QED
    BY <2>5, <2>6, <2>7, <2>8
<1>4. ASSUME NEW p \in Peers, ReadFails(p) PROVE TypeOK' /\ SocketInv'
  BY <1>4 DEF ReadFails, clientVars
<1>5. ASSUME NEW p \in Peers, Locks(p) PROVE TypeOK' /\ SocketInv'
  BY <1>5 DEF Locks, clientVars
<1>6. ASSUME NEW p \in Peers, Writes(p) PROVE TypeOK' /\ SocketInv'
  <2>1. PICK q \in Peers : q = job[p].to
    OBVIOUS
  <2>2. PICK f \in DownFrames : f = job[p].frame
    BY DEF DownFrames
  <2>3. down[q] \in Seq(DownFrames) /\ Len(down[q]) \in Nat /\ Len(down[q]) < Cap
        /\ down' = [down EXCEPT ![q] = Append(@, f)]
    BY <1>6, <2>1, <2>2 DEF Writes
  <2>4. Append(down[q], f) \in Seq(DownFrames) /\ Len(Append(down[q], f)) <= Cap
    BY <1>0, <2>2, <2>3, AppendProperties
  <2>5. down' \in [Peers -> Seq(DownFrames)] /\ \A r \in Peers : Len(down'[r]) <= Cap
    BY <2>3, <2>4
  <2>6. UNCHANGED <<plan, sent, cwmu, pump, up, owed, rest, job, gone, drops>>
    BY <1>6 DEF Writes, clientVars
  <2>7. wmu' \in [Peers -> Peers \cup {0}] /\ at' \in [Peers -> {"read", "lock", "write", "done"}]
    BY <1>6 DEF Writes
  <2> QED
    BY <2>5, <2>6, <2>7
<1>7. ASSUME NEW p \in Peers, WriteFails(p) PROVE TypeOK' /\ SocketInv'
  BY <1>7 DEF WriteFails, clientVars
<1>8. ASSUME NEW p \in Peers, HostLocks(p) PROVE TypeOK' /\ SocketInv'
  BY <1>8 DEF HostLocks, Lock, brokerVars
<1>9. ASSUME NEW p \in Peers, NEW f \in UpFrames, NEW who, WriteUp(p, who, f)
      PROVE  up' \in [Peers -> Seq(UpFrames)] /\ \A q \in Peers : Len(up'[q]) <= Cap
  <2>1. up[p] \in Seq(UpFrames) /\ Len(up[p]) \in Nat /\ Len(up[p]) < Cap
        /\ up' = [up EXCEPT ![p] = Append(@, f)]
    BY <1>9 DEF WriteUp
  <2>2. Append(up[p], f) \in Seq(UpFrames) /\ Len(Append(up[p], f)) <= Cap
    BY <1>0, <2>1, AppendProperties
  <2> QED
    BY <2>1, <2>2
<1>10. ASSUME NEW p \in Peers, HostWrites(p) PROVE TypeOK' /\ SocketInv'
  <2>1. PICK to : to = plan[p].sends[sent[p] + 1]
    OBVIOUS
  <2>2. PICK f : f = IF to = {} THEN PeersUp ELSE EnvUp(to)
    OBVIOUS
  <2>3. cwmu[p] = "host" /\ WriteUp(p, "host", f)
    BY <1>10, <2>1, <2>2 DEF HostWrites, WriteUp
  <2>4. sent[p] + 1 \in 1..Len(plan[p].sends)
    <3>1. sent[p] < Len(plan[p].sends) /\ sent[p] \in Nat /\ Len(plan[p].sends) \in Nat
      BY <2>3, PlanTypes
    <3> QED
      BY <3>1
  <2>5. to \in SUBSET Peers
    BY <2>1, <2>4, PlanTypes, ElementOfSeq
  <2>6. f \in UpFrames
    BY <2>2, <2>5 DEF UpFrames
  <2>7. up' \in [Peers -> Seq(UpFrames)] /\ \A q \in Peers : Len(up'[q]) <= Cap
    BY <1>9, <2>3, <2>6
  <2>8. /\ UNCHANGED <<plan, pump, down, owed, rest, at, job, wmu, gone, drops>>
        /\ cwmu' = [cwmu EXCEPT ![p] = "free"] /\ sent' = [sent EXCEPT ![p] = @ + 1]
    BY <1>10 DEF HostWrites, Unlock, brokerVars
  <2>9. /\ cwmu' \in [Peers -> {"free", "host", "pump"}] /\ sent' \in [Peers -> Nat]
        /\ \A q \in Peers : cwmu'[q] = "host" => sent'[q] < Len(plan[q].sends)
    BY <2>8
  <2> QED
    BY <2>7, <2>8, <2>9
<1>11. ASSUME NEW p \in Peers, PumpReads(p) PROVE TypeOK' /\ SocketInv'
  <2>1. down[p] \in Seq(DownFrames) /\ down[p] # <<>> /\ down' = [down EXCEPT ![p] = Tail(@)]
    BY <1>11 DEF PumpReads
  <2>2. Tail(down[p]) \in Seq(DownFrames) /\ Len(Tail(down[p])) = Len(down[p]) - 1 /\ Len(down[p]) \in Nat
    BY <2>1
  <2>3. down' \in [Peers -> Seq(DownFrames)] /\ \A q \in Peers : Len(down'[q]) <= Cap
    BY <1>0, <2>1, <2>2
  <2>4. pump' \in [Peers -> {"recv", "ack"}]
    BY <1>11 DEF PumpReads
  <2>5. UNCHANGED <<plan, sent, cwmu, up, owed, rest, at, job, wmu, gone, drops>>
    BY <1>11 DEF PumpReads, brokerVars
  <2> QED
    BY <2>3, <2>4, <2>5
<1>12. ASSUME NEW p \in Peers, PumpLocks(p) PROVE TypeOK' /\ SocketInv'
  BY <1>12 DEF PumpLocks, Lock, brokerVars
<1>13. ASSUME NEW p \in Peers, PumpAcks(p) PROVE TypeOK' /\ SocketInv'
  <2>1. up' \in [Peers -> Seq(UpFrames)] /\ \A q \in Peers : Len(up'[q]) <= Cap
    BY <1>9, <1>13 DEF PumpAcks, UpFrames
  <2>2. /\ UNCHANGED <<plan, sent, down, owed, rest, at, job, wmu, gone, drops>>
        /\ cwmu' = [cwmu EXCEPT ![p] = "free"] /\ pump' = [pump EXCEPT ![p] = "recv"]
    BY <1>13 DEF PumpAcks, Unlock, brokerVars
  <2> QED
    BY <2>1, <2>2
<1>14. ASSUME NEW p \in Peers, Drop(p) PROVE TypeOK' /\ SocketInv'
  <2>1. /\ up' = [up EXCEPT ![p] = <<>>] /\ down' = [down EXCEPT ![p] = <<>>]
        /\ drops' = drops + 1 /\ drops < MaxDrops /\ gone' = gone \cup {p}
        /\ UNCHANGED <<plan, sent, cwmu, pump, owed, rest, at, job, wmu>>
    BY <1>14 DEF Drop, clientVars, brokerVars
  <2>2. <<>> \in Seq(UpFrames) /\ <<>> \in Seq(DownFrames) /\ Len(<<>>) = 0
    OBVIOUS
  <2>3. /\ up' \in [Peers -> Seq(UpFrames)] /\ down' \in [Peers -> Seq(DownFrames)]
        /\ \A q \in Peers : Len(up'[q]) <= Cap /\ Len(down'[q]) <= Cap
    BY <1>0, <2>1, <2>2
  <2>4. drops' \in 0..MaxDrops /\ gone' \subseteq Peers
    BY <1>0, <2>1
  <2> QED
    BY <2>1, <2>3, <2>4
<1> QED
  BY <1>1, <1>2, <1>3, <1>4, <1>5, <1>6, <1>7, <1>8, <1>10, <1>11, <1>12, <1>13, <1>14
     DEF Next, Goroutine, Host, Pump

\* No socket buffer is ever overfull: every write waits for room, on both ends.
THEOREM TypeCorrect == Spec => []TypeOK
<1>1. Init => TypeOK /\ SocketInv
  <2> SUFFICES ASSUME Init PROVE TypeOK /\ SocketInv
    OBVIOUS
  <2>1. plan \in Plans /\ plan \in [Peers -> [sends : Seq(SUBSET Peers), pending : Nat]]
    BY PressureAssumption DEF Init
  <2>2. owed \in [Peers -> Nat]
    BY <2>1 DEF Init
  <2>3. Cap \in Nat /\ MaxDrops \in Nat /\ Len(<<>>) = 0
    BY PressureAssumption
  <2>4. <<>> \in Seq(UpFrames) /\ <<>> \in Seq(DownFrames)
    OBVIOUS
  <2>5. /\ up \in [Peers -> Seq(UpFrames)] /\ down \in [Peers -> Seq(DownFrames)]
        /\ \A p \in Peers : Len(up[p]) <= Cap /\ Len(down[p]) <= Cap
    BY <2>3, <2>4 DEF Init
  <2>6. \A p \in Peers : cwmu[p] # "host"
    BY DEF Init
  <2>7. SocketInv
    BY <2>5, <2>6 DEF SocketInv
  <2> QED
    BY <2>1, <2>2, <2>3, <2>5, <2>7 DEF Init, TypeOK
<1>2. TypeOK /\ SocketInv /\ [Next]_vars => TypeOK' /\ SocketInv'
  BY TypeStep
<1> QED
  BY <1>1, <1>2, PTL DEF Spec

----------------------------------------------------------------------------
(* The write lock of a connection *)

\* The lock of a connection is held by the one goroutine that writes to it, and by
\* nobody else: also after its peer went away, no write that failed leaves it locked.
LockExact ==
  \A p, q \in Peers : wmu[q] = p <=> (at[p] = "write" /\ job[p].to = q)

\* Only the goroutine that takes the lock comes to write, and only it gives the lock back.
LEMMA LockStep ==
  ASSUME TypeOK, LockExact, [Next]_vars
  PROVE  LockExact'
<1>0. 0 \notin Peers
  BY PressureAssumption
<1> USE DEF LockExact
<1>1. /\ at \in [Peers -> {"read", "lock", "write", "done"}]
      /\ job \in [Peers -> [frame : {"deliver", "peers"}, to : Peers]]
      /\ wmu \in [Peers -> Peers \cup {0}]
  BY DEF TypeOK
\* The goroutine of p moves between places where it writes to nobody.
<1>2. ASSUME NEW p \in Peers, at[p] # "write", at'[p] # "write", wmu' = wmu,
             \A r \in Peers \ {p} : at'[r] = at[r] /\ job'[r] = job[r]
      PROVE  LockExact'
  BY <1>2
<1>3. ASSUME UNCHANGED <<at, job, wmu>> PROVE LockExact'
  BY <1>3
<1>4. ASSUME NEW p \in Peers, FlushNext(p) \/ RouteNext(p) \/ Reads(p) \/ ReadFails(p)
      PROVE  LockExact'
  <2>1. at[p] = "read" /\ at'[p] # "write" /\ wmu' = wmu
    BY <1>1, <1>4 DEF FlushNext, RouteNext, Reads, ReadFails, Free, Turn
  <2>2. \A r \in Peers \ {p} : at'[r] = at[r] /\ job'[r] = job[r]
    BY <1>1, <1>4 DEF FlushNext, RouteNext, Reads, ReadFails, Free, Turn
  <2> QED
    BY <1>2, <2>1, <2>2
<1>5. ASSUME NEW p \in Peers, Locks(p) PROVE LockExact'
  <2>1. PICK q \in Peers : q = job[p].to
    BY <1>1
  <2>2. at[p] = "lock" /\ wmu[q] = 0 /\ job' = job
    BY <1>5, <2>1 DEF Locks
  <2>3. \A r \in Peers : at'[r] = IF r = p THEN "write" ELSE at[r]
    BY <1>1, <1>5 DEF Locks
  <2>4. \A r \in Peers : wmu'[r] = IF r = q THEN p ELSE wmu[r]
    BY <1>1, <1>5, <2>1 DEF Locks
  <2> QED
    BY <1>0, <2>1, <2>2, <2>3, <2>4
<1>6. ASSUME NEW p \in Peers, Writes(p) \/ WriteFails(p) PROVE LockExact'
  <2>1. PICK q \in Peers : q = job[p].to
    BY <1>1
  <2>2. at[p] = "write" /\ job' = job
    BY <1>6 DEF Writes, WriteFails
  <2>3. \A r \in Peers : at'[r] = IF r = p THEN "read" ELSE at[r]
    BY <1>1, <1>6 DEF Writes, WriteFails
  <2>4. \A r \in Peers : wmu'[r] = IF r = q THEN 0 ELSE wmu[r]
    BY <1>1, <1>6, <2>1 DEF Writes, WriteFails
  <2>5. wmu[q] = p
    BY <2>1, <2>2
  <2> QED
    BY <1>0, <2>1, <2>2, <2>3, <2>4, <2>5
<1>7. ASSUME NEW p \in Peers, Host(p) \/ Pump(p) \/ Drop(p) PROVE LockExact'
  <2>1. UNCHANGED <<at, job, wmu>>
    BY <1>7 DEF Host, HostLocks, HostWrites, Pump, PumpReads, PumpLocks, PumpAcks, Drop, brokerVars
  <2> QED
    BY <1>3, <2>1
<1>8. CASE UNCHANGED vars
  BY <1>3, <1>8 DEF vars, brokerVars
<1> QED
  BY <1>4, <1>5, <1>6, <1>7, <1>8 DEF Next, Goroutine

\* Writes to a connection exclude each other, and a lock that is taken has a writer.
THEOREM LockIsExact == Spec => []LockExact
<1>1. Init => LockExact
  <2>1. 0 \notin Peers
    BY PressureAssumption
  <2> QED
    BY <2>1 DEF Init, LockExact
<1>2. TypeOK /\ LockExact /\ [Next]_vars => LockExact'
  BY LockStep
<1> QED
  BY <1>1, <1>2, TypeCorrect, PTL DEF Spec
=============================================================================
