-------------------------------- MODULE Audit --------------------------------
(***************************************************************************)
(* The audit hash chain (internal/audit) over the audit table of the       *)
(* store.  Append holds the Appender's mutex over two separate database    *)
(* calls: AuditLast reads the tail, AuditAppend inserts the next row.      *)
(* Writers are the broker's connection goroutines.  The broker may crash   *)
(* anywhere and is restarted on the same table.                            *)
(***************************************************************************)
EXTENDS Naturals, Sequences

CONSTANTS Writers, Events,
          NoWriter,
          MaxRows,           \* bound: rows after which no append is started
          MaxFaults,         \* bound: failed database calls
          MaxCrashes         \* bound: broker crashes

ASSUME AuditAssumption ==
  /\ NoWriter \notin Writers
  /\ Events # {}
  /\ MaxRows \in Nat /\ MaxFaults \in Nat /\ MaxCrashes \in Nat

\* blake3 is taken to be collision free: the digest of a previous hash and an event
\* tells both, so it is represented by the sequence of the events chained so far.
Hashes == Seq(Events)
GenesisPrevHash == <<>>
ChainHash(prev, e) == Append(prev, e)

RowSet == [seq : Nat, prev : Hashes, hash : Hashes, event : Events]

VARIABLES rows,     \* table audit, in the order of insertion
          mu,       \* holder of the Appender's mutex
          at,       \* each writer: "idle", "lock", "last", "insert"
          event,    \* the event it appends
          tail,     \* the seq and prev_hash its insert will use
          failed,   \* appends that returned an error
          faults, crashes

vars == <<rows, mu, at, event, tail, failed, faults, crashes>>

TypeOK ==
  /\ rows \in Seq(RowSet)
  /\ mu \in Writers \cup {NoWriter}
  /\ at \in [Writers -> {"idle", "lock", "last", "insert"}]
  /\ event \in [Writers -> Events]
  /\ tail \in [Writers -> [seq : Nat, prev : Hashes]]
  /\ failed \in Nat
  /\ faults \in 0..MaxFaults
  /\ crashes \in 0..MaxCrashes

Init ==
  /\ rows = <<>>
  /\ mu = NoWriter
  /\ at = [w \in Writers |-> "idle"]
  /\ event = [w \in Writers |-> CHOOSE e \in Events : TRUE]
  /\ tail = [w \in Writers |-> [seq |-> 0, prev |-> GenesisPrevHash]]
  /\ failed = 0 /\ faults = 0 /\ crashes = 0

\* auditEvent calls Append.
Call(w) ==
  /\ at[w] = "idle"
  /\ Len(rows) < MaxRows
  /\ \E e \in Events : event' = [event EXCEPT ![w] = e]
  /\ at' = [at EXCEPT ![w] = "lock"]
  /\ UNCHANGED <<rows, mu, tail, failed, faults, crashes>>

\* Mutant: no mutex.
LockFree(w) ==
  /\ at[w] = "lock"
  /\ mu' = w
  /\ at' = [at EXCEPT ![w] = "last"]
  /\ UNCHANGED <<rows, event, tail, failed, faults, crashes>>

Lock(w) ==
  /\ at[w] = "lock"
  /\ mu = NoWriter
  /\ mu' = w
  /\ at' = [at EXCEPT ![w] = "last"]
  /\ UNCHANGED <<rows, event, tail, failed, faults, crashes>>

\* Append returns: the deferred unlock runs.
Return(w) ==
  /\ mu' = NoWriter
  /\ at' = [at EXCEPT ![w] = "idle"]

\* Mutant: the error path does not unlock.
FailsLocked(w) ==
  /\ faults < MaxFaults
  /\ faults' = faults + 1
  /\ failed' = failed + 1
  /\ at' = [at EXCEPT ![w] = "idle"]
  /\ UNCHANGED <<rows, mu, event, tail, crashes>>

Fails(w) ==
  /\ faults < MaxFaults
  /\ faults' = faults + 1
  /\ failed' = failed + 1
  /\ Return(w)
  /\ UNCHANGED <<rows, event, tail, crashes>>

\* Mutant: every row chains on the genesis hash.
NextLinkGenesis == [seq |-> Len(rows), prev |-> GenesisPrevHash]

\* The row with the highest seq, the one inserted last, gives the next seq and the
\* hash to chain on.
NextLink ==
  IF rows = <<>> THEN [seq |-> 0, prev |-> GenesisPrevHash]
  ELSE [seq |-> rows[Len(rows)].seq + 1, prev |-> rows[Len(rows)].hash]

AuditLast(w) ==
  /\ at[w] = "last"
  /\ tail' = [tail EXCEPT ![w] = NextLink]
  /\ at' = [at EXCEPT ![w] = "insert"]
  /\ UNCHANGED <<rows, mu, event, failed, faults, crashes>>

\* UNIQUE(seq) refuses a position that is taken.
Taken(n) == \E i \in 1..Len(rows) : rows[i].seq = n

AuditAppend(w) ==
  /\ at[w] = "insert"
  /\ IF Taken(tail[w].seq)
     THEN failed' = failed + 1 /\ UNCHANGED rows
     ELSE /\ rows' = Append(rows, [seq |-> tail[w].seq, prev |-> tail[w].prev,
                                   event |-> event[w],
                                   hash |-> ChainHash(tail[w].prev, event[w])])
          /\ UNCHANGED failed
  /\ Return(w)
  /\ UNCHANGED <<event, tail, faults, crashes>>

\* Either database call may fail; Append then returns the error.
Fault(w) == at[w] \in {"last", "insert"} /\ Fails(w)

\* The broker dies and restarts on the same database file.
Crash ==
  /\ crashes < MaxCrashes
  /\ crashes' = crashes + 1
  /\ mu' = NoWriter
  /\ at' = [w \in Writers |-> "idle"]
  /\ UNCHANGED <<rows, event, tail, failed, faults>>

AppendStep(w) == Lock(w) \/ AuditLast(w) \/ AuditAppend(w) \/ Fault(w)

Next == (\E w \in Writers : Call(w) \/ AppendStep(w)) \/ Crash

Spec == Init /\ [][Next]_vars

\* A goroutine inside Append runs on, and the mutex starves nobody who waits for it (a
\* sync.Mutex is handed to a waiter it has passed over too long).
FairSpec == Spec /\ \A w \in Writers : WF_vars(AppendStep(w)) /\ SF_vars(Lock(w))

----------------------------------------------------------------------------
(* verify *)

\* Mutant: the stored hash is not recomputed.
LinkedPrevOnly(t, i) ==
  /\ t[i].seq = i - 1
  /\ t[i].prev = IF i = 1 THEN GenesisPrevHash ELSE t[i-1].hash

\* The loop's checks on row i of a table t: its seq is its position, its prev_hash
\* is the running hash, and its hash is the recomputed one.
Linked(t, i) ==
  /\ t[i].seq = i - 1
  /\ t[i].prev = IF i = 1 THEN GenesisPrevHash ELSE t[i-1].hash
  /\ t[i].hash = ChainHash(t[i].prev, t[i].event)

\* verify returns the first row that fails a check, or none.
IsBreak(t, i) == i \in 1..Len(t) /\ ~Linked(t, i) /\ \A j \in 1..(i-1) : Linked(t, j)
Verifies(t) == \A i \in 1..Len(t) : Linked(t, i)

----------------------------------------------------------------------------
(* properties *)

\* However the goroutines' appends, their failures and broker crashes interleave,
\* the table on disk always verifies: what is inserted links on the row before it.  A
\* stale tail could not break the chain, since UNIQUE(seq) would refuse its row; that
\* none is refused, and so no event lost, is TailFresh's and UniqueNeverFires' subject.
ChainIntact == Verifies(rows)

\* Append's mutex spans the read of the tail and the insert that depends on it: at most
\* its holder is between the two, and what it read is still the tail.
TailFresh ==
  /\ TypeOK
  /\ \A w \in Writers : at[w] \in {"last", "insert"} <=> mu = w
  /\ \A w \in Writers : at[w] = "insert" => tail[w] = NextLink

\* No append is refused by UNIQUE(seq): the constraint is a last line of defence
\* that never fires, so no event is lost to it.
UniqueNeverFires == failed = faults

\* The table without its row i.
Without(t, i) == [j \in 1..(Len(t) - 1) |-> IF j < i THEN t[j] ELSE t[j+1]]

\* Damage to one row of the table is found by verify, at exactly that row: another
\* event, the hash or the prev_hash of any other link, or the row taken out.  Only the
\* end can be cut off unseen.
DamageLocated ==
  \A i \in 1..Len(rows) :
    /\ \A e \in Events \ {rows[i].event} : IsBreak([rows EXCEPT ![i].event = e], i)
    /\ \A j \in 1..Len(rows) : rows[j].hash # rows[i].hash =>
         IsBreak([rows EXCEPT ![i].hash = rows[j].hash], i)
    /\ \A j \in 1..Len(rows) : rows[j].hash # rows[i].prev =>
         IsBreak([rows EXCEPT ![i].prev = rows[j].hash], i)
    /\ i < Len(rows) => IsBreak(Without(rows, i), i)

\* Every append returns: neither a failed call nor a crash leaves the mutex locked, on
\* which every goroutine that routes a frame would wait before it reads the next.
AppendsReturn == \A w \in Writers : at[w] # "idle" ~> at[w] = "idle"
==============================================================================
