----------------------------- MODULE AuditProofs -----------------------------
(***************************************************************************)
(* The audit chain is intact in every state, for any number of writers,    *)
(* events, rows, failures and crashes.                                     *)
(***************************************************************************)
EXTENDS Audit, SequenceTheorems, TLAPS

\* The inductive invariant: what the mutex protects, the chain, and the count of
\* refused inserts.
AInv == TailFresh /\ ChainIntact /\ UniqueNeverFires

\* On a verified table the next link is the number of rows and the last hash.
LEMMA NextLinkOfChain ==
  ASSUME rows \in Seq(RowSet), Verifies(rows)
  PROVE  /\ NextLink.seq = Len(rows)
         /\ NextLink.prev \in Hashes
         /\ NextLink \in [seq : Nat, prev : Hashes]
         /\ rows # <<>> => NextLink.prev = rows[Len(rows)].hash
         /\ rows = <<>> => NextLink.prev = GenesisPrevHash
         /\ ~Taken(Len(rows))
<1>1. CASE rows = <<>>
  <2>1. NextLink = [seq |-> 0, prev |-> GenesisPrevHash]
    BY <1>1 DEF NextLink
  <2>2. GenesisPrevHash \in Hashes
    BY DEF GenesisPrevHash, Hashes
  <2> QED
    BY <1>1, <2>1, <2>2 DEF Taken
<1>2. CASE rows # <<>>
  <2>1. Len(rows) \in 1..Len(rows)
    BY <1>2 DEF RowSet
  <2>2. /\ rows[Len(rows)] \in RowSet
        /\ rows[Len(rows)].seq = Len(rows) - 1
    BY <2>1 DEF Verifies, Linked
  <2>3. NextLink = [seq |-> rows[Len(rows)].seq + 1, prev |-> rows[Len(rows)].hash]
    BY <1>2 DEF NextLink
  <2>4. ~Taken(Len(rows))
    BY DEF Taken, Verifies, Linked
  <2> QED
    BY <1>2, <2>2, <2>3, <2>4 DEF RowSet
<1> QED
  BY <1>1, <1>2

\* Appending a row that links on the last one keeps the chain.
LEMMA AppendKeepsChain ==
  ASSUME rows \in Seq(RowSet), Verifies(rows), NEW e \in Events,
         NEW r, r = [seq |-> NextLink.seq, prev |-> NextLink.prev, event |-> e,
                     hash |-> ChainHash(NextLink.prev, e)]
  PROVE  /\ r \in RowSet
         /\ Append(rows, r) \in Seq(RowSet)
         /\ Verifies(Append(rows, r))
<1>1. r \in RowSet
  BY NextLinkOfChain DEF RowSet, ChainHash, Hashes
<1>2. Append(rows, r) \in Seq(RowSet)
  BY <1>1
<1>3. ASSUME NEW i \in 1..Len(Append(rows, r))
      PROVE  Linked(Append(rows, r), i)
  <2>1. CASE i \in 1..Len(rows)
    <3>1. Append(rows, r)[i] = rows[i] /\ (i # 1 => Append(rows, r)[i-1] = rows[i-1])
      BY <2>1
    <3>2. Linked(rows, i)
      BY <2>1 DEF Verifies
    <3> QED
      BY <3>1, <3>2 DEF Linked
  <2>2. CASE i = Len(rows) + 1
    <3>1. /\ Append(rows, r)[i] = r
          /\ i # 1 => Append(rows, r)[i-1] = rows[Len(rows)]
      BY <2>2
    <3>2. i = 1 <=> rows = <<>>
      BY <2>2
    <3> QED
      BY <2>2, <3>1, <3>2, NextLinkOfChain DEF Linked
  <2> QED
    BY <1>3, <2>1, <2>2
<1> QED
  BY <1>1, <1>2, <1>3 DEF Verifies

\* Initially the table is empty and nobody holds the mutex.
LEMMA AInvInit == Init => AInv
<1> SUFFICES ASSUME Init PROVE AInv
  OBVIOUS
<1> USE AuditAssumption
<1>1. GenesisPrevHash \in Hashes /\ (CHOOSE e \in Events : TRUE) \in Events
  BY DEF GenesisPrevHash, Hashes
<1>2. TypeOK
  BY <1>1 DEF Init, TypeOK
<1> QED
  BY <1>2 DEF Init, AInv, TailFresh, ChainIntact, Verifies, UniqueNeverFires

\* Every step of a writer, and a crash, preserves the invariant.
LEMMA AInvNext == AInv /\ [Next]_vars => AInv'
<1> SUFFICES ASSUME AInv, [Next]_vars PROVE AInv'
  OBVIOUS
<1> USE AuditAssumption DEF AInv, TailFresh, ChainIntact, UniqueNeverFires
<1>0. NextLink \in [seq : Nat, prev : Hashes] /\ Verifies(rows)
  BY NextLinkOfChain DEF TypeOK
<1>1. ASSUME NEW w \in Writers, Call(w) PROVE AInv'
  BY <1>1 DEF Call, TypeOK, NextLink, Verifies, Linked
<1>2. ASSUME NEW w \in Writers, Lock(w) PROVE AInv'
  BY <1>2 DEF Lock, TypeOK, NextLink, Verifies, Linked
<1>3. ASSUME NEW w \in Writers, AuditLast(w) PROVE AInv'
  <2>1. TypeOK'
    BY <1>0, <1>3 DEF AuditLast, TypeOK
  <2>2. NextLink' = NextLink
    BY <1>3 DEF AuditLast, NextLink
  <2>3. \A v \in Writers : at'[v] = "insert" => tail'[v] = NextLink
    BY <1>3 DEF AuditLast, TypeOK
  <2> QED
    BY <1>3, <2>1, <2>2, <2>3 DEF AuditLast, TypeOK, Verifies, Linked
<1>4. ASSUME NEW w \in Writers, AuditAppend(w) PROVE AInv'
  <2>1. tail[w] = NextLink /\ ~Taken(tail[w].seq)
    BY <1>4, NextLinkOfChain DEF AuditAppend, TypeOK
  <2> DEFINE r == [seq |-> NextLink.seq, prev |-> NextLink.prev, event |-> event[w],
                   hash |-> ChainHash(NextLink.prev, event[w])]
  <2>2. rows' = Append(rows, r) /\ failed' = failed
    BY <1>4, <2>1 DEF AuditAppend
  <2>3. rows' \in Seq(RowSet) /\ Verifies(rows')
    BY <2>2, AppendKeepsChain DEF TypeOK
  <2>4. TypeOK'
    BY <1>4, <2>2, <2>3 DEF AuditAppend, Return, TypeOK
  <2>5. \A v \in Writers : ~(at'[v] \in {"last", "insert"})
    BY <1>4 DEF AuditAppend, Return, TypeOK
  <2>6. mu' = NoWriter
    BY <1>4 DEF AuditAppend, Return
  <2> QED
    BY <1>4, <2>2, <2>3, <2>4, <2>5, <2>6 DEF AuditAppend, Verifies, Linked
<1>5. ASSUME NEW w \in Writers, Fault(w) PROVE AInv'
  BY <1>5 DEF Fault, Fails, Return, TypeOK, NextLink, Verifies, Linked
<1>6. CASE Crash
  BY <1>6 DEF Crash, TypeOK, NextLink, Verifies, Linked
<1>7. CASE UNCHANGED vars
  BY <1>7 DEF vars, TypeOK, NextLink, Verifies, Linked
<1> QED
  BY <1>1, <1>2, <1>3, <1>4, <1>5, <1>6, <1>7 DEF Next, AppendStep

\* The invariant holds in every reachable state.
THEOREM AuditInvariant == Spec => []AInv
BY AInvInit, AInvNext, PTL DEF Spec

\* Append's mutex keeps the tail it read current: TailFresh always holds.
THEOREM TailAlwaysFresh == Spec => []TailFresh
<1>1. AInv => TailFresh
  BY DEF AInv
<1> QED
  BY <1>1, AuditInvariant, PTL

\* audit verify finds no break in a table only Append has written.
THEOREM ChainAlwaysIntact == Spec => []ChainIntact
<1>1. AInv => ChainIntact
  BY DEF AInv
<1> QED
  BY <1>1, AuditInvariant, PTL

\* UNIQUE(seq) never refuses an append.
THEOREM NoAppendRefused == Spec => []UniqueNeverFires
<1>1. AInv => UniqueNeverFires
  BY DEF AInv
<1> QED
  BY <1>1, AuditInvariant, PTL

\* Changing the event, the hash or the prev_hash of one row of a chain, or taking the row
\* out, breaks it there.
LEMMA DamageShows ==
  ASSUME rows \in Seq(RowSet), Verifies(rows) PROVE DamageLocated
<1> SUFFICES ASSUME NEW i \in 1..Len(rows) PROVE
      /\ \A e \in Events \ {rows[i].event} : IsBreak([rows EXCEPT ![i].event = e], i)
      /\ \A j \in 1..Len(rows) : rows[j].hash # rows[i].hash =>
           IsBreak([rows EXCEPT ![i].hash = rows[j].hash], i)
      /\ \A j \in 1..Len(rows) : rows[j].hash # rows[i].prev =>
           IsBreak([rows EXCEPT ![i].prev = rows[j].hash], i)
      /\ i < Len(rows) => IsBreak(Without(rows, i), i)
  BY DEF DamageLocated
<1>1. \A j \in 1..Len(rows) : rows[j] \in RowSet /\ Linked(rows, j)
  BY DEF Verifies
<1>2. ASSUME NEW e \in Events \ {rows[i].event}
      PROVE  IsBreak([rows EXCEPT ![i].event = e], i)
  <2> DEFINE t == [rows EXCEPT ![i].event = e]
  <2>1. /\ Len(t) = Len(rows) /\ i \in 1..Len(t)
        /\ \A j \in 1..Len(rows) : j # i => t[j] = rows[j]
        /\ t[i].prev = rows[i].prev /\ t[i].hash = rows[i].hash /\ t[i].event = e
    BY <1>1 DEF RowSet
  <2>2. Append(rows[i].prev, e) # Append(rows[i].prev, rows[i].event)
    BY <1>1 DEF RowSet, Hashes
  <2>3. ~Linked(t, i)
    BY <1>1, <2>1, <2>2 DEF Linked, ChainHash
  <2>4. \A j \in 1..(i-1) : Linked(t, j)
    BY <1>1, <2>1 DEF Linked
  <2> QED
    BY <2>1, <2>3, <2>4 DEF IsBreak
<1>3. ASSUME NEW j \in 1..Len(rows), rows[j].hash # rows[i].hash
      PROVE  IsBreak([rows EXCEPT ![i].hash = rows[j].hash], i)
  <2> DEFINE t == [rows EXCEPT ![i].hash = rows[j].hash]
  <2>1. /\ Len(t) = Len(rows) /\ i \in 1..Len(t)
        /\ \A k \in 1..Len(rows) : k # i => t[k] = rows[k]
        /\ t[i].prev = rows[i].prev /\ t[i].hash = rows[j].hash /\ t[i].event = rows[i].event
    BY <1>1 DEF RowSet
  <2>2. ~Linked(t, i)
    BY <1>1, <1>3, <2>1 DEF Linked
  <2>3. \A k \in 1..(i-1) : Linked(t, k)
    BY <1>1, <2>1 DEF Linked
  <2> QED
    BY <2>1, <2>2, <2>3 DEF IsBreak
<1>4. ASSUME NEW j \in 1..Len(rows), rows[j].hash # rows[i].prev
      PROVE  IsBreak([rows EXCEPT ![i].prev = rows[j].hash], i)
  <2> DEFINE t == [rows EXCEPT ![i].prev = rows[j].hash]
  <2>1. /\ Len(t) = Len(rows) /\ i \in 1..Len(t)
        /\ \A k \in 1..Len(rows) : k # i => t[k] = rows[k]
        /\ t[i].prev = rows[j].hash /\ t[i].seq = rows[i].seq
    BY <1>1 DEF RowSet
  <2>2. t[i].prev # IF i = 1 THEN GenesisPrevHash ELSE t[i-1].hash
    BY <1>1, <1>4, <2>1 DEF Linked
  <2>3. ~Linked(t, i)
    BY <2>2 DEF Linked
  <2>4. \A k \in 1..(i-1) : Linked(t, k)
    BY <1>1, <2>1 DEF Linked
  <2> QED
    BY <2>1, <2>3, <2>4 DEF IsBreak
<1>5. ASSUME i < Len(rows) PROVE IsBreak(Without(rows, i), i)
  <2> DEFINE t == Without(rows, i)
  <2>1. /\ Len(t) = Len(rows) - 1 /\ i \in 1..Len(t)
        /\ t[i] = rows[i+1]
        /\ \A k \in 1..(i-1) : t[k] = rows[k]
    <3>1. PICK n \in Nat : n = Len(rows) - 1 /\ i \in 1..n
      BY <1>5
    <3>2. t = [k \in 1..n |-> IF k < i THEN rows[k] ELSE rows[k+1]]
      BY <3>1 DEF Without
    <3>3. t \in Seq(RowSet) /\ Len(t) = n
      <4>1. \A k \in 1..n : (IF k < i THEN rows[k] ELSE rows[k+1]) \in RowSet
        BY <1>1, <3>1
      <4>2. t \in [1..n -> RowSet]
        BY <3>2, <4>1
      <4> QED
        BY <3>1, <3>2, <4>2, SeqDef
    <3>4. \A k \in 1..n : t[k] = IF k < i THEN rows[k] ELSE rows[k+1]
      BY <3>2
    <3> HIDE DEF t
    <3> QED
      BY <3>1, <3>3, <3>4
  <2>2. rows[i+1].seq = i
    BY <1>1, <1>5 DEF Linked
  <2>3. ~Linked(t, i)
    BY <2>1, <2>2 DEF Linked
  <2>4. ASSUME NEW k \in 1..(i-1) PROVE Linked(t, k)
    <3>1. k \in 1..Len(rows) /\ (k # 1 => k-1 \in 1..(i-1))
      OBVIOUS
    <3> HIDE DEF t
    <3>2. t[k] = rows[k] /\ (k # 1 => t[k-1] = rows[k-1])
      BY <2>1, <3>1
    <3>3. Linked(rows, k)
      BY <1>1, <3>1
    <3> QED
      BY <3>2, <3>3 DEF Linked
  <2> QED
    BY <2>1, <2>3, <2>4 DEF IsBreak
<1> QED
  BY <1>2, <1>3, <1>4, <1>5

\* verify finds damage to any one row, at that row.
THEOREM DamageAlwaysLocated == Spec => []DamageLocated
<1>1. AInv => DamageLocated
  BY DamageShows DEF AInv, TailFresh, TypeOK, ChainIntact
<1> QED
  BY <1>1, AuditInvariant, PTL
==============================================================================
