------------------------------- MODULE Store -------------------------------
(***************************************************************************)
(* The durable SQLite store (internal/store): the peers, messages and      *)
(* sender_seq tables and the operations the broker calls on them.  Every   *)
(* operation is one SQL statement or one transaction over a single shared  *)
(* connection (SetMaxOpenConns(1)), so each is one atomic step here.       *)
(***************************************************************************)
EXTENDS Universe

Bit == {0, 1}
Rows == [sender : Names, recipient : Names, delivered : Bit, acked : Bit,
         attempts : Nat, seq : Nat]

VARIABLES peers,      \* names with a row in table peers
          messages,   \* table messages: row key |-> row
          senderSeq   \* table sender_seq: next seq of each sender (absent = 0)

storeVars == <<peers, messages, senderSeq>>

StoreTypeOK ==
  /\ peers \subseteq Names
  /\ DOMAIN messages \subseteq RowIds
  /\ messages \in [DOMAIN messages -> Rows]
  /\ senderSeq \in [Names -> Nat]

\* Open on a fresh file: the schema is created, every table is empty.
StoreInit ==
  /\ peers = {}
  /\ messages = [k \in {} |-> 0]
  /\ senderSeq = [n \in Names |-> 0]

Stored(k) == k \in DOMAIN messages

----------------------------------------------------------------------------
\* Upsert of the peer row; the refreshed timestamp is not modelled.
Register(n) ==
  /\ peers' = peers \cup {n}
  /\ UNCHANGED <<messages, senderSeq>>

\* The two refusals of Enqueue, in the order the transaction tests them.
ErrUnknownPeer(to) == to \notin peers
ErrDuplicateID(k, to) == to \in peers /\ Stored(k)

\* Mutant: the sender's counter is not advanced.
EnqueueSameSeq(k, from, to) ==
  /\ ~ErrUnknownPeer(to)
  /\ ~ErrDuplicateID(k, to)
  /\ messages' = [q \in DOMAIN messages \cup {k} |->
                    IF q = k THEN [sender |-> from, recipient |-> to, delivered |-> 0,
                                   acked |-> 0, attempts |-> 0, seq |-> senderSeq[from]]
                    ELSE messages[q]]
  /\ UNCHANGED <<peers, senderSeq>>

\* The per-sender seq allocation and the insert commit together.
Enqueue(k, from, to) ==
  /\ ~ErrUnknownPeer(to)
  /\ ~ErrDuplicateID(k, to)
  /\ messages' = [q \in DOMAIN messages \cup {k} |->
                    IF q = k THEN [sender |-> from, recipient |-> to, delivered |-> 0,
                                   acked |-> 0, attempts |-> 0, seq |-> senderSeq[from]]
                    ELSE messages[q]]
  /\ senderSeq' = [senderSeq EXCEPT ![from] = @ + 1]
  /\ UNCHANGED peers

\* Mutant: seq is taken to start at 1.
PendingForPositive(n) ==
  {k \in DOMAIN messages :
     messages[k].recipient = n /\ messages[k].delivered = 0 /\ messages[k].seq > 0}

\* The rows PendingFor selects: undelivered, whether acked or not.
PendingFor(n) ==
  {k \in DOMAIN messages : messages[k].recipient = n /\ messages[k].delivered = 0}

\* ORDER BY sender, seq: k is returned before q.
Before(k, q) ==
  \/ messages[k].sender < messages[q].sender
  \/ /\ messages[k].sender = messages[q].sender
     /\ messages[k].seq < messages[q].seq

\* Mutants: delivered counts, and delivering settles the row.
MarkDeliveredCounts(k) ==
  /\ messages' = [q \in DOMAIN messages |->
                    IF q = k THEN [messages[q] EXCEPT !.delivered = @ + 1] ELSE messages[q]]
  /\ UNCHANGED <<peers, senderSeq>>

MarkDeliveredSettles(k) ==
  /\ messages' = [q \in DOMAIN messages |->
                    IF q = k THEN [messages[q] EXCEPT !.delivered = 1, !.acked = 1]
                    ELSE messages[q]]
  /\ UNCHANGED <<peers, senderSeq>>

\* An unknown key updates no row.
MarkDelivered(k) ==
  /\ messages' = [q \in DOMAIN messages |->
                    IF q = k THEN [messages[q] EXCEPT !.delivered = 1, !.attempts = @ + 1]
                    ELSE messages[q]]
  /\ UNCHANGED <<peers, senderSeq>>

MarkAcked(k) ==
  /\ messages' = [q \in DOMAIN messages |->
                    IF q = k THEN [messages[q] EXCEPT !.acked = 1] ELSE messages[q]]
  /\ UNCHANGED <<peers, senderSeq>>

\* Mutant: nothing is requeued.
RequeueNothing(n) == UNCHANGED storeVars

\* Every delivered but unacked row of n becomes pending again.
RequeueUnacked(n) ==
  /\ messages' = [q \in DOMAIN messages |->
                    IF /\ messages[q].recipient = n
                       /\ messages[q].delivered = 1
                       /\ messages[q].acked = 0
                    THEN [messages[q] EXCEPT !.delivered = 0]
                    ELSE messages[q]]
  /\ UNCHANGED <<peers, senderSeq>>
============================================================================
