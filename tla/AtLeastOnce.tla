----------------------------- MODULE AtLeastOnce -----------------------------
(***************************************************************************)
(* What the bus promises about one message copy, without connections,      *)
(* goroutines or flags: an accepted copy may reach its recipient any       *)
(* number of times, and is settled (never owed again) only after it has    *)
(* reached the recipient at least once.  Nothing is ever un-accepted or    *)
(* un-settled, also across broker crashes.                                 *)
(***************************************************************************)
CONSTANT Copies

VARIABLES accepted, received, settled

promise == <<accepted, received, settled>>

Init == accepted = {} /\ received = {} /\ settled = {}

Accept(k) ==
  /\ k \notin accepted
  /\ accepted' = accepted \cup {k}
  /\ UNCHANGED <<received, settled>>

Receive(k) ==
  /\ k \in accepted
  /\ received' = received \cup {k}
  /\ UNCHANGED <<accepted, settled>>

Settle(k) ==
  /\ k \in received
  /\ settled' = settled \cup {k}
  /\ UNCHANGED <<accepted, received>>

Next == \E k \in Copies : Accept(k) \/ Receive(k) \/ Settle(k)

Spec == Init /\ [][Next]_promise
==============================================================================
