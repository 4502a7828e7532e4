----------------------------- MODULE MCPressure -----------------------------
(***************************************************************************)
(* Plans of traffic for TLC.                                               *)
(***************************************************************************)
EXTENDS Pressure

Quiet == [sends |-> <<>>, pending |-> 0]
Sends(s) == [Quiet EXCEPT !.sends = s]

\* One way, with a shared recipient.
OneWay == <<Sends(<<{2}, {3}>>), Sends(<<{3}, {3}>>), Quiet>>

\* Two peers that flood each other.
TwoWay == <<Sends(<<{2}, {2}, {2}, {2}>>), Sends(<<{1}, {1}, {1}, {1}>>), Quiet>>

\* A peer that floods itself and writes to 3, as does a bystander.
Selfish == <<Sends(<<{1}, {1}, {3}, {1}, {1}>>), Sends(<<{3}, {3}>>), Quiet>>

\* A peer that asks for the peers while it is flooded with broadcasts, of which a
\* bystander gets a copy after it.
Asking == <<Sends(<<{}>>), Sends(<<{1, 3}, {1, 3}, {1, 3}, {1, 3}>>), Quiet>>

\* A peer that comes back to more than its socket holds, and one that writes to it.
Backlog == <<[sends |-> <<>>, pending |-> 4], Sends(<<{1}, {3}>>), Quiet>>

\* Two peers that broadcast at the same time.
Casting == <<Sends(<<{2, 3}, {2, 3}>>), Sends(<<{1, 3}, {1, 3}>>), Quiet>>

AllPlans == {OneWay, TwoWay, Selfish, Asking, Backlog, Casting}
==============================================================================
