-------------------------------- MODULE MCBus --------------------------------
(***************************************************************************)
(* Small instances of the bus for TLC: who dials which connection, and     *)
(* what each sends.                                                        *)
(***************************************************************************)
EXTENDS BusProperties, TLC

CONSTANTS c1, c2, c3, c4,   \* connections
          t1, t2, bad       \* bearer tokens; bad is not configured

Reg(n, t) == [type |-> "register", name |-> n, token |-> t]
Msg(i, n) == [type |-> "env", id |-> i, to |-> n, kind |-> "msg"]
Cast(i) == [type |-> "env", id |-> i, to |-> Star, kind |-> "broadcast"]

\* What belongs to each of three connections.
Of(x, y, z) == (c1 :> x) @@ (c2 :> y) @@ (c3 :> z)

\* Any connection at any time, or c2 only before the crash and the others at any time.
Anytime == [c \in Conns |-> 0..MaxCrashes]
EarlyC2 == [Anytime EXCEPT ![c2] = {0}]

\* Peer 1 sends on c1; peer 2 comes on c2 and again, same token, on c3.
ClaimReconnect == Of(Reg(1, t1), Reg(2, t1), Reg(2, t1))
SendOne == Of(<<Msg(1, 2)>>, <<>>, <<>>)
SendTwo == Of(<<Msg(1, 2), Msg(2, 2)>>, <<>>, <<>>)

\* Three peers under two tokens; peer 1 broadcasts.  Of its own accord peer 2 acks the
\* copy of peer 3, which may never be stored, or not be stored, written or read yet.
ClaimThree == Of(Reg(1, t1), Reg(2, t1), Reg(3, t2))
Broadcasts == Of(<<Cast(1)>>, <<Ack(<<1, 3>>)>>, <<>>)

\* Name 1 on two overlapping connections; a rival with another token, which repeats an
\* id, writes to peer 2 that never registers, asks for the peers, and sends frames the
\* broker ignores: one malformed, one whose kind contradicts its to; and a stranger
\* without a valid token.
ClaimRivals == Of(Reg(1, t1), Reg(1, t1), Reg(1, t2)) @@ (c4 :> Reg(1, bad))
Resends == Of(<<Msg(1, 1)>>,
              <<Msg(2, 1)>>,
              <<Msg(1, 1), Msg(1, 1), Msg(3, 2), PeersFrame, OtherFrame,
                [Cast(1) EXCEPT !.kind = "msg"]>>) @@ (c4 :> <<>>)
==============================================================================
