------------------------------ MODULE MCSession ------------------------------
(***************************************************************************)
(* Small instances of an adapter process for TLC: what its host writes.    *)
(***************************************************************************)
EXTENDS SessionProperties

Ask(i, m) == [id |-> i, method |-> m]
Tell(m) == Ask(0, m)

\* Two peers calls in a row, and one before a send.
TwoAsks == <<Ask(1, "peers"), Ask(2, "peers")>>
AskAndSend == <<Ask(1, "peers"), Ask(2, "send")>>

\* A handshake, and one before a bus call.
Hello == <<Tell("initialized")>>
Turn == Append(Hello, Ask(1, "peers"))

\* Every way a message that is no bus call can be treated, and a second initialized.
Oddities == <<Tell("initialize"), Tell("initialized"), Tell("initialized"), Ask(1, "badargs"), Ask(2, "nosuch"),
              Tell("garbage"), Tell("empty"), Tell("ping"), Ask(3, "ping"), Ask(4, "drain"),
              Tell("send"), Tell("badframe")>>

HostScripts == {TwoAsks, AskAndSend, Hello, Turn, Oddities}

Scene(m, s, d, p) == [mode |-> m, script |-> s, dials |-> d, pushes |-> p]

AllScenes == {Scene("generic", TwoAsks, 1, 1), Scene("generic", AskAndSend, 2, 0),
              Scene("cc", Hello, 2, 2), Scene("cc", Turn, 1, 1), Scene("cc", Oddities, 0, 0)}
==============================================================================
