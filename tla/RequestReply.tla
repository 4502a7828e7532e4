---------------------------- MODULE RequestReply ----------------------------
(***************************************************************************)
(* What the MCP server promises its host: it takes up one request at a     *)
(* time, in the order they come, and answers each exactly once under its   *)
(* own id before it takes up the next.                                     *)
(***************************************************************************)
EXTENDS Sequences

CONSTANT RequestIds
VARIABLES asked,     \* ids of the requests taken up
          answered   \* ids of the responses written

calls == <<asked, answered>>

Init == asked = <<>> /\ answered = <<>>

Ask(i) ==
  /\ answered = asked
  /\ asked' = Append(asked, i)
  /\ UNCHANGED answered

Answer ==
  /\ answered # asked
  /\ answered' = asked
  /\ UNCHANGED asked

Next == Answer \/ \E i \in RequestIds : Ask(i)

Spec == Init /\ [][Next]_calls
==============================================================================
