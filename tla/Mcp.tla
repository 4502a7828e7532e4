--------------------------------- MODULE Mcp ---------------------------------
(***************************************************************************)
(* The stdio MCP server (internal/mcp): the Serve loop, which reads one    *)
(* JSON-RPC message at a time and dispatches it, the writer it shares with *)
(* the goroutines that push notifications, and the initialized signal.     *)
(* What a bus.* tool does is in module Session.                            *)
(***************************************************************************)
EXTENDS Naturals, Sequences

CONSTANTS Scripts,    \* the message sequences a host may write
          Ahead,      \* bound: messages on the pipe that Serve has not read
          Writers     \* goroutines that write to stdout; 0 is Serve

\* A message is told apart by how readMessage and dispatch treat it.  "badargs" is a
\* tools/call whose params, name or arguments are refused, "nosuch" one that names no
\* tool, "garbage" a line that is no JSON, "empty" a frame of length zero, "badframe" a
\* header block that ends the reading, "other" any other method.  "send" stands for
\* bus.send and bus.broadcast.  Id 0 is a message without an id.
Tools == {"peers", "send"}
Methods == {"initialize", "initialized", "ping", "tools/list", "drain", "badargs",
            "nosuch", "garbage", "empty", "badframe", "other"} \cup Tools
Messages == [id : Nat, method : Methods]

ASSUME McpAssumption ==
  /\ Scripts \subseteq Seq(Messages) /\ Scripts # {}
  /\ 0 \in Writers /\ Ahead \in Nat

VARIABLES script,     \* what this host writes to stdin
          fed,        \* how many of its messages it has written
          taken,      \* how many of them Serve has read
          eof,        \* has the host closed the pipe?
          cancelled,  \* is the context of the process cancelled?
          srv,        \* place of the Serve loop
          reply,      \* the response it is about to write
          line,       \* the bodies written to stdout since the last newline
          replies,    \* ids of the responses the host has got
          notes,      \* notifications the host has got
          wmu,        \* goroutines inside the write lock
          ready,      \* Server.initialized
          initCh,     \* Server.initializedCh
          signalled   \* has initializedOnce run?

outVars == <<line, replies, notes, wmu>>
initVars == <<ready, initCh, signalled>>
hostVars == <<script, fed, eof>>
mcpVars == <<hostVars, taken, cancelled, srv, reply, outVars, initVars>>

Reply(i, k) == [what |-> "reply", id |-> i, kind |-> k]
ReplyKinds == {"result", "failure", "error"}
NoReply == Reply(0, "result")
Replies == [what : {"reply"}, id : Nat, kind : ReplyKinds]

\* Places of Serve: between messages, blocked in a read, waiting for that read to fail,
\* in signalInitialized, in a bus.* tool (module Session), in write.
ToolPlaces == {"call", "sink", "request", "wait", "unsink"}
ServePlaces == {"top", "read", "reap", "signal", "write", "flush", "returned"} \cup ToolPlaces

McpTypeOK ==
  /\ script \in Scripts
  /\ fed \in 0..Len(script) /\ taken \in 0..fed /\ fed - taken <= Ahead
  /\ eof \in BOOLEAN /\ cancelled \in BOOLEAN
  /\ srv \in ServePlaces
  /\ reply \in Replies
  /\ wmu \subseteq Writers
  /\ ready \in BOOLEAN /\ signalled \in BOOLEAN
  /\ initCh \in {"nil", "open", "closed"}

McpInit ==
  /\ script \in Scripts
  /\ fed = 0 /\ taken = 0 /\ eof = FALSE
  /\ cancelled = FALSE
  /\ srv = "top"
  /\ reply = NoReply
  /\ line = <<>> /\ replies = <<>> /\ notes = {} /\ wmu = {}
  /\ ready = FALSE /\ initCh = "nil" /\ signalled = FALSE

----------------------------------------------------------------------------
(* the writer *)

\* Mutant: the body is written without the lock.
LockOutFree(w, body) ==
  /\ wmu' = wmu \cup {w}
  /\ line' = Append(line, body)
  /\ UNCHANGED <<replies, notes>>

\* write and Notify: the body, then its newline and the flush, under one lock.
LockOut(w, body) ==
  /\ wmu = {}
  /\ wmu' = {w}
  /\ line' = Append(line, body)
  /\ UNCHANGED <<replies, notes>>

\* The host can read the line if it holds one body only.  The flush waits until the host
\* takes what is in the pipe.
FinishOut(w) ==
  /\ w \in wmu
  /\ wmu' = wmu \ {w}
  /\ line' = <<>>
  /\ LET whole == Len(line) = 1
         isReply == whole /\ line[1].what = "reply"
     IN  /\ replies' = IF isReply THEN Append(replies, line[1].id) ELSE replies
         /\ notes' = IF whole /\ ~isReply THEN notes \cup {line[1]} ELSE notes

----------------------------------------------------------------------------
(* the initialized signal *)

\* Initialized: allocated on first use, closed at once if the signal has fired.
Initialized ==
  /\ initCh' = IF initCh # "nil" THEN initCh ELSE IF ready THEN "closed" ELSE "open"
  /\ UNCHANGED <<ready, signalled>>

\* Mutant: sync.Once is gone, so that a second signal closes a closed channel.
SignalInitializedAgain ==
  /\ srv = "signal"
  /\ initCh' = CASE initCh = "nil" -> "nil" [] initCh = "open" -> "closed"
                 [] OTHER -> "panic"
  /\ signalled' = TRUE
  /\ srv' = "top"
  /\ UNCHANGED <<ready, hostVars, taken, cancelled, reply, outVars>>

\* Mutant: it is taken for done, as dispatch has set Server.initialized before.
SignalInitializedNever ==
  /\ srv = "signal"
  /\ initCh' = IF ready THEN initCh ELSE "closed"
  /\ signalled' = TRUE
  /\ srv' = "top"
  /\ UNCHANGED <<ready, hostVars, taken, cancelled, reply, outVars>>

\* signalInitialized, after dispatch has set Server.initialized.
SignalInitialized ==
  /\ srv = "signal"
  /\ initCh' = IF signalled \/ initCh = "nil" THEN initCh
               ELSE IF initCh = "open" THEN "closed" ELSE "panic"
  /\ signalled' = TRUE
  /\ srv' = "top"
  /\ UNCHANGED <<ready, hostVars, taken, cancelled, reply, outVars>>

----------------------------------------------------------------------------
(* Serve *)

\* The top of the loop: return once the context is done, else start a read.
Top ==
  /\ srv = "top"
  /\ srv' = IF cancelled THEN "returned" ELSE "read"
  /\ UNCHANGED <<hostVars, taken, cancelled, reply, outVars, initVars>>

Incoming == script[taken + 1]

\* dispatch: does m get a response at all, and which, if it is no bus call?
Answered(m) ==
  \/ m.method \in {"initialize", "tools/list", "garbage"}
  \/ m.method \in {"ping", "other", "drain", "badargs", "nosuch"} /\ m.id # 0

Response(m) ==
  Reply(IF m.method = "garbage" THEN 0 ELSE m.id,
        IF m.method \in {"initialize", "tools/list", "ping", "drain"} THEN "result" ELSE "error")

\* dispatch up to the first step other goroutines can see.
Take ==
  /\ srv = "read" /\ taken < fed
  /\ taken' = taken + 1
  /\ LET m == Incoming
     IN  /\ ready' = (ready \/ m.method = "initialized")
         /\ reply' = IF Answered(m) THEN Response(m) ELSE reply
         /\ srv' = CASE m.method = "initialized" -> "signal"
                     [] m.method = "badframe" -> "returned"
                     [] m.method \in Tools /\ m.id # 0 -> "call"
                     [] Answered(m) -> "write"
                     [] OTHER -> "top"
  /\ UNCHANGED <<hostVars, cancelled, outVars, initCh, signalled>>

\* The message the loop is working on.
Current == script[taken]

\* A tool call is over; the response waits for the write lock.
Answer(kind) == reply' = Reply(Current.id, kind) /\ srv' = "write"

WriteReply ==
  /\ srv = "write"
  /\ LockOut(0, reply)
  /\ srv' = "flush"
  /\ UNCHANGED <<hostVars, taken, cancelled, reply, initVars>>

\* Mutant: a refused tools/call runs on into the result.
FlushReplyTwice ==
  /\ srv = "flush"
  /\ FinishOut(0)
  /\ IF reply.kind = "error" /\ Current.method = "badargs"
     THEN srv' = "write" /\ reply' = Reply(reply.id, "result")
     ELSE srv' = "top" /\ reply' = NoReply
  /\ UNCHANGED <<hostVars, taken, cancelled, initVars>>

FlushReply ==
  /\ srv = "flush"
  /\ FinishOut(0)
  /\ srv' = "top" /\ reply' = NoReply
  /\ UNCHANGED <<hostVars, taken, cancelled, initVars>>

\* A clean EOF ends Serve.
EndOfInput ==
  /\ srv = "read" /\ eof /\ taken = fed
  /\ srv' = "returned"
  /\ UNCHANGED <<hostVars, taken, cancelled, reply, outVars, initVars>>

\* The context is done while a read is pending: close the input, then wait for the read.
Interrupt ==
  /\ srv = "read" /\ cancelled
  /\ srv' = "reap"
  /\ UNCHANGED <<hostVars, taken, cancelled, reply, outVars, initVars>>

\* The pending read fails on the closed input, or has a message, which is dropped.  The
\* close need not end a read that is blocked in the kernel: see ReadWaits of module Session.
Reap ==
  /\ srv = "reap"
  /\ srv' = "returned"
  /\ UNCHANGED <<hostVars, taken, cancelled, reply, outVars, initVars>>

Serve ==
  \/ Top \/ Take \/ SignalInitialized \/ WriteReply \/ FlushReply
  \/ EndOfInput \/ Interrupt \/ Reap

----------------------------------------------------------------------------
(* the host and the process's surroundings *)

HostWrites ==
  /\ ~eof /\ fed < Len(script) /\ fed - taken < Ahead
  /\ fed' = fed + 1
  /\ UNCHANGED <<script, eof, taken, cancelled, srv, reply, outVars, initVars>>

HostCloses ==
  /\ ~eof
  /\ eof' = TRUE
  /\ UNCHANGED <<script, fed, taken, cancelled, srv, reply, outVars, initVars>>

\* SIGINT or SIGTERM, or the mode's own cancel.
Cancel == cancelled' = TRUE /\ UNCHANGED <<hostVars, taken, srv, reply, outVars, initVars>>

\* The host has told the server that its handshake is complete.
HostReady == \E i \in 1..fed : script[i].method = "initialized"
==============================================================================
