--------------------------- MODULE RegistryProofs ---------------------------
(***************************************************************************)
(* The registry and the goroutines agree on who owns a name, for any       *)
(* number of connections, names and tokens and through any takeovers,      *)
(* failed handshakes, exits and crashes.                                   *)
(***************************************************************************)
EXTENDS BusProofs

\* The two halves of RegistryExact.
Runs(n) ==
  LET c == registry[n].conn
  IN  /\ Name(c) = n /\ Claim[c].token = registry[n].token
      /\ pc[c] \in Owning \cup Leaving

Owns(c) ==
  \/ BoundTo(Name(c), c)
  \/ ws[c] = "closed"
  \/ \E d \in Conns : pc[d] = "takeover" /\ dst[d] = c

\* A step that leaves the registry alone keeps both halves if goroutines past Bind
\* stay there, none comes to be, no closed socket opens and no takeover is forgotten.
LEMMA QuietKeepsOwners ==
  ASSUME TypeOK, RegistryExact, UNCHANGED registry,
         \A c \in Conns : pc[c] \in Owning \cup Leaving => pc'[c] \in Owning \cup Leaving,
         \A c \in Conns : pc'[c] \in Owning => pc[c] \in Owning,
         \A c \in Conns : (pc'[c] \in Owning /\ ws[c] = "closed") => ws'[c] = "closed",
         \A d \in Conns : pc[d] = "takeover" =>
           (pc'[d] = "takeover" /\ dst'[d] = dst[d]) \/ ws'[dst[d]] = "closed"
  PROVE  RegistryExact'
<1>1. ASSUME NEW n \in Names, Bound(n)' PROVE Runs(n)'
  <2>1. Bound(n) /\ registry[n].conn \in Conns
    BY <1>1 DEF Bound, TypeOK, RegistryTypeOK, Bindings
  <2>2. Runs(n)
    BY <2>1 DEF RegistryExact, Runs
  <2> QED
    BY <2>1, <2>2 DEF Runs, Name
<1>2. ASSUME NEW c \in Conns, pc'[c] \in Owning PROVE Owns(c)'
  <2>1. Owns(c)
    BY <1>2 DEF RegistryExact, Owns
  <2>2. CASE BoundTo(Name(c), c)
    BY <2>2 DEF Owns, BoundTo, Bound, Name
  <2>3. CASE ws[c] = "closed"
    BY <1>2, <2>3 DEF Owns
  <2>4. CASE \E d \in Conns : pc[d] = "takeover" /\ dst[d] = c
    BY <2>4 DEF Owns
  <2> QED
    BY <2>1, <2>2, <2>3, <2>4 DEF Owns
<1> QED
  BY <1>1, <1>2 DEF RegistryExact, Runs, Owns

\* Bind gives the name to the caller, and what it displaces is the caller's to close.
LEMMA BindKeepsOwners ==
  ASSUME TypeOK, RegistryExact, NEW c \in Conns, BindName(c) PROVE RegistryExact'
<1> USE DEF Goto
<1>0. /\ registry \in [Names -> Bindings \cup {NoBinding}] /\ Name(c) \in Names
      /\ pc \in [Conns -> Places] /\ dst \in [Conns -> Conns]
  BY ClaimType DEF TypeOK, RegistryTypeOK, BrokerTypeOK
<1>1. /\ registry'[Name(c)] = [conn |-> c, token |-> Claim[c].token]
      /\ \A n \in Names : n # Name(c) => registry'[n] = registry[n]
      /\ registry'[Name(c)] # NoBinding
  BY <1>0, ClaimType, NoBindingAssumption DEF BindName, Bind
<1>2. /\ pc'[c] \in {"takeover", "requeue"} /\ pc[c] = "bind" /\ UNCHANGED ws
      /\ \A d \in Conns : d # c => pc'[d] = pc[d] /\ dst'[d] = dst[d]
      /\ Bound(Name(c)) => pc'[c] = "takeover" /\ dst'[c] = registry[Name(c)].conn
  BY <1>0 DEF BindName, linkVars
<1>3. pc'[c] \in Owning /\ pc[c] \notin Owning \cup Leaving /\ pc[c] # "takeover"
  BY <1>2 DEF Owning, Handshaking, Flushing, Serving, Routing, Leaving
<1>4. ASSUME NEW n \in Names, Bound(n)' PROVE Runs(n)'
  <2>1. CASE n = Name(c)
    BY <1>1, <1>3, <2>1 DEF Runs, Name
  <2>2. CASE n # Name(c)
    <3>1. Runs(n) /\ registry'[n] = registry[n]
      BY <1>1, <1>4, <2>2 DEF RegistryExact, Runs, Bound
    <3>2. registry[n].conn \in Conns \ {c}
      BY <1>0, <1>3, <1>4, <3>1 DEF Runs, Bound, Bindings
    <3> QED
      BY <1>2, <3>1, <3>2 DEF Runs, Name
  <2> QED
    BY <2>1, <2>2
<1>5. ASSUME NEW e \in Conns, pc'[e] \in Owning PROVE Owns(e)'
  <2>1. CASE e = c
    BY <1>1, <2>1 DEF Owns, BoundTo, Bound, Name
  <2>2. CASE e # c
    <3>1. Owns(e)
      BY <1>2, <1>5, <2>2 DEF RegistryExact, Owns
    <3>2. CASE BoundTo(Name(e), e) /\ Name(e) # Name(c)
      BY <1>1, <3>2, ClaimType DEF Owns, BoundTo, Bound, Name
    <3>3. CASE BoundTo(Name(e), e) /\ Name(e) = Name(c)
      BY <1>2, <3>3 DEF Owns, BoundTo
    <3>4. CASE ws[e] = "closed"
      BY <1>2, <3>4 DEF Owns
    <3>5. CASE \E d \in Conns : pc[d] = "takeover" /\ dst[d] = e
      BY <1>2, <1>3, <3>5 DEF Owns
    <3> QED
      BY <3>1, <3>2, <3>3, <3>4, <3>5 DEF Owns
  <2> QED
    BY <2>1, <2>2
<1> QED
  BY <1>4, <1>5 DEF RegistryExact, Runs, Owns

\* A goroutine that removes its name leaves, and Remove touches no other's binding.
LEMMA RemoveKeepsOwners ==
  ASSUME TypeOK, RegistryExact, NEW c \in Conns, AckHandshakeFails(c) \/ RemoveName(c)
  PROVE  RegistryExact'
<1> USE DEF Goto
<1>0. /\ registry \in [Names -> Bindings \cup {NoBinding}] /\ Name(c) \in Names
      /\ pc \in [Conns -> Places] /\ dst \in [Conns -> Conns]
  BY ClaimType DEF TypeOK, RegistryTypeOK, BrokerTypeOK
<1>1. \A n \in Names : \/ registry'[n] = registry[n]
                       \/ BoundTo(n, c) /\ registry'[n] = NoBinding
  BY <1>0 DEF AckHandshakeFails, RemoveName, Remove
<1>2. BoundTo(Name(c), c) => registry'[Name(c)] = NoBinding
  BY <1>0 DEF AckHandshakeFails, RemoveName, Remove
<1>3. /\ pc'[c] \in {"closing", "done"} /\ pc[c] # "takeover" /\ UNCHANGED ws
      /\ \A d \in Conns : d # c => pc'[d] = pc[d]
      /\ UNCHANGED dst
  BY <1>0 DEF AckHandshakeFails, RemoveName, linkVars, WriteFails
<1>4. pc'[c] \notin Owning
  BY <1>3 DEF Owning, Handshaking, Flushing, Serving, Routing
<1>5. ASSUME NEW n \in Names, Bound(n)' PROVE Runs(n)'
  <2>1. Bound(n) /\ registry'[n] = registry[n]
    BY <1>1, <1>5 DEF Bound
  <2>2. Runs(n) /\ registry[n].conn \in Conns
    BY <1>0, <2>1 DEF RegistryExact, Runs, Bound, Bindings
  <2>3. registry[n].conn # c
    BY <1>2, <1>5, <2>1, <2>2 DEF Runs, BoundTo, Bound
  <2> QED
    BY <1>3, <2>1, <2>2, <2>3 DEF Runs, Name
<1>6. ASSUME NEW e \in Conns, pc'[e] \in Owning PROVE Owns(e)'
  <2>1. e # c
    BY <1>4, <1>6
  <2>2. Owns(e)
    BY <1>3, <1>6, <2>1 DEF RegistryExact, Owns
  <2>3. CASE BoundTo(Name(e), e)
    BY <1>1, <2>1, <2>3, ClaimType DEF Owns, BoundTo, Bound, Name
  <2>4. CASE ws[e] = "closed" \/ \E d \in Conns : pc[d] = "takeover" /\ dst[d] = e
    BY <1>3, <2>4 DEF Owns
  <2> QED
    BY <2>2, <2>3, <2>4 DEF Owns
<1> QED
  BY <1>5, <1>6 DEF RegistryExact, Runs, Owns

\* RegistryExact is inductive: whoever displaces an owner has it to close, and whoever
\* unbinds a name is its owner and about to leave.
THEOREM RegistryIsExact == Spec => []RegistryExact
<1>1. Init => RegistryExact
  BY DEF Init, RegistryInit, BrokerInit, RegistryExact, Bound, Owning, Handshaking, Flushing,
         Serving, Routing
<1>2. TypeOK /\ RegistryExact /\ [Next]_vars => RegistryExact'
  <2> SUFFICES ASSUME TypeOK, RegistryExact, [Next]_vars PROVE RegistryExact'
    OBVIOUS
  <2> USE DEF Goto
  <2> DEFINE Quiets ==
        /\ UNCHANGED registry
        /\ \A c \in Conns : pc[c] \in Owning \cup Leaving => pc'[c] \in Owning \cup Leaving
        /\ \A c \in Conns : pc'[c] \in Owning => pc[c] \in Owning
        /\ \A c \in Conns : (pc'[c] \in Owning /\ ws[c] = "closed") => ws'[c] = "closed"
        /\ \A d \in Conns : pc[d] = "takeover" =>
             (pc'[d] = "takeover" /\ dst'[d] = dst[d]) \/ ws'[dst[d]] = "closed"
  <2>0. pc \in [Conns -> Places] /\ dst \in [Conns -> Conns] /\ ws \in [Conns -> {"none", "open", "closed"}]
    BY DEF TypeOK, BrokerTypeOK, LinkTypeOK
  <2>1. Quiets => RegistryExact'
    BY QuietKeepsOwners
  <2>2. ASSUME NEW c \in Conns, Handshake(c), ~BindName(c), ~AckHandshakeFails(c) PROVE Quiets
    BY <2>0, <2>2
       DEF Handshake, ReadRegister, RefuseRegister, Persist, RefuseName, CloseTakenOver,
           Requeue, AckHandshake, linkVars, Close, Read, Write,
           Owning, Handshaking, Flushing, Serving, Routing, Leaving
  <2>3. ASSUME NEW c \in Conns, FlushPending(c) PROVE Quiets
    BY <2>0, <2>3
       DEF FlushPending, QueryPending, Flush, FlushFails, FlushDone, FlushMark, FlushAudit,
           MarkWritten, AuditStep, AuditEvent, linkVars, Write, WriteFails,
           Owning, Handshaking, Flushing, Serving, Routing, Leaving
  <2>4. ASSUME NEW c \in Conns, RouteFrame(c) PROVE Quiets
    BY <2>0, <2>4
       DEF RouteFrame, ReadAck, HandleAck, AckAudit, ReadPeers, HandlePeers, ReadEnvelope,
           ReadIgnored, procVars, RouteEnqueue, RouteSkip, RouteDone, SendAudit, GetRecipient,
           DeliverTo, DeliverMark, DeliverAudit, MarkWritten, AuditStep, AuditEvent,
           linkVars, Write, WriteFails, Read,
           Owning, Handshaking, Flushing, Serving, Routing, Leaving
  <2>5. ASSUME NEW c \in Conns, Leave(c), ~RemoveName(c) PROVE Quiets
    BY <2>0, <2>5
       DEF Leave, ReadError, CloseNormal, linkVars, Close,
           Owning, Handshaking, Flushing, Serving, Routing, Leaving
  <2>6. ASSUME NEW c \in Conns, PeerStep(c) \/ Drop(c) PROVE Quiets
    BY <2>0, <2>6
       DEF PeerStep, Dial, Connected, ConnectFails, Send, Recv, RecvPeers, Hangup, Drop,
           procVars, Owning, Handshaking, Flushing, Serving, Routing, Leaving
  <2>7. CASE Crash
    <3>1. (\A n \in Names : ~Bound(n)') /\ \A c \in Conns : pc'[c] \in {"free", "done"}
      BY <2>7 DEF Crash, Bound
    <3> QED
      BY <3>1 DEF RegistryExact, Owning, Handshaking, Flushing, Serving, Routing
  <2>8. CASE Rest \/ UNCHANGED vars
    BY <2>1, <2>8 DEF Rest, vars, brokerVars, linkVars, procVars
  <2> QED
    BY <2>1, <2>2, <2>3, <2>4, <2>5, <2>6, <2>7, <2>8, BindKeepsOwners, RemoveKeepsOwners
       DEF Next, BrokerStep, Serve, Handshake, Leave
<1> QED
  BY <1>1, <1>2, TypeCorrect, PTL DEF Spec
=============================================================================
