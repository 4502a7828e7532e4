------------------------------ MODULE Registry ------------------------------
(***************************************************************************)
(* The in-memory peer registry (internal/broker/registry.go).  Each method *)
(* holds the one mutex for its whole body, so each is one atomic step.     *)
(* Bind's call of CloseTakenOver is made after the unlock and is therefore *)
(* a later step of the caller.                                             *)
(***************************************************************************)
EXTENDS Universe

CONSTANT NoBinding   \* the absent entry of the map

ASSUME NoBindingAssumption == NoBinding \notin [conn : Conns, token : Tokens]

VARIABLE registry   \* peer name |-> its binding, or NoBinding

Bindings == [conn : Conns, token : Tokens]
RegistryTypeOK == registry \in [Names -> Bindings \cup {NoBinding}]
RegistryInit == registry = [n \in Names |-> NoBinding]

Bound(n) == registry[n] # NoBinding
BoundTo(n, c) == Bound(n) /\ registry[n].conn = c

\* A name held under another token is refused; otherwise the caller may bind.
ErrNameClaimed(n, t) == Bound(n) /\ registry[n].token # t

\* Fresh name, or same-token takeover: either way the new connection is in.
Bind(n, t, c) ==
  /\ ~ErrNameClaimed(n, t)
  /\ registry' = [registry EXCEPT ![n] = [conn |-> c, token |-> t]]

\* Mutant: no check of whose binding it is.
RemoveUnguarded(n, c) == registry' = [registry EXCEPT ![n] = NoBinding]

\* Unbind n only if it is still this connection's.
Remove(n, c) ==
  registry' = IF BoundTo(n, c) THEN [registry EXCEPT ![n] = NoBinding] ELSE registry

List == {n \in Names : Bound(n)}
============================================================================
