------------------------------ MODULE Universe ------------------------------
(***************************************************************************)
(* The identities every component shares.                                  *)
(***************************************************************************)
EXTENDS Naturals, Sequences, FiniteSets

CONSTANTS Names,    \* peer names, each given by its rank in string order
          Ids,      \* envelope ids
          Conns,    \* WebSocket connections, each used at most once
          Tokens    \* bearer tokens

ASSUME NamesAssumption == Names \subseteq Nat \ {0}

\* The second component of a row key: a peer name for a broadcast copy
\* ("<id>|<recipient>"), Direct for a direct message (the bare id).
Direct == 0
RowIds == Ids \X (Names \cup {Direct})
============================================================================
