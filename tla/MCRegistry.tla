----------------------------- MODULE MCRegistry -----------------------------
(* Values of the registry's constants for TLC.                             *)
EXTENDS Registry

\* "sock" and "sock_alias" are spellings of one socket; "link" is a symbolic
\* link and "outside" is not under an allowed prefix.
MCPaths == {"sock", "sock_alias", "other", "link", "outside"}

MCAllowedPaths == MCPaths \ {"outside"}

MCKeyOf ==
    [p \in MCPaths |-> CASE p \in {"sock", "sock_alias"} -> "k_sock"
                         [] p = "other" -> "k_other"
                         [] p = "link" -> None
                         [] p = "outside" -> "k_outside"]

Request(t, path, lease, commands) ==
    [target_id |-> t, ipc_path |-> path, lease_seconds |-> lease,
     supported_commands |-> commands]

\* Requests that register refuses, one for each check of their contents.
Refused ==
    LET t == CHOOSE t \in Targets : TRUE
    IN  {Request(None, "sock", 1, {}), Request(t, "outside", 1, {}),
         Request(t, "link", 1, {}), Request(t, "sock", 0, {}),
         Request(t, "sock", MaxLease + 1, {}), Request(t, "sock", 1, {None})}

\* Every path, one lease: two targets that compete for sockets.
SocketRequests ==
    Refused \cup {Request(t, p, 1, CommandNames) : t \in Targets, p \in MCAllowedPaths}

\* Two sockets and every lease: one target whose lease changes.
LeaseRequests ==
    Refused \cup {Request(t, p, l, CommandNames) :
                     t \in Targets, p \in {"sock", "other"}, l \in 1 .. MaxLease}
=============================================================================
