------------------------------ MODULE MCRelay -------------------------------
(* Values of the relay's constants for TLC.                                *)
EXTENDS Relay, TLC

MCPaths == {"sock", "sock_alias", "other"}

MCKeyOf == [p \in MCPaths |-> IF p = "other" THEN "k_other" ELSE "k_sock"]

ATarget == CHOOSE t \in Targets : TRUE

Request(t, path, commands) ==
    [target_id |-> t, ipc_path |-> path, lease_seconds |-> 1,
     supported_commands |-> commands]

\* One target that moves between two sockets, and drops a command.
MovingRequests ==
    {Request(ATarget, "sock", CommandNames), Request(ATarget, "other", {})}

Command(t, name, confirmed) ==
    [target_id |-> t, command |-> name, well_formed |-> TRUE, confirmed |-> confirmed]

\* One command that may be forwarded and one that never is.
OneTargetCommands ==
    {Command(ATarget, "restart_child", TRUE), Command(ATarget, "restart_child", FALSE)}

\* Two targets that compete for one socket, spelled differently, and a free one.
CompetingRequests ==
    {Request(ATarget, "sock", CommandNames)}
        \cup {Request(t, path, CommandNames) :
                 t \in Targets \ {ATarget}, path \in {"sock_alias", "other"}}

\* One registration, always valid.
PlainRequests == {Request(t, "sock", CommandNames) : t \in {ATarget}}

OneCommand == {Command(ATarget, "restart_child", TRUE)}

\* A command to every target, one to a target that does not exist, and one
\* without an identifier or a reason.
AnyTargetCommands ==
    {Command(t, "restart_child", TRUE) : t \in Targets}
        \cup {Command(None, "restart_child", TRUE),
              [Command(ATarget, "restart_child", TRUE) EXCEPT !.well_formed = FALSE]}

SessionSymmetry == Permutations(Sessions)
=============================================================================
