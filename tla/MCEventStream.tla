---------------------------- MODULE MCEventStream ----------------------------
(* Values of the stream's constants for TLC.                               *)
EXTENDS EventStream

MCPaths == {"sock", "other"}

MCKeyOf == [p \in MCPaths |-> p]

ATarget == CHOOSE t \in Targets : TRUE

\* Each target has a socket of its own.
OwnSocketRequests ==
    {[target_id |-> t, ipc_path |-> IF t = ATarget THEN "sock" ELSE "other",
      lease_seconds |-> 1, supported_commands |-> CommandNames] : t \in Targets}

\* What the calls and the properties tell apart: the times and reasons of a
\* connection are written and never read, and two states that differ in them
\* alone are explored once.
StreamView ==
    <<[t \in Registered |-> <<registrations[t].registration_state,
                             registrations[t].expires_at, connections[t].state>>],
      clock, dashboards>>
=============================================================================
