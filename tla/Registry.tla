------------------------------ MODULE Registry ------------------------------
(***************************************************************************)
(* The target process registry (src/src/registry.rs): which supervised     *)
(* processes are registered, until when, and how the relay last found      *)
(* their IPC sockets.                                                      *)
(*                                                                         *)
(* Every operation is a step that takes the caller's `now', as the methods *)
(* of TargetProcessRegistry do; a caller may have read the clock earlier.  *)
(* The specification at the end calls the operations with the present      *)
(* time.                                                                   *)
(***************************************************************************)
EXTENDS Naturals

CONSTANTS
    Targets,        \* target process identifiers
    Owners,         \* local process identities of registrants
    Paths,          \* spellings of IPC socket paths
    AllowedPaths,   \* the absolute ones under an allowed prefix
    KeyOf,          \* path -> normalized key; None: symlink or no usable parent
    CommandNames,   \* control command names
    Requests,       \* registration requests the registrants may submit
    MaxLease,       \* RegistrationPolicy.max_lease_seconds
    MaxClock,       \* bound on time, in seconds
    Generations,    \* state generations a target may report
    EventSequences, \* event sequence numbers a target may send
    None            \* Option::None, a blank name, an invalid command

VARIABLES
    registrations,  \* target -> TargetProcessRegistration
    connections,    \* target -> TargetProcessConnection
    clock           \* the present time

registryVars == <<registrations, connections, clock>>

RequestRecords ==
    [target_id: Targets \cup {None}, ipc_path: Paths, lease_seconds: Nat,
     supported_commands: SUBSET (CommandNames \cup {None})]

\* A name cannot be blank, and keys, times and numbers are not None.
ASSUME NoneAssumption ==
    /\ None \notin Targets \cup Owners \cup Paths \cup CommandNames \cup Nat
    /\ Generations \subseteq Nat
    /\ EventSequences \subseteq Nat

ASSUME PathAssumption == AllowedPaths \subseteq Paths /\ Paths \subseteq DOMAIN KeyOf

ASSUME RequestAssumption == Requests \subseteq RequestRecords

ASSUME BoundAssumption == MaxLease \in Nat /\ MaxClock \in Nat

-----------------------------------------------------------------------------
(* The two tables.                                                         *)

RegistrationStates == {"Active", "Expired"}

ConnectionStates ==
    {"Registered", "Connecting", "Connected", "Reconnecting", "Unavailable", "Expired"}

\* The reasons stored in last_error; the wording of IPC errors is left out.
Reasons == {"ipc_path_changed", "ipc_failed", "reconnect"}

ASSUME ReasonAssumption == None \notin Reasons

RegistrationRecords ==
    [ipc_path: AllowedPaths, ipc_path_key: {KeyOf[p] : p \in AllowedPaths},
     owner_identity: Owners, lease_seconds: 1 .. MaxLease,
     supported_commands: SUBSET CommandNames,
     registered_at: Nat, renewed_at: Nat, expires_at: Nat,
     registration_state: RegistrationStates]

ConnectionRecords ==
    [ipc_path: AllowedPaths, state: ConnectionStates,
     last_error: Reasons \cup {None},
     last_state_generation: Nat \cup {None}, last_sequence: Nat \cup {None},
     connected_at: Nat \cup {None}, updated_at: Nat]

Registered == DOMAIN registrations

\* HashMap::insert
Put(map, key, value) ==
    [k \in DOMAIN map \cup {key} |-> IF k = key THEN value ELSE map[k]]

-----------------------------------------------------------------------------
(* Queries.                                                                *)

IsActive(registration, now) ==
    registration.registration_state = "Active" /\ registration.expires_at > now

active_targets(now) == {t \in Registered : IsActive(registrations[t], now)}

ensure_target_active(t, now) == t \in active_targets(now)

ensure_command_supported(t, name) ==
    t \in Registered /\ name \in registrations[t].supported_commands

-----------------------------------------------------------------------------
(* Registration.                                                           *)

\* Mutant: a lease of no seconds is accepted.
validate_request_any_lease(request) ==
    /\ request.target_id # None
    /\ request.ipc_path \in AllowedPaths
    /\ request.lease_seconds <= MaxLease
    /\ None \notin request.supported_commands

\* None stands for a command whose name is blank or whose timeout is no seconds.
validate_request(request) ==
    /\ request.target_id # None
    /\ request.ipc_path \in AllowedPaths
    /\ request.lease_seconds \in 1 .. MaxLease
    /\ None \notin request.supported_commands

\* normalize_ipc_path_key succeeds.
HasKey(path) == KeyOf[path] # None

\* Mutant: the owner of an expired registration is no longer compared.
OwnedByAnotherWhileActive(request, owner) ==
    /\ ensure_target_active(request.target_id, clock)
    /\ registrations[request.target_id].owner_identity # owner

OwnedByAnother(request, owner) ==
    /\ request.target_id \in Registered
    /\ registrations[request.target_id].owner_identity # owner

\* Mutant: only the targets that are active now count.
IpcPathConflictAmongActive(request) ==
    \E t \in active_targets(clock) \ {request.target_id} :
        registrations[t].ipc_path_key = KeyOf[request.ipc_path]

\* Every other registration counts, the expired ones included.
IpcPathConflict(request) ==
    \E t \in Registered \ {request.target_id} :
        registrations[t].ipc_path_key = KeyOf[request.ipc_path]

MayRegister(request, owner) ==
    /\ validate_request(request)
    /\ HasKey(request.ipc_path)
    /\ ~OwnedByAnother(request, owner)
    /\ ~IpcPathConflict(request)

RegistrationFor(request, owner, registered_at, now) ==
    [ipc_path |-> request.ipc_path, ipc_path_key |-> KeyOf[request.ipc_path],
     owner_identity |-> owner, lease_seconds |-> request.lease_seconds,
     supported_commands |-> request.supported_commands,
     registered_at |-> registered_at, renewed_at |-> now,
     expires_at |-> now + request.lease_seconds, registration_state |-> "Active"]

NewConnection(request, now) ==
    [ipc_path |-> request.ipc_path, state |-> "Registered", last_error |-> None,
     last_state_generation |-> None, last_sequence |-> None,
     connected_at |-> None, updated_at |-> now]

\* Mutants: a connection outlives the move to another socket, or its time does.
UpsertedConnectionKept(connection, request, now, path_changed) ==
    [connection EXCEPT !.ipc_path = request.ipc_path, !.updated_at = now]

UpsertedConnectionTimeKept(connection, request, now, path_changed) ==
    IF path_changed
    THEN [connection EXCEPT !.ipc_path = request.ipc_path, !.updated_at = now,
                            !.state = "Reconnecting", !.last_error = "ipc_path_changed"]
    ELSE [connection EXCEPT !.ipc_path = request.ipc_path, !.updated_at = now]

\* A connection of another socket is abandoned; otherwise its state stays.
UpsertedConnection(connection, request, now, path_changed) ==
    IF path_changed
    THEN [connection EXCEPT !.ipc_path = request.ipc_path, !.updated_at = now,
                            !.state = "Reconnecting",
                            !.last_error = "ipc_path_changed", !.connected_at = None]
    ELSE [connection EXCEPT !.ipc_path = request.ipc_path, !.updated_at = now]

Register(request, owner, now) ==
    LET t == request.target_id
    IN  /\ MayRegister(request, owner)
        /\ \/ /\ t \notin Registered
              /\ registrations' =
                    Put(registrations, t, RegistrationFor(request, owner, now, now))
              /\ connections' = Put(connections, t, NewConnection(request, now))
           \/ /\ t \in Registered
              /\ LET existing == registrations[t]
                 IN  /\ registrations' = Put(registrations, t,
                           RegistrationFor(request, owner, existing.registered_at, now))
                     /\ connections' = [connections EXCEPT ![t] =
                           UpsertedConnection(@, request, now,
                               existing.ipc_path_key # KeyOf[request.ipc_path])]

-----------------------------------------------------------------------------
(* Leases.                                                                 *)

\* Mutant: the lease is extended from its old end.
RenewedFromExpiry(registration, now) ==
    [registration EXCEPT !.renewed_at = now, !.expires_at = @ + registration.lease_seconds,
                         !.registration_state = "Active"]

Renewed(registration, now) ==
    [registration EXCEPT !.renewed_at = now, !.expires_at = now + registration.lease_seconds,
                         !.registration_state = "Active"]

Renew(t, now) ==
    /\ t \in Registered
    /\ registrations' = [registrations EXCEPT ![t] = Renewed(@, now)]
    /\ UNCHANGED connections

\* The registrations that one sweep of expire_leases finds overdue.
Overdue(now) ==
    {t \in Registered : /\ registrations[t].registration_state = "Active"
                        /\ registrations[t].expires_at <= now}

ExpireLeases(now) ==
    /\ registrations' = [t \in Registered |->
           IF t \in Overdue(now)
           THEN [registrations[t] EXCEPT !.registration_state = "Expired"]
           ELSE registrations[t]]
    /\ connections' = [t \in DOMAIN connections |->
           IF t \in Overdue(now)
           THEN [connections[t] EXCEPT !.state = "Expired", !.updated_at = now]
           ELSE connections[t]]

-----------------------------------------------------------------------------
(* Connection state.                                                       *)

\* connection_mut, then the assignment of one record
UpdateConnection(t, connection) ==
    /\ t \in DOMAIN connections
    /\ connections' = [connections EXCEPT ![t] = connection]
    /\ UNCHANGED registrations

BeginBinding(t, now) ==
    UpdateConnection(t, [connections[t] EXCEPT !.state = "Connecting", !.updated_at = now])

MarkConnected(t, state_generation, now) ==
    UpdateConnection(t, [connections[t] EXCEPT
        !.state = "Connected", !.last_state_generation = state_generation,
        !.connected_at = now, !.updated_at = now, !.last_error = None])

MarkReconnecting(t, reason, now) ==
    UpdateConnection(t, [connections[t] EXCEPT
        !.state = "Reconnecting", !.last_error = reason, !.updated_at = now])

MarkUnavailable(t, reason, now) ==
    UpdateConnection(t, [connections[t] EXCEPT
        !.state = "Unavailable", !.last_error = reason, !.updated_at = now])

UpdateSequence(t, sequence) ==
    UpdateConnection(t, [connections[t] EXCEPT !.last_sequence = sequence])

-----------------------------------------------------------------------------
(* The registry on its own, called in any order with the present time.     *)

RegistryInit ==
    /\ registrations = [t \in {} |-> None]
    /\ connections = [t \in {} |-> None]
    /\ clock = 0

\* Time passes; MaxClock bounds it.
Tick ==
    /\ clock < MaxClock
    /\ clock' = clock + 1
    /\ UNCHANGED <<registrations, connections>>

Call(t) ==
    \/ Renew(t, clock)
    \/ BeginBinding(t, clock)
    \/ \E generation \in Generations : MarkConnected(t, generation, clock)
    \/ MarkReconnecting(t, "reconnect", clock)
    \/ MarkUnavailable(t, "ipc_failed", clock)
    \/ \E sequence \in EventSequences : UpdateSequence(t, sequence)

RegistryNext ==
    \/ \E request \in Requests, owner \in Owners :
          Register(request, owner, clock) /\ UNCHANGED clock
    \/ ExpireLeases(clock) /\ UNCHANGED clock
    \/ \E t \in Targets : Call(t) /\ UNCHANGED clock
    \/ Tick

RegistrySpec == RegistryInit /\ [][RegistryNext]_registryVars

-----------------------------------------------------------------------------
(* Properties.                                                             *)

\* Both tables hold well-formed records for the same targets (type invariant
\* of TargetProcessRegistry).
RegistryTypeOK ==
    /\ Registered \subseteq Targets
    /\ DOMAIN connections = Registered
    /\ \A t \in Registered : registrations[t] \in RegistrationRecords
    /\ \A t \in Registered : connections[t] \in ConnectionRecords
    /\ clock \in Nat

\* No two targets are ever reached through one socket: whatever spelling each
\* table holds, the normalized keys of two targets differ, expired targets
\* included (the ipc_path_conflict check of register, and the two tables that
\* every re-registration must keep in step).
SocketsDisjoint ==
    \A t, u \in Registered : t # u =>
        KeyOf[registrations[t].ipc_path] # KeyOf[connections[u].ipc_path]

\* A target is active exactly while less than its lease has passed since it was
\* last heard of: no lease is cut short or outlives its time, however expiry
\* sweeps, renewals and re-registrations interleave (renew, expire_leases,
\* upsert_existing_registration, ensure_target_active).
LeaseHonoured ==
    \A t \in Registered :
        t \in active_targets(clock)
            <=> clock < registrations[t].renewed_at + registrations[t].lease_seconds

PastAgrees(c) ==
    /\ c.state = "Connected" => c.connected_at # None /\ c.last_error = None
    /\ c.state \in {"Reconnecting", "Unavailable"} => c.last_error # None
    /\ c.state = "Registered" => c.last_error = None /\ c.connected_at = None
    /\ c.connected_at # None => c.last_state_generation # None
    /\ c.last_error = "ipc_path_changed" => c.connected_at = None

\* What a connection record says of its past agrees with its state: a connected
\* target has a generation and a connection time and no error, a failed one has
\* an error, a merely registered one has no history, and no connection time is
\* left from a socket the target has moved away from (the mark_* operations and
\* the path change of upsert_existing_registration).
ConnectionHistory == \A t \in Registered : PastAgrees(connections[t])

\* A target once registered stays with its owner and keeps the time it first
\* entered: no operation removes it, hands it over or lets it start anew, even
\* after its lease ran out (owner check and upsert of register).
OwnershipStable ==
    [][\A t \in Registered :
          /\ t \in Registered'
          /\ registrations'[t].owner_identity = registrations[t].owner_identity
          /\ registrations'[t].registered_at = registrations[t].registered_at]_registryVars
=============================================================================
