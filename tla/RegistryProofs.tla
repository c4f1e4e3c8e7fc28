--------------------------- MODULE RegistryProofs ---------------------------
(***************************************************************************)
(* Theorems about the registry, for all targets, requests, paths, leases   *)
(* and times.  The lemmas about single operations take the caller's `now', *)
(* so that they hold for a caller that read the clock earlier too.         *)
(***************************************************************************)
EXTENDS Registry, TLAPS

-----------------------------------------------------------------------------
(* The inductive invariant.                                                *)

\* A stored key is that of the stored path, and both tables hold that path.
KeysInStep ==
    \A t \in Registered : /\ registrations[t].ipc_path_key = KeyOf[registrations[t].ipc_path]
                          /\ connections[t].ipc_path = registrations[t].ipc_path

KeysDistinct ==
    \A t, u \in Registered : t # u =>
        registrations[t].ipc_path_key # registrations[u].ipc_path_key

SocketInv == RegistryTypeOK /\ KeysInStep /\ KeysDistinct

\* The end of a lease follows from its last renewal, and a lease is marked
\* expired only once that time has come.
LeaseInv ==
    \A t \in Registered :
        /\ registrations[t].expires_at
             = registrations[t].renewed_at + registrations[t].lease_seconds
        /\ registrations[t].registration_state = "Expired"
             => registrations[t].expires_at <= clock

-----------------------------------------------------------------------------
(* The effect of register on both tables, entry by entry.                  *)

\* What an accepted request leaves in the entries of its target.
RegisteredEntry(request, owner, now) ==
    LET t == request.target_id
    IN  /\ \E first \in Nat :
              /\ registrations'[t] = RegistrationFor(request, owner, first, now)
              /\ t \in Registered => first = registrations[t].registered_at
        /\ IF t \in Registered
           THEN connections'[t] = UpsertedConnection(connections[t], request, now,
                    registrations[t].ipc_path_key # KeyOf[request.ipc_path])
           ELSE connections'[t] = NewConnection(request, now)

\* register changes the entries of one target, in both tables, and adds them if
\* they are new.
LEMMA RegisterEffect ==
    ASSUME RegistryTypeOK, NEW request \in Requests, NEW owner \in Owners,
           NEW now \in Nat, Register(request, owner, now)
    PROVE  /\ request \in RequestRecords
           /\ request.target_id \in Targets
           /\ DOMAIN registrations' = Registered \cup {request.target_id}
           /\ DOMAIN connections' = Registered \cup {request.target_id}
           /\ \A t \in Registered \ {request.target_id} :
                 registrations'[t] = registrations[t] /\ connections'[t] = connections[t]
           /\ RegisteredEntry(request, owner, now)
<1> DEFINE t == request.target_id
<1>1. request \in RequestRecords
  BY RequestAssumption
<1>2. t \in Targets
  BY <1>1, SMT DEF Register, MayRegister, validate_request, RequestRecords
<1> DEFINE fresh == RegistrationFor(request, owner, now, now)
           connection == NewConnection(request, now)
<1>3. CASE t \notin Registered
  <2>1. registrations' = Put(registrations, t, fresh) /\ connections' = Put(connections, t, connection)
    BY <1>3, Zenon DEF Register
  <2>2. DOMAIN connections = Registered
    BY DEF RegistryTypeOK
  <2> HIDE DEF t, fresh, connection
  <2>3. /\ DOMAIN registrations' = Registered \cup {t}
        /\ registrations'[t] = fresh
        /\ \A u \in Registered \ {t} : registrations'[u] = registrations[u]
    BY <2>1 DEF Registered, Put
  <2>4. /\ DOMAIN connections' = Registered \cup {t}
        /\ connections'[t] = connection
        /\ \A u \in Registered \ {t} : connections'[u] = connections[u]
    BY <2>1, <2>2 DEF Put
  <2>5. RegisteredEntry(request, owner, now)
    BY <2>3, <2>4, <1>3 DEF RegisteredEntry, t, fresh, connection
  <2> QED
    BY <1>1, <1>2, <2>3, <2>4, <2>5, Zenon DEF t
<1>4. CASE t \in Registered
  <2> DEFINE first == registrations[t].registered_at
             moved == registrations[t].ipc_path_key # KeyOf[request.ipc_path]
             upserted == UpsertedConnection(connections[t], request, now, moved)
             renewed == RegistrationFor(request, owner, first, now)
  <2>1. registrations' = Put(registrations, t, renewed)
    BY <1>4, Zenon DEF Register
  <2>2. connections' = [connections EXCEPT ![t] = upserted]
    BY <1>4, Zenon DEF Register
  <2>3. DOMAIN connections = Registered
    BY DEF RegistryTypeOK
  <2>4. first \in Nat
    BY <1>4 DEF RegistryTypeOK, RegistrationRecords
  <2> HIDE DEF t, first, moved, upserted, renewed
  <2>5. /\ DOMAIN registrations' = Registered \cup {t}
        /\ registrations'[t] = renewed
        /\ \A u \in Registered \ {t} : registrations'[u] = registrations[u]
    BY <2>1 DEF Registered, Put
  <2>6. /\ DOMAIN connections' = Registered \cup {t}
        /\ connections'[t] = upserted
        /\ \A u \in Registered \ {t} : connections'[u] = connections[u]
    BY <2>2, <2>3, <1>4
  <2>7. RegisteredEntry(request, owner, now)
    BY <2>4, <2>5, <2>6, <1>4, Zenon DEF RegisteredEntry, t, first, moved, upserted, renewed
  <2> QED
    BY <1>1, <1>2, <2>5, <2>6, <2>7, Zenon DEF t
<1> QED
  BY <1>3, <1>4, Zenon

\* The records that register writes are well formed.
LEMMA RegisterRecords ==
    ASSUME RegistryTypeOK, NEW request \in Requests, NEW owner \in Owners,
           NEW now \in Nat, Register(request, owner, now)
    PROVE  /\ registrations'[request.target_id] \in RegistrationRecords
           /\ connections'[request.target_id] \in ConnectionRecords
<1> DEFINE t == request.target_id
<1>1. /\ request \in RequestRecords
      /\ RegisteredEntry(request, owner, now)
  BY RegisterEffect, Zenon
<1>2. validate_request(request)
  BY Zenon DEF Register, MayRegister
<1>3. /\ request.ipc_path \in AllowedPaths
      /\ request.lease_seconds \in 1 .. MaxLease
      /\ request.supported_commands \subseteq CommandNames
      /\ KeyOf[request.ipc_path] \in {KeyOf[p] : p \in AllowedPaths}
  BY <1>1, <1>2 DEF validate_request, RequestRecords
<1>4. ASSUME NEW first \in Nat
      PROVE  RegistrationFor(request, owner, first, now) \in RegistrationRecords
  BY <1>3, BoundAssumption DEF RegistrationFor, RegistrationRecords, RegistrationStates
<1>5. registrations'[t] \in RegistrationRecords
  BY <1>1, <1>4, Zenon DEF RegisteredEntry
<1>6. NewConnection(request, now) \in ConnectionRecords
  BY <1>3 DEF NewConnection, ConnectionRecords, ConnectionStates, Reasons
<1>7. ASSUME t \in Registered, NEW moved
      PROVE  UpsertedConnection(connections[t], request, now, moved) \in ConnectionRecords
  <2>1. connections[t] \in ConnectionRecords
    BY <1>7 DEF RegistryTypeOK
  <2> QED
    BY <2>1, <1>3 DEF UpsertedConnection, ConnectionRecords, ConnectionStates, Reasons
<1>8. connections'[t] \in ConnectionRecords
  BY <1>1, <1>6, <1>7, Zenon DEF RegisteredEntry
<1> QED
  BY <1>5, <1>8

\* register keeps the sockets of all targets apart.
LEMMA RegisterSockets ==
    ASSUME SocketInv, NEW request \in Requests, NEW owner \in Owners,
           NEW now \in Nat, Register(request, owner, now), clock' \in Nat
    PROVE  SocketInv'
<1> DEFINE t == request.target_id
<1> USE DEF SocketInv
<1>1. /\ t \in Targets
      /\ DOMAIN registrations' = Registered \cup {t}
      /\ DOMAIN connections' = Registered \cup {t}
      /\ \A u \in Registered \ {t} :
            registrations'[u] = registrations[u] /\ connections'[u] = connections[u]
      /\ RegisteredEntry(request, owner, now)
  BY RegisterEffect, Zenon
<1>2. /\ registrations'[t] \in RegistrationRecords
      /\ connections'[t] \in ConnectionRecords
  BY RegisterRecords, Zenon
<1>3. RegistryTypeOK'
  BY <1>1, <1>2 DEF RegistryTypeOK, Registered
<1>4. /\ registrations'[t].ipc_path = request.ipc_path
      /\ registrations'[t].ipc_path_key = KeyOf[request.ipc_path]
  <2>1. PICK first \in Nat : registrations'[t] = RegistrationFor(request, owner, first, now)
    BY <1>1, Zenon DEF RegisteredEntry
  <2> QED
    BY <2>1 DEF RegistrationFor
<1>5. connections'[t].ipc_path = request.ipc_path
  <2>1. CASE t \in Registered
    <3>1. connections[t] \in ConnectionRecords
      BY <2>1 DEF RegistryTypeOK
    <3> QED
      BY <1>1, <2>1, <3>1 DEF RegisteredEntry, UpsertedConnection, ConnectionRecords
  <2>2. CASE t \notin Registered
    BY <1>1, <2>2 DEF RegisteredEntry, NewConnection
  <2> QED
    BY <2>1, <2>2
<1>6. KeysInStep'
  BY <1>1, <1>4, <1>5, Zenon DEF KeysInStep, Registered
<1>7. \A u \in Registered \ {t} : registrations[u].ipc_path_key # KeyOf[request.ipc_path]
  BY Zenon DEF Register, MayRegister, IpcPathConflict
<1>8. KeysDistinct'
  <2> SUFFICES ASSUME NEW u \in Registered', NEW v \in Registered', u # v
               PROVE  registrations'[u].ipc_path_key # registrations'[v].ipc_path_key
    BY Zenon DEF KeysDistinct
  <2> HIDE DEF t
  <2>1. CASE u = t
    BY <1>1, <1>4, <1>7, <2>1 DEF Registered
  <2>2. CASE v = t
    BY <1>1, <1>4, <1>7, <2>2 DEF Registered
  <2>3. CASE u # t /\ v # t
    BY <1>1, <2>3 DEF KeysDistinct, Registered
  <2> QED
    BY <2>1, <2>2, <2>3
<1> QED
  BY <1>3, <1>6, <1>8

-----------------------------------------------------------------------------
(* Operations that leave every target at its socket.                       *)

SameSockets ==
    /\ DOMAIN registrations' = Registered
    /\ DOMAIN connections' = Registered
    /\ \A t \in Registered :
          /\ registrations'[t] \in RegistrationRecords
          /\ registrations'[t].ipc_path = registrations[t].ipc_path
          /\ registrations'[t].ipc_path_key = registrations[t].ipc_path_key
          /\ connections'[t] \in ConnectionRecords
          /\ connections'[t].ipc_path = connections[t].ipc_path
    /\ clock' \in Nat

\* Such an operation keeps the invariant.
LEMMA SameSocketsKept ==
    ASSUME SocketInv, SameSockets
    PROVE  SocketInv'
<1>1. RegistryTypeOK'
  BY DEF SocketInv, SameSockets, RegistryTypeOK, Registered
<1>2. KeysInStep'
  BY Zenon DEF SocketInv, SameSockets, KeysInStep, Registered
<1>3. KeysDistinct'
  BY Zenon DEF SocketInv, SameSockets, KeysDistinct, Registered
<1> QED
  BY <1>1, <1>2, <1>3 DEF SocketInv

\* renew changes the lease alone.
LEMMA RenewSockets ==
    ASSUME RegistryTypeOK, NEW t \in Targets, NEW now \in Nat, Renew(t, now), clock' \in Nat
    PROVE  SameSockets
<1>1. registrations[t] \in RegistrationRecords
  BY DEF Renew, RegistryTypeOK
<1>2. /\ Renewed(registrations[t], now) \in RegistrationRecords
      /\ Renewed(registrations[t], now).ipc_path = registrations[t].ipc_path
      /\ Renewed(registrations[t], now).ipc_path_key = registrations[t].ipc_path_key
  <2> DEFINE r == registrations[t]
  <2>1. now + r.lease_seconds \in Nat
    BY <1>1, BoundAssumption DEF RegistrationRecords
  <2> QED
    BY <1>1, <2>1 DEF Renewed, RegistrationRecords, RegistrationStates
<1>3. /\ registrations' = [registrations EXCEPT ![t] = Renewed(registrations[t], now)]
      /\ connections' = connections
  BY Zenon DEF Renew
<1> QED
  BY <1>2, <1>3 DEF SameSockets, RegistryTypeOK, Registered

\* expire_leases changes states alone.
LEMMA ExpireSockets ==
    ASSUME RegistryTypeOK, NEW now \in Nat, ExpireLeases(now), clock' \in Nat
    PROVE  SameSockets
<1>1. DOMAIN registrations' = Registered /\ DOMAIN connections' = Registered
  BY DEF ExpireLeases, RegistryTypeOK
<1>2. ASSUME NEW t \in Registered
      PROVE  /\ registrations'[t] \in RegistrationRecords
             /\ registrations'[t].ipc_path = registrations[t].ipc_path
             /\ registrations'[t].ipc_path_key = registrations[t].ipc_path_key
  <2>1. registrations[t] \in RegistrationRecords
    BY DEF RegistryTypeOK
  <2>2. registrations'[t] \in {registrations[t],
                              [registrations[t] EXCEPT !.registration_state = "Expired"]}
    BY DEF ExpireLeases
  <2> QED
    BY <2>1, <2>2 DEF RegistrationRecords, RegistrationStates
<1>3. ASSUME NEW t \in Registered
      PROVE  /\ connections'[t] \in ConnectionRecords
             /\ connections'[t].ipc_path = connections[t].ipc_path
  <2>1. connections[t] \in ConnectionRecords
    BY DEF RegistryTypeOK
  <2>2. connections'[t] \in {connections[t],
                [connections[t] EXCEPT !.state = "Expired", !.updated_at = now]}
    BY DEF ExpireLeases, RegistryTypeOK
  <2> QED
    BY <2>1, <2>2 DEF ConnectionRecords, ConnectionStates
<1> QED
  BY <1>1, <1>2, <1>3, Zenon DEF SameSockets

\* Any change of one connection record that keeps its path.
LEMMA UpdateSockets ==
    ASSUME RegistryTypeOK, NEW t \in Targets, NEW connection \in ConnectionRecords,
           UpdateConnection(t, connection), connection.ipc_path = connections[t].ipc_path,
           clock' \in Nat
    PROVE  SameSockets
BY DEF UpdateConnection, SameSockets, RegistryTypeOK, Registered

\* The operations on one target, called with any time, keep its socket.
LEMMA CallSockets ==
    ASSUME RegistryTypeOK, NEW t \in Targets, NEW now \in Nat, clock' \in Nat,
           \/ BeginBinding(t, now)
           \/ \E generation \in Generations : MarkConnected(t, generation, now)
           \/ \E reason \in Reasons : MarkReconnecting(t, reason, now)
           \/ \E reason \in Reasons : MarkUnavailable(t, reason, now)
           \/ \E sequence \in EventSequences : UpdateSequence(t, sequence)
    PROVE  SameSockets
<1> USE DEF ConnectionRecords, ConnectionStates
<1>1. connections[t] \in ConnectionRecords
  BY DEF BeginBinding, MarkConnected, MarkReconnecting, MarkUnavailable, UpdateSequence,
         UpdateConnection, RegistryTypeOK
<1>2. CASE BeginBinding(t, now)
  BY <1>1, <1>2, UpdateSockets DEF BeginBinding
<1>3. ASSUME NEW generation \in Generations, MarkConnected(t, generation, now)
      PROVE  SameSockets
  BY <1>1, <1>3, UpdateSockets, NoneAssumption DEF MarkConnected
<1>4. ASSUME NEW reason \in Reasons, MarkReconnecting(t, reason, now)
      PROVE  SameSockets
  BY <1>1, <1>4, UpdateSockets DEF MarkReconnecting
<1>5. ASSUME NEW reason \in Reasons, MarkUnavailable(t, reason, now)
      PROVE  SameSockets
  BY <1>1, <1>5, UpdateSockets DEF MarkUnavailable
<1>6. ASSUME NEW sequence \in EventSequences, UpdateSequence(t, sequence)
      PROVE  SameSockets
  BY <1>1, <1>6, UpdateSockets, NoneAssumption DEF UpdateSequence
<1> QED
  BY <1>2, <1>3, <1>4, <1>5, <1>6

-----------------------------------------------------------------------------
(* Type correctness and disjoint sockets.                                  *)

LEMMA SocketInvInit ==
    RegistryInit => SocketInv
BY DEF RegistryInit, SocketInv, RegistryTypeOK, KeysInStep, KeysDistinct, Registered

LEMMA SocketInvStep ==
    SocketInv /\ [RegistryNext]_registryVars => SocketInv'
<1> SUFFICES ASSUME SocketInv, [RegistryNext]_registryVars
             PROVE  SocketInv'
  OBVIOUS
<1> clock \in Nat
  BY DEF SocketInv, RegistryTypeOK
<1>1. ASSUME NEW request \in Requests, NEW owner \in Owners,
             Register(request, owner, clock), UNCHANGED clock
      PROVE  SocketInv'
  BY <1>1, RegisterSockets
<1>2. CASE ExpireLeases(clock) /\ UNCHANGED clock
  BY <1>2, ExpireSockets, SameSocketsKept DEF SocketInv
<1>3. ASSUME NEW t \in Targets, Call(t), UNCHANGED clock
      PROVE  SocketInv'
  <2>1. CASE Renew(t, clock)
    BY <1>3, <2>1, RenewSockets, SameSocketsKept DEF SocketInv
  <2>2. CASE ~Renew(t, clock)
    <3>1. SameSockets
      BY <1>3, <2>2, CallSockets DEF Call, SocketInv, Reasons
    <3> QED
      BY <3>1, SameSocketsKept
  <2> QED
    BY <2>1, <2>2
<1>4. CASE Tick
  BY <1>4 DEF Tick, SocketInv, RegistryTypeOK, KeysInStep, KeysDistinct, Registered
<1>5. CASE UNCHANGED registryVars
  BY <1>5 DEF registryVars, SocketInv, RegistryTypeOK, KeysInStep, KeysDistinct, Registered
<1> QED
  BY <1>1, <1>2, <1>3, <1>4, <1>5 DEF RegistryNext

LEMMA SocketInvImplies ==
    SocketInv => SocketsDisjoint
BY DEF SocketInv, KeysInStep, KeysDistinct, SocketsDisjoint

LEMMA SocketInvariant ==
    RegistrySpec => []SocketInv
BY SocketInvInit, SocketInvStep, PTL DEF RegistrySpec

\* The two tables stay well formed and hold the same targets.
THEOREM TypeCorrect ==
    RegistrySpec => []RegistryTypeOK
<1>1. SocketInv => RegistryTypeOK
  BY DEF SocketInv
<1> QED
  BY <1>1, SocketInvariant, PTL

\* No two targets are ever reached through one socket (register of the registry).
THEOREM SocketsStayDisjoint ==
    RegistrySpec => []SocketsDisjoint
BY SocketInvImplies, SocketInvariant, PTL

-----------------------------------------------------------------------------
(* Ownership.                                                              *)

\* The entry of a registered target keeps its owner and first registration time.
OwnersKept ==
    \A t \in Registered :
        /\ t \in Registered'
        /\ registrations'[t].owner_identity = registrations[t].owner_identity
        /\ registrations'[t].registered_at = registrations[t].registered_at

\* register refuses another owner, and hands the first registration time on.
LEMMA RegisterOwners ==
    ASSUME RegistryTypeOK, NEW request \in Requests, NEW owner \in Owners,
           NEW now \in Nat, Register(request, owner, now)
    PROVE  OwnersKept
<1> DEFINE t == request.target_id
<1>1. /\ DOMAIN registrations' = Registered \cup {t}
      /\ \A u \in Registered \ {t} : registrations'[u] = registrations[u]
      /\ RegisteredEntry(request, owner, now)
  BY RegisterEffect, Zenon
<1>2. ASSUME t \in Registered
      PROVE  /\ registrations'[t].owner_identity = registrations[t].owner_identity
             /\ registrations'[t].registered_at = registrations[t].registered_at
  <2>1. registrations'[t] =
            RegistrationFor(request, owner, registrations[t].registered_at, now)
    BY <1>1, <1>2, Zenon DEF RegisteredEntry
  <2>2. registrations[t].owner_identity = owner
    BY <1>2, Zenon DEF Register, MayRegister, OwnedByAnother
  <2> QED
    BY <2>1, <2>2 DEF RegistrationFor
<1> QED
  BY <1>1, <1>2, Zenon DEF OwnersKept, Registered

LEMMA OwnershipStep ==
    SocketInv /\ [RegistryNext]_registryVars => OwnersKept
<1> SUFFICES ASSUME SocketInv, [RegistryNext]_registryVars
             PROVE  OwnersKept
  OBVIOUS
<1> RegistryTypeOK /\ clock \in Nat
  BY DEF SocketInv, RegistryTypeOK
<1>1. ASSUME NEW request \in Requests, NEW owner \in Owners, Register(request, owner, clock)
      PROVE  OwnersKept
  BY <1>1, RegisterOwners
<1>2. CASE ExpireLeases(clock)
  <2>1. ASSUME NEW t \in Registered
        PROVE  registrations'[t] \in {registrations[t],
                   [registrations[t] EXCEPT !.registration_state = "Expired"]}
    BY <1>2 DEF ExpireLeases
  <2>2. DOMAIN registrations' = Registered
    BY <1>2 DEF ExpireLeases
  <2>3. \A t \in Registered : registrations[t] \in RegistrationRecords
    BY DEF RegistryTypeOK
  <2> QED
    BY <2>1, <2>2, <2>3 DEF OwnersKept, Registered, RegistrationRecords
<1>3. ASSUME NEW t \in Targets, Renew(t, clock)
      PROVE  OwnersKept
  <2>1. registrations[t] \in RegistrationRecords
    BY <1>3 DEF Renew, RegistryTypeOK
  <2> QED
    BY <1>3, <2>1 DEF Renew, Renewed, OwnersKept, Registered, RegistrationRecords
<1>4. CASE UNCHANGED registrations
  BY <1>4 DEF OwnersKept, Registered
<1> QED
  BY <1>1, <1>2, <1>3, <1>4
     DEF RegistryNext, Call, Tick, registryVars, BeginBinding, MarkConnected,
         MarkReconnecting, MarkUnavailable, UpdateSequence, UpdateConnection

\* A target stays with its first owner for good (register, upsert, renew and
\* expire_leases).
THEOREM OwnershipIsStable ==
    RegistrySpec => OwnershipStable
<1>1. OwnersKept =>
          \A t \in Registered :
              /\ t \in Registered'
              /\ registrations'[t].owner_identity = registrations[t].owner_identity
              /\ registrations'[t].registered_at = registrations[t].registered_at
  BY DEF OwnersKept
<1> QED
  BY <1>1, OwnershipStep, SocketInvariant, PTL DEF RegistrySpec, OwnershipStable

-----------------------------------------------------------------------------
(* Leases.                                                                 *)

\* The end of a lease follows from the last renewal in the entry that register
\* writes, and the lease is active.
LEMMA RegisterLease ==
    ASSUME RegistryTypeOK, LeaseInv, NEW request \in Requests, NEW owner \in Owners,
           NEW now \in Nat, Register(request, owner, now), UNCHANGED clock
    PROVE  LeaseInv'
<1> DEFINE t == request.target_id
<1>1. /\ DOMAIN registrations' = Registered \cup {t}
      /\ \A u \in Registered \ {t} : registrations'[u] = registrations[u]
      /\ RegisteredEntry(request, owner, now)
  BY RegisterEffect, Zenon DEF RegistryTypeOK
<1>2. PICK first \in Nat : registrations'[t] = RegistrationFor(request, owner, first, now)
  BY <1>1, Zenon DEF RegisteredEntry
<1>3. /\ registrations'[t].expires_at
             = registrations'[t].renewed_at + registrations'[t].lease_seconds
      /\ registrations'[t].registration_state # "Expired"
  BY <1>2 DEF RegistrationFor
<1> HIDE DEF t
<1> QED
  BY <1>1, <1>3 DEF LeaseInv, Registered

LEMMA LeaseInvStep ==
    SocketInv /\ LeaseInv /\ [RegistryNext]_registryVars => LeaseInv'
<1> SUFFICES ASSUME SocketInv, LeaseInv, [RegistryNext]_registryVars
             PROVE  LeaseInv'
  OBVIOUS
<1> RegistryTypeOK /\ clock \in Nat
  BY DEF SocketInv, RegistryTypeOK
<1>r. \A t \in Registered : registrations[t] \in RegistrationRecords
  BY DEF RegistryTypeOK
<1>1. ASSUME NEW request \in Requests, NEW owner \in Owners,
             Register(request, owner, clock), UNCHANGED clock
      PROVE  LeaseInv'
  BY <1>1, RegisterLease
<1>2. CASE ExpireLeases(clock) /\ UNCHANGED clock
  <2>1. DOMAIN registrations' = Registered
    BY <1>2 DEF ExpireLeases
  <2>2. ASSUME NEW t \in Registered
        PROVE  /\ registrations'[t].expires_at
                    = registrations'[t].renewed_at + registrations'[t].lease_seconds
               /\ registrations'[t].registration_state = "Expired"
                    => registrations'[t].expires_at <= clock
    <3>1. CASE t \in Overdue(clock)
      <4>1. registrations'[t] = [registrations[t] EXCEPT !.registration_state = "Expired"]
        BY <1>2, <3>1 DEF ExpireLeases
      <4>2. registrations[t].expires_at <= clock
        BY <3>1 DEF Overdue
      <4> QED
        BY <4>1, <4>2, <1>r DEF LeaseInv, RegistrationRecords
    <3>2. CASE t \notin Overdue(clock)
      BY <1>2, <3>2 DEF ExpireLeases, LeaseInv
    <3> QED
      BY <3>1, <3>2
  <2> QED
    BY <1>2, <2>1, <2>2 DEF LeaseInv, Registered
<1>3. ASSUME NEW t \in Targets, Renew(t, clock), UNCHANGED clock
      PROVE  LeaseInv'
  <2>1. /\ t \in Registered
        /\ registrations' = [registrations EXCEPT ![t] = Renewed(registrations[t], clock)]
    BY <1>3, Zenon DEF Renew
  <2>2. LET r == Renewed(registrations[t], clock)
        IN  /\ r.expires_at = r.renewed_at + r.lease_seconds
            /\ r.registration_state # "Expired"
    BY <2>1, <1>r DEF Renewed, RegistrationRecords
  <2> QED
    BY <1>3, <2>1, <2>2 DEF LeaseInv, Registered
<1>4. CASE Tick
  <2>1. \A t \in Registered : registrations[t].expires_at \in Nat
    BY <1>r DEF RegistrationRecords
  <2> QED
    BY <1>4, <2>1 DEF Tick, LeaseInv, Registered, RegistryTypeOK
<1>5. CASE UNCHANGED <<registrations, clock>>
  BY <1>5 DEF LeaseInv, Registered
<1> QED
  BY <1>1, <1>2, <1>3, <1>4, <1>5
     DEF RegistryNext, Call, registryVars, BeginBinding, MarkConnected,
         MarkReconnecting, MarkUnavailable, UpdateSequence, UpdateConnection

LEMMA LeaseInvImplies ==
    SocketInv /\ LeaseInv => LeaseHonoured
<1> SUFFICES ASSUME SocketInv, LeaseInv, NEW t \in Registered
             PROVE  t \in active_targets(clock)
                        <=> clock < registrations[t].renewed_at + registrations[t].lease_seconds
  BY DEF LeaseHonoured
<1>1. registrations[t] \in RegistrationRecords /\ clock \in Nat
  BY DEF SocketInv, RegistryTypeOK
<1>2. /\ registrations[t].registration_state \in {"Active", "Expired"}
      /\ registrations[t].expires_at \in Nat
  BY <1>1 DEF RegistrationRecords, RegistrationStates
<1> QED
  BY <1>1, <1>2 DEF LeaseInv, active_targets, IsActive

\* A target is active exactly while less than its lease has passed since it
\* registered or renewed (register, renew, expire_leases).
THEOREM LeasesAreHonoured ==
    RegistrySpec => []LeaseHonoured
<1>1. RegistryInit => LeaseInv
  BY DEF RegistryInit, LeaseInv, Registered
<1>2. RegistrySpec => []LeaseInv
  BY <1>1, LeaseInvStep, SocketInvariant, PTL DEF RegistrySpec
<1> QED
  BY <1>2, LeaseInvImplies, SocketInvariant, PTL

-----------------------------------------------------------------------------
(* Connection records.                                                     *)

\* register leaves a record whose past agrees with its state.
LEMMA RegisterHistory ==
    ASSUME RegistryTypeOK, ConnectionHistory, NEW request \in Requests,
           NEW owner \in Owners, NEW now \in Nat, Register(request, owner, now)
    PROVE  ConnectionHistory'
<1> DEFINE t == request.target_id
<1>1. /\ DOMAIN registrations' = Registered \cup {t}
      /\ \A u \in Registered \ {t} : connections'[u] = connections[u]
      /\ RegisteredEntry(request, owner, now)
  BY RegisterEffect, Zenon
<1>2. PastAgrees(connections'[t])
  <2>1. CASE t \notin Registered
    BY <1>1, <2>1 DEF RegisteredEntry, NewConnection, PastAgrees
  <2>2. CASE t \in Registered
    <3>1. PICK moved \in BOOLEAN :
             connections'[t] = UpsertedConnection(connections[t], request, now, moved)
      BY <1>1, <2>2 DEF RegisteredEntry
    <3>2. connections[t] \in ConnectionRecords /\ PastAgrees(connections[t])
      BY <2>2 DEF RegistryTypeOK, ConnectionHistory
    <3>3. "ipc_path_changed" # None
      BY ReasonAssumption DEF Reasons
    <3> QED
      BY <3>1, <3>2, <3>3 DEF UpsertedConnection, PastAgrees, ConnectionRecords
  <2> QED
    BY <2>1, <2>2
<1> HIDE DEF t
<1> QED
  BY <1>1, <1>2, Zenon DEF ConnectionHistory, Registered

\* Every mark that a caller sets, with whatever time it read.
LEMMA MarkHistory ==
    ASSUME RegistryTypeOK, ConnectionHistory, NEW t, NEW now \in Nat,
           NEW reason \in Reasons \ {"ipc_path_changed"},
           \/ BeginBinding(t, now)
           \/ \E generation \in Generations : MarkConnected(t, generation, now)
           \/ MarkReconnecting(t, reason, now)
           \/ MarkUnavailable(t, reason, now)
           \/ \E sequence \in EventSequences : UpdateSequence(t, sequence)
    PROVE  ConnectionHistory'
<1> USE NoneAssumption, ReasonAssumption
<1>1. ASSUME NEW connection, UpdateConnection(t, connection), PastAgrees(connection)
      PROVE  ConnectionHistory'
  BY <1>1 DEF UpdateConnection, ConnectionHistory, RegistryTypeOK, Registered
<1>2. ASSUME t \in DOMAIN connections
      PROVE  connections[t] \in ConnectionRecords /\ PastAgrees(connections[t])
  BY <1>2 DEF RegistryTypeOK, ConnectionHistory
<1>3. CASE BeginBinding(t, now)
  BY <1>1, <1>2, <1>3 DEF BeginBinding, UpdateConnection, PastAgrees, ConnectionRecords
<1>4. ASSUME NEW generation \in Generations, MarkConnected(t, generation, now)
      PROVE  ConnectionHistory'
  <2> DEFINE c == [connections[t] EXCEPT
                       !.state = "Connected", !.last_state_generation = generation,
                       !.connected_at = now, !.updated_at = now, !.last_error = None]
  <2>1. UpdateConnection(t, c)
    BY <1>4, Zenon DEF MarkConnected
  <2>2. connections[t] \in ConnectionRecords
    BY <1>2, <2>1 DEF UpdateConnection
  <2>3. generation # None /\ now # None
    BY Zenon
  <2>4. PastAgrees(c)
    BY <2>2, <2>3 DEF PastAgrees, ConnectionRecords, Reasons
  <2> QED
    BY <1>1, <2>1, <2>4, Zenon
<1>5. CASE MarkReconnecting(t, reason, now)
  BY <1>1, <1>2, <1>5 DEF MarkReconnecting, UpdateConnection, PastAgrees, ConnectionRecords, Reasons
<1>6. CASE MarkUnavailable(t, reason, now)
  BY <1>1, <1>2, <1>6 DEF MarkUnavailable, UpdateConnection, PastAgrees, ConnectionRecords, Reasons
<1>7. ASSUME NEW sequence \in EventSequences, UpdateSequence(t, sequence)
      PROVE  ConnectionHistory'
  BY <1>1, <1>2, <1>7 DEF UpdateSequence, UpdateConnection, PastAgrees, ConnectionRecords
<1> QED
  BY <1>3, <1>4, <1>5, <1>6, <1>7

LEMMA CallHistory ==
    ASSUME RegistryTypeOK, ConnectionHistory, NEW t \in Targets, Call(t), clock \in Nat
    PROVE  ConnectionHistory'
<1>1. CASE Renew(t, clock)
  BY <1>1 DEF Renew, ConnectionHistory, Registered
<1>2. "reconnect" \in Reasons \ {"ipc_path_changed"} /\ "ipc_failed" \in Reasons \ {"ipc_path_changed"}
  BY DEF Reasons
<1> QED
  BY <1>1, <1>2, MarkHistory, Zenon DEF Call

\* What a connection record says of its past agrees with its state (register and
\* the mark_* operations).
THEOREM ConnectionHistoryAgrees ==
    RegistrySpec => []ConnectionHistory
<1>1. RegistryInit => ConnectionHistory
  BY DEF RegistryInit, ConnectionHistory, Registered
<1>2. SocketInv /\ ConnectionHistory /\ [RegistryNext]_registryVars => ConnectionHistory'
  <2> SUFFICES ASSUME SocketInv, ConnectionHistory, [RegistryNext]_registryVars
               PROVE  ConnectionHistory'
    OBVIOUS
  <2> RegistryTypeOK /\ clock \in Nat
    BY DEF SocketInv, RegistryTypeOK
  <2>1. ASSUME NEW request \in Requests, NEW owner \in Owners, Register(request, owner, clock)
        PROVE  ConnectionHistory'
    BY <2>1, RegisterHistory
  <2>2. CASE ExpireLeases(clock)
    <3>1. ASSUME NEW t \in Registered
          PROVE  PastAgrees(connections'[t])
      <4>1. connections[t] \in ConnectionRecords /\ PastAgrees(connections[t])
        BY DEF RegistryTypeOK, ConnectionHistory
      <4>2. connections'[t] \in {connections[t],
                [connections[t] EXCEPT !.state = "Expired", !.updated_at = clock]}
        BY <2>2 DEF ExpireLeases, RegistryTypeOK
      <4> QED
        BY <4>1, <4>2 DEF PastAgrees, ConnectionRecords
    <3> QED
      BY <2>2, <3>1 DEF ExpireLeases, ConnectionHistory, Registered
  <2>3. ASSUME NEW t \in Targets, Call(t)
        PROVE  ConnectionHistory'
    BY <2>3, CallHistory
  <2>4. CASE UNCHANGED <<registrations, connections>>
    BY <2>4 DEF ConnectionHistory, Registered
  <2> QED
    BY <2>1, <2>2, <2>3, <2>4 DEF RegistryNext, Tick, registryVars
<1> QED
  BY <1>1, <1>2, SocketInvariant, PTL DEF RegistrySpec

=============================================================================
