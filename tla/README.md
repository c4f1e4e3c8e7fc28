# A TLA+ model of rust-supervisor-relay

The relay stands between dashboards and supervised processes ("targets"). Targets register over a
Unix socket under a lease. Dashboards connect over authenticated WebSockets; for each of them the
relay asks the active targets for their state over IPC and forwards control commands. This
directory models the registry, the registration task, the dashboard sessions and the way they share
the registry, the event intake of the library, and processes from their start to their end. Paths
below are relative to the repository.

## Inventory

| Component | Source | State | Operations | Modelled by |
|---|---|---|---|---|
| Target registry | `src/registry.rs` | registration and connection of each target | register and upsert, renew, expire, binding and connection marks, sequences, queries | `Registry` |
| Shared registry | `src/main.rs:35` | a tokio mutex | lock, also across IPC | `SharedRegistry` |
| Registration task | `src/main.rs:166`, `src/registration.rs` | the connection in hand | accept, read, register, acknowledge | `RegistrationLoop` |
| Dashboard session | `src/session.rs`, `src/main.rs:286` | handshake, bound targets, outbox | hello, list, auto-bind, command, refresh, delivery, end | `Session` |
| Target IPC client | `src/ipc_client.rs` | none (one connection per request) | state, two subscriptions, command | steps of `Session` |
| Command validation | `src/command.rs` | none | preparation, confirmation | `MayPrepare` in `Session` |
| Audit recorder | `src/audit.rs` | records of one session | accepted, rejected, completed | `audit` in `Session` |
| Event fan-out | `src/relay.rs`, `accept_*` of `src/session.rs` | last sequence per target | events, logs, deltas, dropped counts, reconnect timeout, beside binding and commands | `EventStream` |
| Authentication | `src/auth.rs`, `src/main.rs:222` | none | identity from certificate or proxy header | `Admission` |
| Configuration | `src/config.rs` | none | validation at start-up | `Admission` |
| Start-up, TLS, accept loop | `src/main.rs:74`, `src/registration.rs:138` | socket file, listener, connections | parse, load, bind, spawn, accept, shut down | `Startup` |
| Errors, diagnostics | `src/error.rs`, `src/diagnostics.rs` | none | plain data | no |

How they interact: the registration task and every session are tokio tasks that share one
`Arc<Mutex<TargetProcessRegistry>>`. The registration task locks it for one call of `register`. A session
locks it to read the active targets, once for the list and again for binding, and then once per target it
binds and once per command; in the last two cases it *keeps the lock while it waits for the target over
IPC*. Targets are called on a fresh connection per request. `renew`, `expire_leases`,
`mark_reconnecting`, `update_sequence`, `establish`, `RelayHub` and the event intake are public
operations of the library that the binary never calls: `Registry` and `EventStream` model them (but for
`update_sequence`, which only `Registry` needs) and check them in any order; `Relay` has the steps the
binary takes. Several processes meet only at the socket file and the port, and may be killed at any
point.

What is hard here: clocks read before a lock is awaited; two reads of the registry with the lock
released between; IPC under a lock without a timeout; targets that move, expire or change what they
support while someone waits; a connection marked before its subscriptions; lost command answers;
one error that ends the registration task for good; events that repeat, skip or start anew; socket
files left by killed processes and taken by others. `PROJECT.json` lists each hazard at its line
with the properties that cover it.

What makes each component correct:

- registry: targets never share a socket; a target never changes owner; a lease lasts as long as it
  says; the connection record agrees with its own history;
- registration task: the acknowledgement tells the truth when it is written; the task goes on serving;
- session: it asks a target only under the registration in force; a connected target was read at its
  present socket; no target stays "connecting"; commands, outcomes and audit match one to one; the
  dashboard gets its messages in order, and hears of every change its own session makes;
- event stream: what is shown of a target is in order, and the numbers skipped between two shown
  events are counted; every call made for a dashboard that changes a target's connection tells it;
- admission: whoever has a session was vouched for by the source the configuration names;
- start-up: a relay gets past what a killed one left, and a stalled client holds up no other;
- together: everyone who waits for the registry is served, if targets answer.

## Modules

`Registry` holds the two tables and the clock. `registrations` and `connections` are functions whose
domain grows, as the hash maps do. Every operation takes `now`, as in the code, so that a caller may pass
a time it read earlier. A path is a member of a small set, `AllowedPaths` are those that are absolute and
under an allowed prefix, and `KeyOf` is what `normalize_ipc_path_key` returns (`None` for a symbolic link
or a missing parent; `HasKey` says that there is one); two spellings may have one key. The file system
does not change. `None` stands for `Option::None`, for a name that trims to nothing, and in
`supported_commands` for one whose name is blank or whose timeout is no seconds. `RegistryNext` calls the
operations in any order with the present time.

`SharedRegistry` adds `lock`: the session that holds the mutex over IPC, or `None`. A critical
section that waits for nobody is one step, guarded by `Unlocked`. Nothing outside it can see its
intermediate states, so this loses no behaviour.

`RegistrationLoop` has one action per await of the task: a connection is accepted, a line is read
and the time taken (`received_at`), the mutex is granted and `register` called with that earlier
time, the answer is written. `ReadFails` and `AckFails` are the `?` that leave the loop.

`Session` has one record per dashboard connection. `pc` is where its task waits:
`greet`, `hello`, `flush` and `wait` for the client, `list`, `select`, `bind` and `command` for the
mutex, `state`, `subscribe`, `forward` and `refresh` for a target with the mutex held. `path` and
`at` are the cloned registration's socket and the time read after locking. `outbox` is the queue of
the code; `wire` (what was sent), `executed` (the commands targets ran) and the variable
`read_from` (the path from which a target's state was last read) are history variables. A write to
the client is one step for the whole queue: the properties of what was sent hold of every prefix
whenever they hold of the whole, and a session whose write fails is gone. Closing resets the record,
because the task drops everything it has, its audit included; a slot may be opened again. The two
subscription requests of a binding are one exchange, which fails if either fails.

`Relay` composes them: `Next` is a step of the registration task, of a session, or of the clock.
A step of one leaves the other's variables alone, and time may pass at any point.

`ControlContract` is what `Relay` promises, without saying how: sockets of targets, at most one
exchange with a target at a time, and per session a trail of acceptances and outcomes. `Relay` maps
its state to it: the stored keys of the registrations are the sockets, the session that holds the mutex
over IPC is in an exchange (a command while it forwards, a read otherwise), and the results in a
session's audit are its trail. `ImplementsContract` is the refinement. `KeepsPromises` is what the
contract yields (`Promises`), said of the relay; it follows from the refinement, so that no run checks
it, and `RelayKeepsPromises` states the conclusion.

`EventStream` is `DashboardSession` with `RelayHub`, used as a library: every call is synchronous and
therefore one step, and `bind_target` and `handle_command` get their answers at once. Calls come in any
order, while targets register, are renewed, swept or marked reconnecting, and leases run out. Of the
audit of a command nothing is kept here, since `Session` has it. Left out is one operation:
`accept_connection_state` called from outside, which passes on any state its caller likes; the hub and
`handle_command`, which call it, are modelled. An event may have any sequence number at any time, which
covers loss, repetition, overtaking and targets that restart. Sequences are `u64` with `MaxSequence` as
the largest value; the arithmetic of the code wraps around (`Wrapped`). `outbox` keeps what was drained.
Logs and state deltas are passed on alike and are both `Payload`. `reported` tells a target's own dropped
counts from the gaps the session counted, `asked` whether a target was ever called (both history).

`Admission` has the pure functions of start-up and authentication: arguments, each check of
`validate`, what TLS needs, and the identity of a connection. It has no state. Texts that are empty
after trimming, or do not parse, are `None`.

`Startup` has relay processes, each at a step of `run()`, with the files and ports they share, and the
connections of clients up to the point where a dashboard session opens (`Session!Open`). `exists`,
`remove_file` and `bind` of the socket file are three steps. `Kill` and `SystemFails` may end a
process anywhere; the port goes with it, the socket file stays.

`MCRegistry`, `MCRelay`, `MCEventStream` and `MCStartup` give TLC its values. `RegistryProofs`,
`RelayProofs`, `DashboardProofs`, `StreamProofs`, `StartupProofs` and `ControlContract` hold the
theorems, and `OutboxFacts` lemmas about message queues that two of them use. Definitions whose comment
says "Mutant" are faulty variants of the definition that follows; they are used nowhere else.

## Runs

| Run | Question | Bounds |
|---|---|---|
| `registry_sockets` | Do sockets and owners stay apart? | 2 targets, 2 owners, 4 allowed paths (2 spellings of one socket, a link), lease 1, clock to 1 |
| `registry_leases` | Are leases and connection records right? | 1 target, 2 sockets, leases 1 and 2, clock to 4 |
| `relay_sessions` | Do sessions and registrations interleave safely, and as the contract says? Does each binding settle? | 2 sessions (symmetric), 1 target that moves between 2 sockets and drops its command, 1 message per session, clock to 1 |
| `relay_targets` | And with several targets and misattributed results? Does the dashboard hear of them? | 1 session, 2 targets competing for a socket, results that name the target, another one or none |
| `relay_live` | Is everyone served? | 2 sessions, 1 target, no expiry |
| `event_stream` | Is the stream in order, and its losses counted? Is the dashboard told? | 1 session, 2 targets, sequences 0, 1 and the largest, 3; 6 messages, clock to 1 |
| `startup` | Who gets in, and does a relay come up? | 2 processes, 1 socket path (with or without an old file), 1 port, 2 connections, 14 configurations, 3 clients |

The bounds let each interesting case happen. Two targets and an alias are enough for a socket conflict,
which is a relation of pairs; the clock reaches the end of a lease, and goes past a second renewal in
`registry_leases`; two sessions and the registration task are enough for every order of two holders of
the mutex and one that waits. `MaxReceived` limits the client messages of one session, but a slot can be
reopened without limit. `relay_live` leaves out expiry because liveness checking of the larger state
space takes too long; a target that expired is skipped by one step (`BindSkipped`), which the other runs
take. In `event_stream` six messages are enough for the hello, the list, a binding and two events with
the count between them, or for two bindings and a command of one target whose answer names the other;
sequence 3 is the largest, so that a difference that wraps around would show. `StreamView` takes states
for one that differ only in the times and reasons of connections, which no step and no property of
`EventStream` reads. `startup` has one configuration for each check of `validate`, two that serve and one
that fails at TLS; the clients are a proxy, a proxy's address with a certificate but no subject, and an
operator who also claims to be another subject. Two processes are enough for every race at the file and
the port, which are between pairs. `OutdatedByOthersOnly` says of every step that it leaves no dashboard
out of date unless another session is at work: the code tells only the session whose exchange failed, so
that this is all it can promise. `relay_sessions` checks it with two sessions, `relay_targets` and
`event_stream` with one, which may not be out of date at all, and with two targets and answers that name
another one; the theorems hold for any number. Deadlock is checked in every run but `startup`, where
processes end and nobody must start another.

Fairness: `MutexFairness` is strong fairness of the steps that wait for the mutex. Tokio's mutex
queues its waiters first in, first out, so a waiting task gets it after finitely many releases; weak
fairness would not do, since the step is disabled whenever another task holds the mutex.
`TargetsAnswer` is weak fairness of the IPC steps: targets answer or their sockets fail. The code
does not ensure this, so it is a separate assumption, and `forward_ends` shows what happens without
it. Nothing is assumed of clients, registrants or the clock. `StartupFairness` is weak fairness of each
process's own steps and of its accept loop, which the operating system and tokio run; a process that is
started may still be killed at any point, and clients may stall for ever.

### Where documentation and program differ

Each of these runs checks one statement of the repository and finds it violated.

| Run | Statement | What happens |
|---|---|---|
| `keeps_serving` | README:29, the registration socket serves until shutdown | a failed accept, an undecodable line, a failed read or a failed acknowledgement ends the task, while the relay runs on |
| `forward_ends` | registration.rs:22, a command's timeout | never used: a silent target holds the session and the registry's mutex for ever |
| `reconnecting` | registry.rs:40, a retry is in progress | nothing retries a target that moved |
| `registered_active` | registry.rs:158, the registration returned is active | its time was taken before the mutex was awaited, so its lease may be over |
| `list_sent` | session.rs:3, the list is sent before binding | it is queued, and sent after every target was tried |

The model shows further differences that no run is spent on:

- registry.rs:44, `Expired` means an expired lease: `renew` and a re-registration at the same path
  make the lease valid and leave the connection's state;
- registry.rs:337, the active target list is the one the session binds: the registry is read twice,
  so a target that registers in between is bound but not listed;
- README:11, IPC only for bound targets: the refresh after a command follows the `target_id` of the
  answer (`NeedsRefresh`), bound or not;
- audit.rs:18 and manual:19, rejected commands are audited: refusals before forwarding
  (`CommandRefused`) are not, while a command that ran and whose answer was lost is recorded as
  rejected (`ForwardFails`);
- audit.rs:20, `Completed` is a completed result: it is recorded for every answer (`WithResult`).
- session.rs:99, a stream epoch isolates sequences after a restart of a target: `accept_event` never
  looks at one, so that the events of the new life are refused, without a count, until their numbers
  pass those of the old one; and a bound target is never subscribed to again.

And behaviour that no document speaks of, but a reader should know:

- a second relay with the configuration of a running one removes its socket file and binds its own
  before it fails at the port: the first goes on serving dashboards that no new target can reach
  (`RemoveSocket`, `BindPort`);
- one failed accept of the wss listener ends the process with all its sessions (`Stop`);
- a registrant that connects and sends nothing holds up all later ones (`ReadRequest` has no fairness);
- a gap is counted by the session, and the target may report the same loss itself: both are shown;
- a refused event's error goes to the caller and not into the outbox;
- an identity's validity window is never looked at again after the connection is made.

## Proofs

`RegistryProofs` proves of `RegistrySpec`, for all targets, owners, paths, requests, leases and
times, from the named assumptions of `Registry` (paths have keys, requests are well-formed records,
`None` is none of the values or reasons, bounds and numbers are naturals):

- `TypeCorrect`: `[]RegistryTypeOK`;
- `SocketsStayDisjoint`: `[]SocketsDisjoint`;
- `OwnershipIsStable`: `OwnershipStable`;
- `LeasesAreHonoured`: `[]LeaseHonoured`;
- `ConnectionHistoryAgrees`: `[]ConnectionHistory`.

`SocketsDisjoint` is not inductive: the code compares stored keys, while the property speaks of the
keys of the paths that either table holds. `SocketInv` adds that a stored key is the key of the
stored path, that both tables hold the same path (`KeysInStep`), and that stored keys differ
(`KeysDistinct`). `RegisterEffect` says what an accepted request does to the tables entry by entry,
and `RegisterSockets` derives the invariant from it; all other operations leave every target at its
socket (`SameSockets`), which preserves it at once. `LeaseInv` says that the end of a lease is its
last renewal plus its length, and that a lease is marked expired only after its end; `LeaseHonoured`
follows. `ConnectionHistory` is inductive given well-formed records. The lemmas about `register` and
the marks take any `now`, so that they also serve a caller with an old time, as the registration task
and the sessions are.

`RelayProofs` proves of `Relay`'s `Spec`, for any number of sessions, targets, commands and messages:

- `RelayTypeCorrect`, `LoopTypeCorrect`: the types of the registry, the sessions and the registration
  task;
- `RelaySocketsDisjoint`, `RelayOwnershipIsStable`, `RelayLeasesAreHonoured`, `RelayConnectionsAgree`:
  what the registry promises by itself (`SocketsDisjoint`, `OwnershipStable`, `LeaseHonoured`,
  `ConnectionHistory`) holds in the composed relay, although the registration task and the sessions work
  with times they read earlier. `RelayMovesRegistry` reduces every step of the relay to a registration
  with some time, a session's call, or the clock;
- `AcknowledgementsAreTrue`: `AckTruthful`;
- `AskedUnderTheRegistration`, `ReadsStayCurrent`, `NobodyStaysConnecting`: `IpcMatchesRegistration`,
  `StateReadsAreCurrent` and `NoStuckConnecting`;
- `RelayImplementsContract`: `ImplementsContract`, and with `ContractKept` of `ControlContract`,
  `RelayKeepsPromises`: `KeepsPromises`.

Beside the registry's assumptions these need that `None` is no session, request or command and that an
exchange is something (`SessionsAssumption`, `LoopAssumption`, `CommandAssumption`,
`ExchangeAssumption`).

The invariant is `RelayInv`. `IpcMatchesRegistration` alone is not inductive: it needs that at most one
session is in IPC and that it is the holder of the mutex (`SessionsInv`), that a session's locals fit its
program counter (`WellFormed`), and the registry's `SocketInv`. Each step of a session is shown to be
`Quiet`, which leaves the registry alone and neither begins nor ends an exchange, or `Held`, which takes,
keeps or gives back the mutex and leaves the registrations alone; `Calls` lists what a held step may do to
a connection. From these two the invariant follows without looking at the steps again. A registration
needs the mutex, so no session is in IPC when a socket changes, and the upsert takes the connected state
away from a target that moves. For the refinement, a `Held` step that enters an exchange is `BeginRead`
or `Accept`, one that leaves it is `EndRead` or `Conclude`, a `Quiet` step that drops an audit is
`Leave` and any other a stutter, and a registration is `Place` or a stutter. `ContractInv` adds types to
`Promises`; parity of a trail's length is what relates its last record to the exchange.

`DashboardProofs` proves `AuditsAreComplete` (`ForwardingAudited`) and `DashboardsAreOrdered`
(`DashboardOrder`) on top of `RelayInv`. `SessionSteps` says of every step what it adds to the audit and
to the messages (`AuditStep`, `MessageStep`). `AuditInv` adds to the property that records are of
messages already received and that a waiting command has none, so that an acceptance is always the
first record of its message. `OrderInv` adds how many messages a session has said in each phase, and
that nothing is answered before it serves, so that a target cannot be bound after an answer of it.

`OnlyOthersOutdate` and `BindingsDoSettle` of `DashboardProofs` prove `OutdatedByOthersOnly` and
`BindingsSettle`, for any number of sessions. `Known` says that what a session said last of a target fits
the recorded state. That every session's targets are always known is no invariant, because others change
the record without telling it; what holds is that a step of its own, a registration, or the clock leaves
none out of date (`Freshens`). `Apart` is the invariant behind it: bound targets are registered, the
target that is being bound is not bound yet, and it is connected while its subscriptions are asked for,
whatever others do, because the session holds the mutex. Each step of a session hears nothing, touches a
target that is not bound, or says of one target what it records of it (`HearsNothing`, `TouchesUnbound`,
`HearsOf`). A session that is in no exchange connects no target and loses none (`OthersTouch`), so that
another session can outdate a dashboard only while it holds the mutex.

`StreamProofs` proves of `StreamSpec`, for any number of sessions and targets, any `MaxSequence` and
outboxes of any length:

- `EventsAreInOrder`, `LossesAreAccounted`: `EventsInOrder` and `LossesAccounted`;
- `StreamsFollowStates`, `ControlHasIdentity`: `StreamFollowsState` and `ControlNeedsIdentity`;
- `StreamsOutdatedByOthers`: `OutdatedByOthersOnly`.

They need that sequences lie within `MaxSequence` and that a set of targets is no target
(`StreamAssumption`, `TargetAssumption`). `StreamInv` says of each session that the number it keeps for a
target is that of the last event shown, or that none was shown, and that gaps before it are counted
(`Accounts`); that a bound target's state was shown (`FollowsState`); and that whoever has an identity
was greeted (`Greeted`). `EventsInOrder` alone is not inductive, since the code compares a new event with
the kept number and not with what was shown. `LossesAccounted` speaks of two neighbouring events, and not
of sums over the stream, which would need induction over data; since every count lies between two
neighbours, it says no less. `NoWrap` shows that the arithmetic of an accepted event never wraps. For
`OutdatedByOthersOnly` every call either says nothing of connections and changes none that is bound
(`QuietFreshens`), or says last what it records (`ToldFreshens`); everything else leaves the state of a
target or makes it reconnecting or expired (`Eases`), of which no dashboard is told.

`StartupProofs` proves of `StartupSpec`, for any number of processes, connections, paths, addresses,
configurations and clients, `StartupTypeCorrect` (`StartupTypeOK`), `SessionsAreVouchedFor`
(`VouchedFor`) and `ChecksDisturbNothing` (`CheckDisturbsNothing`). They need that `None` and the old
file's mark are no processes, that `None` is no cause of an exit, and that addresses and socket paths are
those of the configurations (`RelayAssumption`, `ConfigAssumption`). `StartupInv` adds to the types that
a process past the check has an accepted configuration and was started to serve (`SettingsFit`), that
exactly the serving processes hold ports, each its own (`PortsFit`), and that a connection past its
handshake met the demands of the configuration (`AdmissionHolds`), without which an identity made from
the certificate says nothing of its issuer.

Only model-checked: liveness (`RegistrantServed`, `DashboardServed`, `RestartServes`, `OneOfThemServes`,
`ConnectionsTaken`), which is out of the prover's reach, as is `ENABLED`, and with it that nothing
deadlocks. Every other property of the passing runs is a theorem.

## Plan

Done, in this order: `Registry`, `SharedRegistry`, `RegistrationLoop`, `Session`, `Relay` and the
registry's theorems; `EventStream`; `ControlContract` and its refinement by `Relay`; `Admission` and
`Startup`; `RelayProofs`, `DashboardProofs`, `StreamProofs` and `StartupProofs`; commands and the
registry's maintenance in `EventStream`. What could follow: a contract for the event stream of one target,
with its refinement by `EventStream`, and theorems about the checks of `Admission` one by one.

## Not modelled

- wording, codes and stages of errors, and `DiagnosticEvent`: plain data without state
  (`src/error.rs`, `src/diagnostics.rs`);
- cryptography, WebSocket framing, and JSON or YAML beyond which fields decide what the relay does;
- a file system that changes while the relay runs: the program normalizes a path once and promises
  nothing of later changes, and no property about sockets could hold;
- leases beyond 64 bits: `lease_seconds` is cast in one assignment (`registry.rs:197`), which has no
  behaviour over time; times are natural numbers here;
- command identifiers: the relay never compares them, and leaves repeated commands to targets;
- `accept_connection_state` called directly by a user of the library (see `EventStream`);
- liveness with expiring leases: the state space takes too long (see the bounds of `relay_live`).
