----------------------------- MODULE EventStream -----------------------------
(***************************************************************************)
(* The stream of a dashboard session: DashboardSession used as a library   *)
(* together with RelayHub (src/src/relay.rs), which fans out events, logs, *)
(* deltas and dropped counts of bound targets.  The calls are synchronous, *)
(* so each is one step.  accept_connection_state is called by the hub and  *)
(* by handle_command: a caller of its own could tell the dashboard anything*)
(* about a target's connection, and is left out.                           *)
(*                                                                         *)
(* Nothing is assumed of the way from a target to the session: events are  *)
(* lost, repeated, overtaken, or numbered anew after a restart, so that    *)
(* any sequence number may arrive at any time.                             *)
(***************************************************************************)
EXTENDS Registry, Integers, Sequences

CONSTANTS
    Dashboards,     \* dashboard sessions
    MaxSequence,    \* u64::MAX, the largest sequence number
    MaxMessages     \* bound on the messages of one session

VARIABLE
    dashboards      \* session -> DashboardSession

streamVars == <<registrations, connections, clock, dashboards>>

ASSUME StreamAssumption ==
    /\ MaxSequence \in Nat
    /\ EventSequences \subseteq 0 .. MaxSequence
    /\ MaxMessages \in Nat

\* A message about the list of targets is not one about a target.
ASSUME TargetAssumption == \A targets \in SUBSET Targets : targets \notin Targets

\* Arithmetic on u64.
Wrapped(n) == n % (MaxSequence + 1)

\* What the dashboard is told: logs and state deltas, which are passed on alike,
\* are of type "Payload"; n is a sequence or a count; `reported' tells the
\* dropped counts of the target itself from those of gaps (history).
Message(type, about) == [type |-> type, about |-> about, n |-> 0, reported |-> FALSE]

Event(t, n) == [Message("Event", t) EXCEPT !.n = n]

DroppedCount(t, n) == [Message("DroppedCount", t) EXCEPT !.n = n]

-----------------------------------------------------------------------------
(* The handshake.                                                          *)

\* `asked' says that the session has called a target (history); `outbox' keeps
\* what was drained, because draining only moves it to the client.
unauthenticated ==
    [identity |-> FALSE, state |-> "Handshaking", bound |-> {},
     last_sequences |-> [t \in Targets |-> None], outbox |-> <<>>, asked |-> FALSE]

server_hello == [unauthenticated EXCEPT !.identity = TRUE,
                                        !.outbox = <<Message("ServerHello", None)>>]

\* Anything but a first hello that names its store is refused without effect.
accept_client_hello(self) == [self EXCEPT !.state = "Established"]

publish_target_list(self, targets) ==
    [self EXCEPT !.outbox = Append(@, Message("TargetList", targets))]

\* Mutant: the handshake alone opens control.
EstablishedWithoutIdentity(self) == self.state = "Established"

ensure_control_established(self) == self.state = "Established" /\ self.identity

StreamInit ==
    /\ RegistryInit
    /\ dashboards = [d \in Dashboards |-> unauthenticated]

Become(d, self) ==
    /\ Len(self.outbox) <= MaxMessages
    /\ dashboards' = [dashboards EXCEPT ![d] = self]

\* establish over wss://; over ws:// it returns an error and no session.
Establish(d) ==
    /\ dashboards[d] = unauthenticated
    /\ Become(d, publish_target_list(accept_client_hello(server_hello),
                                     active_targets(clock)))
    /\ UNCHANGED registryVars

\* A session without an identity takes the hello as well.
Greet(d) ==
    /\ dashboards[d].state = "Handshaking"
    /\ Become(d, accept_client_hello(dashboards[d]))
    /\ UNCHANGED registryVars

\* Mutant: the messages of unbound targets are passed on.
accept_unbound(self, message) == [self EXCEPT !.outbox = Append(@, message)]

\* accept_log, accept_state_delta, accept_dropped_count, accept_connection_state
accept(self, message) ==
    IF message.about \in self.bound
    THEN [self EXCEPT !.outbox = Append(@, message)]
    ELSE self

-----------------------------------------------------------------------------
(* bind_target, with the answers of the target.                            *)

\* Past the gates of bind_target, which returns early for a bound target.
MayBind(d, t) ==
    /\ ensure_control_established(dashboards[d])
    /\ ensure_target_active(t, clock)
    /\ t \notin dashboards[d].bound

Asking(d) == [dashboards[d] EXCEPT !.asked = TRUE]

\* connect_state fails; the Connecting state in between is seen by nobody.
BindStateFails(d, t) ==
    /\ MayBind(d, t)
    /\ MarkUnavailable(t, "ipc_failed", clock)
    /\ Become(d, Asking(d))
    /\ UNCHANGED clock

ConnectedRecord(t, generation) ==
    [connections[t] EXCEPT !.state = "Connected", !.last_state_generation = generation,
                           !.connected_at = clock, !.updated_at = clock,
                           !.last_error = None]

\* A subscription fails after the state was read.
BindSubscribeFails(d, t) ==
    /\ MayBind(d, t)
    /\ \E generation \in Generations :
          UpdateConnection(t, [ConnectedRecord(t, generation) EXCEPT
              !.state = "Unavailable", !.last_error = "ipc_failed"])
    /\ Become(d, Asking(d))
    /\ UNCHANGED clock

BindSucceeds(d, t) ==
    /\ MayBind(d, t)
    /\ \E generation \in Generations : MarkConnected(t, generation, clock)
    /\ Become(d, [Asking(d) EXCEPT !.bound = @ \cup {t},
                                   !.outbox = Append(@, Message("State", t))])
    /\ UNCHANGED clock

Bind(d, t) ==
    \/ BindStateFails(d, t)
    \/ BindSubscribeFails(d, t)
    \/ BindSucceeds(d, t)

-----------------------------------------------------------------------------
(* handle_command, with the answers of the target.  Its audit is Session's.*)

\* Past the gates of handle_command, with some valid command.
MayForward(d, t) ==
    /\ ensure_control_established(dashboards[d])
    /\ t \in dashboards[d].bound
    /\ ensure_target_active(t, clock)
    /\ \E name \in CommandNames : ensure_command_supported(t, name)

ForwardFails(d, t) ==
    /\ MayForward(d, t)
    /\ Become(d, Asking(d))
    /\ UNCHANGED registryVars

\* The answer may name any target, or one that nobody knows.
WithResult(d, about) ==
    [Asking(d) EXCEPT !.outbox = Append(@, Message("CommandResult", about))]

\* No refresh: the command is not completed, or its target is not registered.
ForwardSucceeds(d, t) ==
    /\ MayForward(d, t)
    /\ \E about \in Targets \cup {None} : Become(d, WithResult(d, about))
    /\ UNCHANGED registryVars

\* refresh_target_state_after_command, of a target that may not be bound.
RefreshRead(d, t, about) ==
    /\ MayForward(d, t)
    /\ \E generation \in Generations : MarkConnected(about, generation, clock)
    /\ Become(d, [WithResult(d, about) EXCEPT !.outbox = Append(@, Message("State", about))])
    /\ UNCHANGED clock

RefreshFails(d, t, about) ==
    /\ MayForward(d, t)
    /\ MarkUnavailable(about, "ipc_failed", clock)
    /\ Become(d, accept(WithResult(d, about), Message("ConnectionState", about)))
    /\ UNCHANGED clock

Command(d, t) ==
    \/ ForwardFails(d, t)
    \/ ForwardSucceeds(d, t)
    \/ \E about \in Targets : RefreshRead(d, t, about) \/ RefreshFails(d, t, about)

-----------------------------------------------------------------------------
(* The stream.  Messages about targets that are not bound are dropped.     *)

\* Mutants: an event with the last sequence again is taken; a gap of one is not
\* noticed.
accept_event_repeated(self, t, n) ==
    LET previous == self.last_sequences[t]
        gap == IF previous # None /\ n > Wrapped(previous + 1)
               THEN <<DroppedCount(t, Wrapped(n - previous - 1))>>
               ELSE <<>>
    IN  IF t \notin self.bound \/ (previous # None /\ n < previous)
        THEN self
        ELSE [self EXCEPT !.last_sequences[t] = n,
                          !.outbox = @ \o gap \o <<Event(t, n)>>]

accept_event_small_gap(self, t, n) ==
    LET previous == self.last_sequences[t]
        gap == IF previous # None /\ n > Wrapped(previous + 2)
               THEN <<DroppedCount(t, Wrapped(n - previous - 1))>>
               ELSE <<>>
    IN  IF t \notin self.bound \/ (previous # None /\ n <= previous)
        THEN self
        ELSE [self EXCEPT !.last_sequences[t] = n,
                          !.outbox = @ \o gap \o <<Event(t, n)>>]

\* An event that is not above the last one is refused: the error goes to the
\* caller and not into the outbox.
accept_event(self, t, n) ==
    LET previous == self.last_sequences[t]
        gap == IF previous # None /\ n > Wrapped(previous + 1)
               THEN <<DroppedCount(t, Wrapped(n - previous - 1))>>
               ELSE <<>>
    IN  IF t \notin self.bound \/ (previous # None /\ n <= previous)
        THEN self
        ELSE [self EXCEPT !.last_sequences[t] = n,
                          !.outbox = @ \o gap \o <<Event(t, n)>>]

FanOutEvent(d, t) ==
    /\ \E n \in EventSequences : Become(d, accept_event(dashboards[d], t, n))
    /\ UNCHANGED registryVars

FanOutOther(d, t) ==
    /\ \E message \in {Message("Payload", t), [DroppedCount(t, 1) EXCEPT !.reported = TRUE]} :
          Become(d, accept(dashboards[d], message))
    /\ UNCHANGED registryVars

\* Mutant: the registry is not told.
ReconnectTimeoutUnmarked(d, t) ==
    /\ t \in Registered
    /\ Become(d, accept(dashboards[d], Message("ConnectionState", t)))
    /\ UNCHANGED registryVars

\* reconnect_timeout; a target that is not registered is marked nowhere.
ReconnectTimeout(d, t) ==
    /\ t \in Registered
    /\ MarkUnavailable(t, "reconnect", clock)
    /\ Become(d, accept(dashboards[d], Message("ConnectionState", t)))
    /\ UNCHANGED clock

-----------------------------------------------------------------------------
(* These calls in any order, while targets register and leases run out.    *)

Enter ==
    /\ \E request \in Requests, owner \in Owners : Register(request, owner, clock)
    /\ UNCHANGED <<clock, dashboards>>

\* The registry's own operations that speak to no target.
Maintain ==
    /\ \/ ExpireLeases(clock)
       \/ \E t \in Targets : Renew(t, clock) \/ MarkReconnecting(t, "reconnect", clock)
    /\ UNCHANGED <<clock, dashboards>>

StreamCall(d, t) ==
    \/ Bind(d, t)
    \/ Command(d, t)
    \/ FanOutEvent(d, t)
    \/ FanOutOther(d, t)
    \/ ReconnectTimeout(d, t)

StreamNext ==
    \/ Enter
    \/ Maintain
    \/ Tick /\ UNCHANGED dashboards
    \/ \E d \in Dashboards : Establish(d) \/ Greet(d)
    \/ \E d \in Dashboards, t \in Targets : StreamCall(d, t)

StreamSpec == StreamInit /\ [][StreamNext]_streamVars

-----------------------------------------------------------------------------
(* Properties.                                                             *)

\* The places of a kind of message about a target among the first k.
Places(d, t, type, k) ==
    {i \in 1 .. k : /\ dashboards[d].outbox[i].type = type
                    /\ dashboards[d].outbox[i].about = t}

\* Between two events of a target shown one after the other, the session counts
\* exactly the numbers missing between theirs, in one count that wraps around
\* nowhere, and counts nothing when none is missing; and it counts nothing before
\* the first event or after the last, for any order of arrival (accept_event).
\* An event that is refused for not being above the last one is not counted.
LossesAccounted ==
    \A d \in Dashboards, t \in Targets :
        LET outbox == dashboards[d].outbox
            shown == Places(d, t, "Event", Len(outbox))
            counts == {m \in Places(d, t, "DroppedCount", Len(outbox)) : ~outbox[m].reported}
            Between(i, k) == {m \in counts : i < m /\ m < k}
        IN  /\ \A i, k \in shown :
                  i < k /\ ~(\E j \in shown : i < j /\ j < k) =>
                      LET missing == outbox[k].n - outbox[i].n - 1
                      IN  IF missing = 0 THEN Between(i, k) = {}
                          ELSE \E m \in counts : Between(i, k) = {m} /\ outbox[m].n = missing
            /\ \A m \in counts : \E i, k \in shown : i < m /\ m < k

\* Each target's events are shown in the order of their sequences and none is
\* shown twice, whatever is repeated or arrives late, and whatever other targets
\* send in between (accept_event and last_sequences).
EventsInOrder ==
    \A d \in Dashboards, t \in Targets :
        LET outbox == dashboards[d].outbox
        IN  \A i, k \in Places(d, t, "Event", Len(outbox)) :
                i < k => outbox[i].n < outbox[k].n

\* A dashboard hears of a target only after it was shown the target's state, and
\* never of one whose binding failed, but for the result of a command, which is
\* about whatever target the answer names (the bound checks of accept_*, the
\* order of bind_target, handle_command).
StreamFollowsState ==
    \A d \in Dashboards, t \in Targets :
        LET outbox == dashboards[d].outbox
        IN  \A k \in DOMAIN outbox :
                outbox[k].about = t /\ outbox[k].type # "CommandResult" =>
                    Places(d, t, "State", k) # {}

\* Only a session with an identity, greeted by server_hello, ever calls a target,
\* in whatever order its operations are called (ensure_control_established).
ControlNeedsIdentity ==
    \A d \in Dashboards :
        dashboards[d].asked =>
            /\ dashboards[d].identity
            /\ dashboards[d].outbox[1] = Message("ServerHello", None)

\* The last a dashboard heard of a target's connection is of this type.
HeardLast(d, t, type) ==
    LET outbox == dashboards[d].outbox
    IN  \E i \in Places(d, t, type, Len(outbox)) :
            \A other \in {"State", "ConnectionState"} :
                \A k \in Places(d, t, other, Len(outbox)) : k <= i

\* ... and fits what the registry says: its state if connected, its loss if not.
UpToDate(d, t) ==
    /\ connections[t].state = "Connected" => HeardLast(d, t, "State")
    /\ connections[t].state = "Unavailable" => HeardLast(d, t, "ConnectionState")

\* What a dashboard was told of a target it bound goes out of date only through a
\* call for another dashboard: every bind, command, refresh and reconnect timeout
\* of its own that changes the registry's word on a target tells it, whatever
\* target an answer names, and so does no registration, sweep or move, for any
\* number of dashboards (bind_target, handle_command, reconnect_timeout).
OutdatedByOthersOnly ==
    [][\A d \in Dashboards : \A t \in dashboards'[d].bound :
          \/ UpToDate(d, t)'
          \/ t \in dashboards[d].bound /\ ~UpToDate(d, t)
          \/ \E other \in Dashboards \ {d}, u \in Targets : StreamCall(other, u)]_streamVars
=============================================================================
