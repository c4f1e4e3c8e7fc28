------------------------------ MODULE Session -------------------------------
(***************************************************************************)
(* A dashboard session: the state of DashboardSession (src/src/session.rs),*)
(* the program counter of the task that drives it (run_dashboard_session   *)
(* and auto_bind_active_targets of src/src/main.rs), and the IPC exchanges *)
(* it makes with targets (src/src/ipc_client.rs).                          *)
(*                                                                         *)
(* A session that waits for a target holds the registry's mutex, and works *)
(* with the registration it cloned and the time it read after locking.     *)
(***************************************************************************)
EXTENDS SharedRegistry, Sequences

CONSTANTS
    ClientCommands,   \* commands a dashboard may send
    DangerousCommands,\* names that requires_confirmation()
    ReplyTargets,     \* other target_ids a command result may carry
    MaxReceived       \* bound on client messages in one session

VARIABLES
    sessions,         \* session -> program counter and locals
    read_from         \* target -> path its last state was read from (history)

sessionVars == <<sessions, read_from>>

CommandRecords ==
    [target_id: Targets \cup {None}, command: CommandNames,
     well_formed: BOOLEAN, confirmed: BOOLEAN]

\* ControlCommandResult.status
Statuses == {"accepted", "rejected", "completed", "failed"}

ASSUME CommandAssumption ==
    /\ ClientCommands \subseteq CommandRecords \ {None}
    /\ DangerousCommands \subseteq CommandNames
    /\ ReplyTargets \subseteq Targets \cup {None}
    /\ MaxReceived \in Nat

\* Program counters: between messages, waiting for the mutex, in IPC under it.
Talking == {"closed", "greet", "hello", "flush", "wait"}
Acquiring == {"list", "select", "bind", "command"}
InIpc == {"state", "subscribe", "forward", "refresh"}

Message(type, about) == [type |-> type, about |-> about]

Closed ==
    [pc |-> "closed", established |-> FALSE, bound |-> {}, todo |-> {},
     target |-> None, path |-> None, at |-> 0, command |-> None, received |-> 0,
     outbox |-> <<>>, wire |-> <<>>, audit |-> <<>>, executed |-> {}]

SessionInit ==
    /\ sessions = [s \in Sessions |-> Closed]
    /\ read_from = [t \in Targets |-> None]
    /\ lock = None

Goto(s, locals) == sessions' = [sessions EXCEPT ![s] = locals]

-----------------------------------------------------------------------------
(* Handshake and delivery: no access to the registry.                      *)

\* An authenticated WebSocket: server_hello is queued.
Open(s) ==
    /\ sessions[s].pc = "closed"
    /\ Goto(s, [Closed EXCEPT !.pc = "greet", !.outbox = <<Message("ServerHello", None)>>])
    /\ UNCHANGED <<sharedVars, read_from>>

\* send_messages of the drained outbox.
Flush(s) ==
    LET self == sessions[s]
    IN  /\ self.pc \in {"greet", "flush"}
        /\ Goto(s, [self EXCEPT !.wire = @ \o self.outbox, !.outbox = <<>>,
                                !.pc = IF @ = "greet" THEN "hello" ELSE "wait"])
        /\ UNCHANGED <<sharedVars, read_from>>

HelloAccepted(s) ==
    /\ sessions[s].pc = "hello"
    /\ Goto(s, [sessions[s] EXCEPT !.pc = "list", !.established = TRUE])
    /\ UNCHANGED <<sharedVars, read_from>>

\* The client leaves, a write fails, or the first message is not a valid
\* client_hello: the task ends and drops the session and its audit recorder.
End(s) ==
    /\ sessions[s].pc \in Talking \ {"closed"}
    /\ Goto(s, Closed)
    /\ UNCHANGED <<sharedVars, read_from>>

ReceiveCommand(s) ==
    LET self == sessions[s]
    IN  /\ self.pc = "wait" /\ self.received < MaxReceived
        /\ \E c \in ClientCommands :
              Goto(s, [self EXCEPT !.pc = "command", !.command = c, !.received = @ + 1])
        /\ UNCHANGED <<sharedVars, read_from>>

\* An undecodable message or a second client_hello is answered with an error.
\* Log and event filters are skipped without an answer: no step here.
ReceiveOther(s) ==
    LET self == sessions[s]
    IN  /\ self.pc = "wait" /\ self.received < MaxReceived
        /\ Goto(s, [self EXCEPT !.pc = "flush", !.received = @ + 1,
                                !.outbox = Append(@, Message("Error", None))])
        /\ UNCHANGED <<sharedVars, read_from>>

-----------------------------------------------------------------------------
(* The target list and automatic binding (auto_bind_active_targets and     *)
(* bind_target).                                                           *)

\* Mutant: the end of the list is not noticed.
AfterBindingForever(todo) == "bind"

AfterBinding(todo) == IF todo = {} THEN "flush" ELSE "bind"

PublishTargetList(s) ==
    LET self == sessions[s]
    IN  /\ self.pc = "list"
        /\ Unlocked
        /\ Goto(s, [self EXCEPT !.pc = "select",
                     !.outbox = Append(@, Message("TargetList", active_targets(clock)))])
        /\ UNCHANGED <<sharedVars, read_from>>

\* The targets to bind are read again, in a second critical section.
SelectTargets(s) ==
    /\ sessions[s].pc = "select"
    /\ Unlocked
    /\ LET todo == active_targets(clock)
       IN  Goto(s, [sessions[s] EXCEPT !.pc = AfterBinding(todo), !.todo = todo])
    /\ UNCHANGED <<sharedVars, read_from>>

\* Mutant: the target is bound before it has answered.
BindBeginBound(s) ==
    LET self == sessions[s]
    IN  /\ self.pc = "bind"
        /\ Unlocked
        /\ self.established
        /\ \E t \in (self.todo \cap active_targets(clock)) \ self.bound :
              /\ BeginBinding(t, clock)
              /\ Goto(s, [self EXCEPT !.pc = "state", !.target = t, !.at = clock,
                                      !.path = registrations[t].ipc_path,
                                      !.bound = @ \cup {t}])
        /\ lock' = s
        /\ UNCHANGED read_from

\* bind_target up to connect_state.
BindBegin(s) ==
    LET self == sessions[s]
    IN  /\ self.pc = "bind"
        /\ Unlocked
        /\ self.established
        /\ \E t \in (self.todo \cap active_targets(clock)) \ self.bound :
              /\ BeginBinding(t, clock)
              /\ Goto(s, [self EXCEPT !.pc = "state", !.target = t, !.at = clock,
                                      !.path = registrations[t].ipc_path])
        /\ lock' = s
        /\ UNCHANGED read_from

\* bind_target returns early: already bound, or no longer active.
BindSkipped(s) ==
    LET self == sessions[s]
    IN  /\ self.pc = "bind"
        /\ Unlocked
        /\ \E t \in self.todo \ (active_targets(clock) \ self.bound) :
              Goto(s, [self EXCEPT !.pc = AfterBinding(self.todo \ {t}), !.todo = @ \ {t}])
        /\ UNCHANGED <<sharedVars, read_from>>

\* The target answers `state': it counts as connected before the subscriptions.
StateRead(s) ==
    LET self == sessions[s]
    IN  /\ self.pc = "state"
        /\ \E generation \in Generations : MarkConnected(self.target, generation, self.at)
        /\ read_from' = [read_from EXCEPT ![self.target] = self.path]
        /\ Goto(s, [self EXCEPT !.pc = "subscribe"])
        /\ UNCHANGED lock

\* Mutant: the mutex is kept.
BindingDoneLocked(s, locals) ==
    LET todo == locals.todo \ {locals.target}
    IN  /\ Goto(s, [locals EXCEPT !.pc = AfterBinding(todo), !.todo = todo,
                                  !.target = None, !.path = None, !.at = 0])
        /\ UNCHANGED lock

\* Where a binding ends: the mutex is released and the target is done with.
BindingDone(s, locals) ==
    LET todo == locals.todo \ {locals.target}
    IN  /\ Goto(s, [locals EXCEPT !.pc = AfterBinding(todo), !.todo = todo,
                                  !.target = None, !.path = None, !.at = 0])
        /\ lock' = None

\* Mutant: the failure is not recorded.
StateFailsSilently(s) ==
    LET self == sessions[s]
    IN  /\ self.pc = "state"
        /\ BindingDone(s, self)
        /\ UNCHANGED <<registrations, connections, read_from>>

\* connect_state fails.
StateFails(s) ==
    LET self == sessions[s]
    IN  /\ self.pc = "state"
        /\ MarkUnavailable(self.target, "ipc_failed", self.at)
        /\ BindingDone(s, self)
        /\ UNCHANGED read_from

\* Mutant: the state is not queued.
SubscribedSilently(s) ==
    LET self == sessions[s]
    IN  /\ self.pc = "subscribe"
        /\ BindingDone(s, [self EXCEPT !.bound = @ \cup {self.target}])
        /\ UNCHANGED <<registrations, connections, read_from>>

\* Both subscriptions are acknowledged; the state is queued.
Subscribed(s) ==
    LET self == sessions[s]
    IN  /\ self.pc = "subscribe"
        /\ BindingDone(s, [self EXCEPT !.bound = @ \cup {self.target},
                               !.outbox = Append(@, Message("State", self.target))])
        /\ UNCHANGED <<registrations, connections, read_from>>

\* Mutant: the target stays connected.
SubscribeFailsConnected(s) ==
    LET self == sessions[s]
    IN  /\ self.pc = "subscribe"
        /\ BindingDone(s, self)
        /\ UNCHANGED <<registrations, connections, read_from>>

\* Either subscription fails: the state that was read is dropped.
SubscribeFails(s) ==
    LET self == sessions[s]
    IN  /\ self.pc = "subscribe"
        /\ MarkUnavailable(self.target, "ipc_failed", self.at)
        /\ BindingDone(s, self)
        /\ UNCHANGED read_from

-----------------------------------------------------------------------------
(* Control commands (handle_command).                                      *)

Record(id, result, detail) == [id |-> id, result |-> result, detail |-> detail]

\* prepare_client_command; a malformed command lacks an identifier or a reason,
\* or claims a requester.
MayPrepare(c) == c.well_formed /\ (c.command \in DangerousCommands => c.confirmed)

Forwardable(s) ==
    LET c == sessions[s].command
    IN  /\ sessions[s].established
        /\ c.target_id \in sessions[s].bound
        /\ ensure_target_active(c.target_id, clock)
        /\ ensure_command_supported(c.target_id, c.command)
        /\ MayPrepare(c)

CommandRefused(s) ==
    LET self == sessions[s]
    IN  /\ self.pc = "command"
        /\ Unlocked
        /\ ~Forwardable(s)
        /\ Goto(s, [self EXCEPT !.pc = "flush", !.command = None,
                                !.outbox = Append(@, Message("Error", None))])
        /\ UNCHANGED <<sharedVars, read_from>>

\* Mutant: the mutex is released before the exchange.
CommandAcceptedUnlocked(s) ==
    LET self == sessions[s]
        t == self.command.target_id
    IN  /\ self.pc = "command"
        /\ Unlocked
        /\ Forwardable(s)
        /\ Goto(s, [self EXCEPT !.pc = "forward", !.target = t, !.at = clock,
                                !.path = registrations[t].ipc_path,
                                !.audit = Append(@, Record(self.received, "Accepted", None))])
        /\ UNCHANGED <<registrations, connections, lock, read_from>>

\* The acceptance is audited, and the command is on its way to the target.
CommandAccepted(s) ==
    LET self == sessions[s]
        t == self.command.target_id
    IN  /\ self.pc = "command"
        /\ Unlocked
        /\ Forwardable(s)
        /\ Goto(s, [self EXCEPT !.pc = "forward", !.target = t, !.at = clock,
                                !.path = registrations[t].ipc_path,
                                !.audit = Append(@, Record(self.received, "Accepted", None))])
        /\ lock' = s
        /\ UNCHANGED <<registrations, connections, read_from>>

\* Where a command ends: the mutex is released and the answer is flushed.
CommandDone(s, locals) ==
    /\ Goto(s, [locals EXCEPT !.pc = "flush", !.command = None,
                              !.target = None, !.path = None, !.at = 0])
    /\ lock' = None

\* Mutant: a lost exchange leaves no outcome.
ForwardFailsUnaudited(s) ==
    LET self == sessions[s]
    IN  /\ self.pc = "forward"
        /\ \E ran \in SUBSET {self.received} :
              CommandDone(s, [self EXCEPT !.executed = @ \cup ran,
                  !.outbox = Append(@, Message("Error", None))])
        /\ UNCHANGED <<registrations, connections, read_from>>

\* The exchange fails, before or after the target ran the command.
ForwardFails(s) ==
    LET self == sessions[s]
    IN  /\ self.pc = "forward"
        /\ \E ran \in SUBSET {self.received} :
              CommandDone(s, [self EXCEPT !.executed = @ \cup ran,
                  !.audit = Append(@, Record(self.received, "Rejected", None)),
                  !.outbox = Append(@, Message("Error", None))])
        /\ UNCHANGED <<registrations, connections, read_from>>

\* What a target may answer: it runs the commands it accepts.
Replies(t) == [target_id: {t} \cup ReplyTargets, accepted: BOOLEAN, status: Statuses]

\* A completed command is followed by a refresh, of the target its result names.
NeedsRefresh(reply) ==
    reply.accepted /\ reply.status = "completed" /\ reply.target_id \in Registered

\* Mutant: only completed results are audited.
WithResultIfCompleted(self, reply) ==
    [self EXCEPT !.executed = IF reply.accepted THEN @ \cup {self.received} ELSE @,
                 !.audit = IF reply.status = "completed"
                           THEN Append(@, Record(self.received, "Completed", reply.status))
                           ELSE @,
                 !.outbox = Append(@, Message("CommandResult", reply.target_id))]

\* record_completed and the CommandResult, whatever the target answered.
WithResult(self, reply) ==
    [self EXCEPT !.executed = IF reply.accepted THEN @ \cup {self.received} ELSE @,
                 !.audit = Append(@, Record(self.received, "Completed", reply.status)),
                 !.outbox = Append(@, Message("CommandResult", reply.target_id))]

ForwardSucceeds(s) ==
    LET self == sessions[s]
    IN  /\ self.pc = "forward"
        /\ \E reply \in Replies(self.target) :
              IF NeedsRefresh(reply)
              THEN /\ Goto(s, [WithResult(self, reply) EXCEPT !.pc = "refresh",
                           !.target = reply.target_id,
                           !.path = registrations[reply.target_id].ipc_path])
                   /\ UNCHANGED lock
              ELSE CommandDone(s, WithResult(self, reply))
        /\ UNCHANGED <<registrations, connections, read_from>>

\* refresh_target_state_after_command
RefreshRead(s) ==
    LET self == sessions[s]
    IN  /\ self.pc = "refresh"
        /\ \E generation \in Generations : MarkConnected(self.target, generation, self.at)
        /\ read_from' = [read_from EXCEPT ![self.target] = self.path]
        /\ CommandDone(s, [self EXCEPT !.outbox = Append(@, Message("State", self.target))])

\* Mutant: the dashboard is not told.
RefreshFailsSilently(s) ==
    LET self == sessions[s]
    IN  /\ self.pc = "refresh"
        /\ MarkUnavailable(self.target, "ipc_failed", self.at)
        /\ CommandDone(s, self)
        /\ UNCHANGED read_from

\* Mutant: the dashboard is told of the target it commanded.
RefreshFailsOfCommanded(s) ==
    LET self == sessions[s]
        t == self.command.target_id
    IN  /\ self.pc = "refresh"
        /\ MarkUnavailable(self.target, "ipc_failed", self.at)
        /\ CommandDone(s, [self EXCEPT !.outbox = Append(@, Message("ConnectionState", t))])
        /\ UNCHANGED read_from

\* accept_connection_state tells the dashboard, if the target is bound.
RefreshFails(s) ==
    LET self == sessions[s]
    IN  /\ self.pc = "refresh"
        /\ MarkUnavailable(self.target, "ipc_failed", self.at)
        /\ CommandDone(s, IF self.target \in self.bound
                          THEN [self EXCEPT !.outbox =
                                   Append(@, Message("ConnectionState", self.target))]
                          ELSE self)
        /\ UNCHANGED read_from

-----------------------------------------------------------------------------
(* All steps of a session.                                                 *)

\* Steps that wait for the mutex.
Acquire(s) ==
    \/ PublishTargetList(s)
    \/ SelectTargets(s)
    \/ BindBegin(s)
    \/ BindSkipped(s)
    \/ CommandRefused(s)
    \/ CommandAccepted(s)

\* Steps that wait for a target: each exchange is answered or fails.
Exchange(s) ==
    \/ StateRead(s)
    \/ StateFails(s)
    \/ Subscribed(s)
    \/ SubscribeFails(s)
    \/ ForwardFails(s)
    \/ ForwardSucceeds(s)
    \/ RefreshRead(s)
    \/ RefreshFails(s)

\* Steps that wait for the client.
Converse(s) ==
    \/ Open(s)
    \/ Flush(s)
    \/ HelloAccepted(s)
    \/ End(s)
    \/ ReceiveCommand(s)
    \/ ReceiveOther(s)

SessionNext(s) == Acquire(s) \/ Exchange(s) \/ Converse(s)

-----------------------------------------------------------------------------
(* Properties.                                                             *)

History(s) == sessions[s].wire \o sessions[s].outbox

\* The locals of a session are those of its program counter, and the mutex is
\* held over IPC by the one session that is in it (type invariant).
SessionTypeOK ==
    /\ lock \in Sessions \cup {None}
    /\ \A t \in Targets : read_from[t] \in Paths \cup {None}
    /\ \A s \in Sessions :
          LET self == sessions[s]
          IN  /\ self.pc \in Talking \cup Acquiring \cup InIpc
              /\ self.established <=> self.pc \notin {"closed", "greet", "hello"}
              /\ self.bound \subseteq Targets /\ self.todo \subseteq Targets
              /\ self.pc \in InIpc <=> lock = s
              /\ self.pc \in InIpc <=> self.target \in Targets
              /\ self.pc \in {"command", "forward", "refresh"} <=> self.command # None

\* While a target is asked something, the registration it is asked under is the
\* one in force: same socket, and for a command a declared, bound, confirmed
\* one, although the registration was cloned before the exchange and other
\* sessions, registrants and time go on (the mutex held across bind_target and
\* handle_command).
IpcMatchesRegistration ==
    \A s \in Sessions :
        LET self == sessions[s]
        IN  /\ self.pc \in InIpc =>
                  /\ self.target \in Registered
                  /\ registrations[self.target].ipc_path = self.path
            /\ self.pc = "forward" =>
                  /\ self.target \in self.bound
                  /\ ensure_command_supported(self.target, self.command.command)
                  /\ MayPrepare(self.command)

\* A target shown as connected was last read through the socket it is now
\* registered at, whoever read it: no session marks an abandoned socket
\* connected (bind_target, refresh_target_state_after_command and the path
\* change of upsert_existing_registration).
StateReadsAreCurrent ==
    \A t \in Registered :
        connections[t].state = "Connected" =>
            /\ read_from[t] # None
            /\ KeyOf[read_from[t]] = registrations[t].ipc_path_key

\* A target is shown as connecting only while a session really waits for its
\* state: every outcome of bind_target leaves another state behind.
NoStuckConnecting ==
    \A t \in Registered :
        connections[t].state = "Connecting" =>
            \E s \in Sessions : sessions[s].pc = "state" /\ sessions[s].target = t

\* Every command a target ran was audited as accepted before it was sent, and
\* every acceptance got its outcome, once, before the session goes on: lost
\* answers and refused forwards included (audit of handle_command).
ForwardingAudited ==
    \A s \in Sessions :
        LET self == sessions[s]
            Indices(id, result) == {i \in DOMAIN self.audit :
                                       self.audit[i].id = id /\ self.audit[i].result = result}
            Outcomes(id) == Indices(id, "Rejected") \cup Indices(id, "Completed")
            Pending(id) == self.pc = "forward" /\ id = self.received
        IN  /\ \A id \in self.executed : Indices(id, "Accepted") # {}
            /\ \A i \in DOMAIN self.audit :
                  LET id == self.audit[i].id
                  IN  /\ \E a \in Indices(id, "Accepted") : a <= i
                      /\ \A o, q \in Outcomes(id) : o = q
                      /\ Outcomes(id) = {} <=> Pending(id)

\* What a dashboard receives is in order: server_hello and the target list come
\* first and once, and no target is bound, or answers a command, before its
\* state is queued (server_hello, publish_target_list, bind_target,
\* handle_command).
DashboardOrder ==
    \A s \in Sessions :
        LET history == History(s)
            At(type, about) == {i \in DOMAIN history : history[i] = Message(type, about)}
        IN  /\ sessions[s].pc # "closed" => history[1] = Message("ServerHello", None)
            /\ \A i \in DOMAIN history : history[i].type = "TargetList" <=> i = 2
            /\ \A t \in sessions[s].bound : At("State", t) # {}
            /\ \A t \in sessions[s].bound, i \in DOMAIN history :
                  history[i] = Message("CommandResult", t) => \E k \in At("State", t) : k < i

\* The last a dashboard heard of a target's connection is of this type.
HeardLast(s, t, type) ==
    LET history == History(s)
    IN  \E i \in DOMAIN history :
            /\ history[i] = Message(type, t)
            /\ \A k \in DOMAIN history :
                  history[k] \in {Message("State", t), Message("ConnectionState", t)} => k <= i

\* ... and fits what the registry says: its state if connected, its loss if not.
UpToDate(s, t) ==
    /\ connections[t].state = "Connected" => HeardLast(s, t, "State")
    /\ connections[t].state = "Unavailable" => HeardLast(s, t, "ConnectionState")

\* What a dashboard was told of a target it bound goes out of date only while
\* another session holds the registry over IPC: a session tells its dashboard of
\* every change it makes itself, whatever target an answer names and however a
\* read fails, and registrations change nothing that a dashboard is told
\* (bind_target, handle_command, refresh_target_state_after_command).  The
\* dashboards of other sessions are not told.
OutdatedByOthersOnly ==
    [][\A s \in Sessions : \A t \in sessions'[s].bound :
          \/ UpToDate(s, t)'
          \/ t \in sessions[s].bound /\ ~UpToDate(s, t)
          \/ lock \in Sessions \ {s}]_<<connections, sessions>>

\* Every way out of a binding leaves the registry and the dashboard with one
\* account of it: bound, connected, and its state queued; or not bound,
\* unavailable, and nothing queued, also when the target had answered and counted
\* as connected before a subscription failed (bind_target).
BindingsSettle ==
    [][\A s \in Sessions :
          /\ sessions[s].pc \in {"state", "subscribe"}
          /\ sessions'[s].pc \notin {"state", "subscribe"}
          => LET t == sessions[s].target
                 outbox == sessions[s].outbox
             IN  IF t \in sessions'[s].bound
                 THEN /\ connections'[t].state = "Connected"
                      /\ sessions'[s].outbox = Append(outbox, Message("State", t))
                 ELSE /\ connections'[t].state = "Unavailable"
                      /\ sessions'[s].outbox = outbox]_<<connections, sessions>>
=============================================================================
