----------------------------- MODULE RelayProofs -----------------------------
(***************************************************************************)
(* Theorems about the relay, for any number of targets, sessions, commands *)
(* and messages: what a session asks a target fits the registry, although  *)
(* registrants, other sessions and time go on, and every step of the relay *)
(* is one that ControlContract allows.                                     *)
(***************************************************************************)
EXTENDS Relay, RegistryProofs

-----------------------------------------------------------------------------
(* The inductive invariant.                                                *)

Messages ==
    [type: {"ServerHello", "TargetList", "State", "CommandResult", "ConnectionState", "Error"},
     about: Targets \cup {None} \cup SUBSET Targets]

AuditRecords ==
    [id: Nat, result: {"Accepted", "Rejected", "Completed"}, detail: Statuses \cup {None}]

SessionRecords ==
    [pc: Talking \cup Acquiring \cup InIpc, established: BOOLEAN,
     bound: SUBSET Targets, todo: SUBSET Targets, target: Targets \cup {None},
     path: AllowedPaths \cup {None}, at: Nat, command: ClientCommands \cup {None},
     received: Nat, outbox: Seq(Messages), wire: Seq(Messages),
     audit: Seq(AuditRecords), executed: SUBSET Nat]

\* A session's locals are those of its program counter.
WellFormed(self) ==
    /\ self \in SessionRecords
    /\ self.established <=> self.pc \notin {"closed", "greet", "hello"}
    /\ self.pc \in InIpc <=> self.target \in Targets
    /\ self.pc \in {"command", "forward", "refresh"} <=> self.command # None

\* What a session asks a target is asked under the registration in force.
InForce(self) ==
    /\ self.pc \in InIpc =>
          /\ self.target \in Registered
          /\ registrations[self.target].ipc_path = self.path
    /\ self.pc = "forward" =>
          /\ self.target \in self.bound
          /\ ensure_command_supported(self.target, self.command.command)
          /\ MayPrepare(self.command)

SessionsInv ==
    /\ DOMAIN sessions = Sessions
    /\ \A s \in Sessions : WellFormed(sessions[s]) /\ InForce(sessions[s])
    /\ lock \in Sessions \cup {None}
    /\ \A s \in Sessions : sessions[s].pc \in InIpc <=> lock = s
    /\ read_from \in [Targets -> AllowedPaths \cup {None}]

LoopRecords ==
    [pc: LoopPcs, request: Requests \cup {None}, owner: Owners \cup {None},
     received_at: Nat \cup {None}, accepted: BOOLEAN]

\* The owner is known from the time of accepting, the answer not before it is given.
LoopInv ==
    /\ loop \in LoopRecords
    /\ loop.pc # "ack" => ~loop.accepted
    /\ loop.pc \in {"read", "lock", "ack"} => loop.owner # None
    /\ loop.pc \in {"lock", "ack"} => loop.request # None /\ loop.received_at \in 0 .. clock

RelayInv ==
    /\ SocketInv
    /\ LoopInv
    /\ SessionsInv
    /\ StateReadsAreCurrent
    /\ NoStuckConnecting

-----------------------------------------------------------------------------
(* The effect of the steps of a session.                                   *)

\* A step that neither needs nor touches the registry's contents.
Quiet(s, next) ==
    /\ Goto(s, next)
    /\ WellFormed(next)
    /\ sessions[s].pc \notin InIpc /\ next.pc \notin InIpc
    /\ next.audit \in {sessions[s].audit, <<>>}
    /\ UNCHANGED <<sharedVars, read_from>>

LEMMA ConverseIsQuiet ==
    ASSUME SessionsInv, NEW s \in Sessions, Converse(s)
    PROVE  \E next : Quiet(s, next)
<1> DEFINE self == sessions[s]
<1> USE DEF Talking, Acquiring, InIpc
<1>w. WellFormed(self)
  BY Zenon DEF SessionsInv
<1>n. None \notin Targets
  BY NoneAssumption
<1>m. /\ Message("ServerHello", None) \in Messages
      /\ Message("Error", None) \in Messages
  BY DEF Message, Messages
<1>c. /\ WellFormed(Closed)
      /\ Closed.audit = <<>> /\ Closed.pc = "closed"
      /\ Closed.established = FALSE /\ Closed.target = None /\ Closed.command = None
  BY <1>n DEF WellFormed, Closed, SessionRecords
<1>1. CASE Open(s)
  <2> DEFINE outbox == <<Message("ServerHello", None)>>
             next == [Closed EXCEPT !.pc = "greet", !.outbox = outbox]
  <2>0. outbox \in Seq(Messages)
    BY <1>m
  <2> HIDE DEF outbox
  <2>1. WellFormed(next) /\ next.pc = "greet" /\ next.audit = <<>>
    BY <1>c, <2>0 DEF WellFormed, SessionRecords
  <2> QED
    BY <1>1, <2>1 DEF Open, Quiet, outbox
<1>2. CASE Flush(s)
  <2> DEFINE wire == self.wire \o self.outbox
             pc == IF self.pc = "greet" THEN "hello" ELSE "wait"
             sent == <<>>
             next == [self EXCEPT !.wire = wire, !.outbox = sent, !.pc = pc]
  <2>0. self.pc \in {"greet", "flush"}
    BY <1>2, Zenon DEF Flush
  <2>1. Goto(s, next)
    BY <1>2, Zenon DEF Flush
  <2>2. wire \in Seq(Messages) /\ sent \in Seq(Messages)
    BY <1>w DEF WellFormed, SessionRecords
  <2>p. pc \in {"hello", "wait"} /\ (pc = "hello" <=> self.pc = "greet")
    OBVIOUS
  <2> HIDE DEF wire, pc, sent
  <2>3. WellFormed(next) /\ next.pc \in {"hello", "wait"} /\ next.audit = self.audit
    BY <2>0, <2>2, <2>p, <1>w DEF WellFormed, SessionRecords
  <2> QED
    BY <1>2, <2>0, <2>1, <2>3 DEF Flush, Quiet
<1>3. CASE HelloAccepted(s)
  <2> DEFINE next == [self EXCEPT !.pc = "list", !.established = TRUE]
  <2>1. WellFormed(next) /\ next.pc = "list" /\ next.audit = self.audit
    BY <1>3, <1>w DEF HelloAccepted, WellFormed, SessionRecords
  <2> QED
    BY <1>3, <2>1 DEF HelloAccepted, Quiet
<1>4. CASE End(s)
  BY <1>4, <1>c DEF End, Quiet
<1>5. CASE ReceiveCommand(s)
  <2>1. PICK c \in ClientCommands :
           Goto(s, [self EXCEPT !.pc = "command", !.command = c, !.received = @ + 1])
    BY <1>5, Zenon DEF ReceiveCommand
  <2> DEFINE received == self.received + 1
             next == [self EXCEPT !.pc = "command", !.command = c, !.received = received]
  <2>2. c # None /\ received \in Nat
    BY <1>w, CommandAssumption DEF WellFormed, SessionRecords
  <2>p. self.pc = "wait"
    BY <1>5 DEF ReceiveCommand
  <2> HIDE DEF received
  <2>3. WellFormed(next) /\ next.pc = "command" /\ next.audit = self.audit
    BY <1>w, <2>2, <2>p DEF WellFormed, SessionRecords
  <2> QED
    BY <1>5, <2>1, <2>3 DEF ReceiveCommand, Quiet, received
<1>6. CASE ReceiveOther(s)
  <2> DEFINE received == self.received + 1
             outbox == Append(self.outbox, Message("Error", None))
             next == [self EXCEPT !.pc = "flush", !.received = received, !.outbox = outbox]
  <2>2. received \in Nat /\ outbox \in Seq(Messages)
    BY <1>w, <1>m DEF WellFormed, SessionRecords
  <2>p. self.pc = "wait"
    BY <1>6 DEF ReceiveOther
  <2> HIDE DEF received, outbox
  <2>1. WellFormed(next) /\ next.pc = "flush" /\ next.audit = self.audit
    BY <1>w, <2>2, <2>p DEF WellFormed, SessionRecords
  <2> QED
    BY <1>6, <2>1 DEF ReceiveOther, Quiet, received, outbox
<1> QED
  BY <1>1, <1>2, <1>3, <1>4, <1>5, <1>6 DEF Converse

\* Reading the active targets, skipping one and refusing a command.
LEMMA AcquireIsQuiet ==
    ASSUME SessionsInv, RegistryTypeOK, NEW s \in Sessions,
           PublishTargetList(s) \/ SelectTargets(s) \/ BindSkipped(s) \/ CommandRefused(s)
    PROVE  \E next : Quiet(s, next)
<1> DEFINE self == sessions[s]
<1> USE DEF Talking, Acquiring, InIpc
<1>w. WellFormed(self)
  BY Zenon DEF SessionsInv
<1>n. None \notin Targets
  BY NoneAssumption
<1>a. active_targets(clock) \subseteq Targets
  BY DEF active_targets, RegistryTypeOK
<1>m. /\ Message("TargetList", active_targets(clock)) \in Messages
      /\ Message("Error", None) \in Messages
  BY <1>a DEF Message, Messages
<1>1. CASE PublishTargetList(s)
  <2> DEFINE outbox == Append(self.outbox, Message("TargetList", active_targets(clock)))
             next == [self EXCEPT !.pc = "select", !.outbox = outbox]
  <2>1. self.pc = "list" /\ Goto(s, next) /\ UNCHANGED <<sharedVars, read_from>>
    BY <1>1, Zenon DEF PublishTargetList
  <2>2. outbox \in Seq(Messages)
    BY <1>w, <1>m DEF WellFormed, SessionRecords
  <2>p. self.pc = "list"
    BY <2>1
  <2> HIDE DEF outbox
  <2>3. WellFormed(next) /\ next.pc = "select" /\ next.audit = self.audit
    BY <1>w, <2>2, <2>p DEF WellFormed, SessionRecords
  <2> QED
    BY <2>1, <2>3 DEF Quiet
<1>2. CASE SelectTargets(s)
  <2> DEFINE todo == active_targets(clock)
             pc == AfterBinding(todo)
             next == [self EXCEPT !.pc = pc, !.todo = todo]
  <2>1. self.pc = "select" /\ Goto(s, next) /\ UNCHANGED <<sharedVars, read_from>>
    BY <1>2, Zenon DEF SelectTargets
  <2>2. pc \in {"flush", "bind"}
    BY DEF AfterBinding
  <2>p. self.pc = "select"
    BY <2>1
  <2> HIDE DEF pc, todo
  <2>3. WellFormed(next) /\ next.pc = pc /\ next.audit = self.audit
    BY <1>w, <1>a, <2>2, <2>p DEF WellFormed, SessionRecords, todo
  <2> QED
    BY <2>1, <2>2, <2>3 DEF Quiet
<1>3. CASE BindSkipped(s)
  <2>0. PICK t \in self.todo :
           Goto(s, [self EXCEPT !.pc = AfterBinding(self.todo \ {t}), !.todo = @ \ {t}])
    BY <1>3, Zenon DEF BindSkipped
  <2> DEFINE todo == self.todo \ {t}
             pc == AfterBinding(todo)
             next == [self EXCEPT !.pc = pc, !.todo = todo]
  <2>1. self.pc = "bind" /\ Goto(s, next) /\ UNCHANGED <<sharedVars, read_from>>
    BY <1>3, <2>0, Zenon DEF BindSkipped
  <2>2. pc \in {"flush", "bind"}
    BY DEF AfterBinding
  <2>4. todo \subseteq Targets
    BY <1>w DEF WellFormed, SessionRecords
  <2>p. self.pc = "bind"
    BY <2>1
  <2> HIDE DEF pc, todo
  <2>3. WellFormed(next) /\ next.pc = pc /\ next.audit = self.audit
    BY <1>w, <2>2, <2>4, <2>p DEF WellFormed, SessionRecords
  <2> QED
    BY <2>1, <2>2, <2>3 DEF Quiet
<1>4. CASE CommandRefused(s)
  <2> DEFINE outbox == Append(self.outbox, Message("Error", None))
             next == [self EXCEPT !.pc = "flush", !.command = None, !.outbox = outbox]
  <2>1. self.pc = "command" /\ Goto(s, next) /\ UNCHANGED <<sharedVars, read_from>>
    BY <1>4, Zenon DEF CommandRefused
  <2>2. outbox \in Seq(Messages)
    BY <1>w, <1>m DEF WellFormed, SessionRecords
  <2>p. self.pc = "command"
    BY <2>1
  <2> HIDE DEF outbox
  <2>3. WellFormed(next) /\ next.pc = "flush" /\ next.audit = self.audit
    BY <1>w, <2>2, <2>p DEF WellFormed, SessionRecords
  <2> QED
    BY <2>1, <2>3 DEF Quiet
<1> QED
  BY <1>1, <1>2, <1>3, <1>4

\* A step that takes the mutex, works under it or gives it back.  What the session
\* then asks is asked under the registration in force.
Held(s, next) ==
    /\ Goto(s, next)
    /\ WellFormed(next)
    /\ InForce(next)
    /\ lock \in {None, s}
    /\ lock' = IF next.pc \in InIpc THEN s ELSE None
    /\ UNCHANGED registrations

LEMMA BindBeginEffect ==
    ASSUME SessionsInv, SocketInv, NEW s \in Sessions, BindBegin(s)
    PROVE  \E next : /\ Held(s, next)
                     /\ next.pc = "state" /\ next.audit = sessions[s].audit
                     /\ BeginBinding(next.target, next.at)
                     /\ lock = None /\ UNCHANGED read_from
<1> DEFINE self == sessions[s]
<1> USE DEF Talking, Acquiring, InIpc
<1>w. WellFormed(self)
  BY Zenon DEF SessionsInv
<1>1. PICK t \in self.todo :
         /\ t \in active_targets(clock)
         /\ BeginBinding(t, clock)
         /\ Goto(s, [self EXCEPT !.pc = "state", !.target = t, !.at = clock,
                                 !.path = registrations[t].ipc_path])
  BY Zenon DEF BindBegin
<1> DEFINE path == registrations[t].ipc_path
           next == [self EXCEPT !.pc = "state", !.target = t, !.at = clock, !.path = path]
<1>2. Goto(s, next)
  BY <1>1, Zenon
<1>3. t \in Registered
  BY <1>1 DEF active_targets
<1>4. t \in Targets /\ path \in AllowedPaths /\ clock \in Nat
  BY <1>3 DEF SocketInv, RegistryTypeOK, RegistrationRecords
<1>5. self.pc = "bind" /\ lock = None /\ lock' = s /\ UNCHANGED read_from
  BY Zenon DEF BindBegin, Unlocked
<1>6. UNCHANGED registrations
  BY <1>1 DEF BeginBinding, UpdateConnection
<1>p. self.pc = "bind"
  BY <1>5
<1> HIDE DEF path
<1>7. /\ WellFormed(next)
      /\ next.pc = "state" /\ next.target = t /\ next.path = path /\ next.at = clock
      /\ next.audit = self.audit
  BY <1>w, <1>4, <1>p DEF WellFormed, SessionRecords
<1>8. InForce(next)
  BY <1>3, <1>7 DEF InForce, path
<1> HIDE DEF next
<1> QED
  BY <1>1, <1>2, <1>5, <1>6, <1>7, <1>8 DEF Held

LEMMA CommandAcceptedEffect ==
    ASSUME SessionsInv, SocketInv, NEW s \in Sessions, CommandAccepted(s)
    PROVE  \E next : /\ Held(s, next)
                     /\ next.pc = "forward"
                     /\ \E id \in Nat : next.audit =
                            Append(sessions[s].audit, Record(id, "Accepted", None))
                     /\ lock = None /\ UNCHANGED <<connections, read_from>>
<1> DEFINE self == sessions[s]
           t == self.command.target_id
           path == registrations[t].ipc_path
           audit == Append(self.audit, Record(self.received, "Accepted", None))
           next == [self EXCEPT !.pc = "forward", !.target = t, !.at = clock,
                                !.path = path, !.audit = audit]
<1> USE DEF Talking, Acquiring, InIpc
<1>w. WellFormed(self)
  BY Zenon DEF SessionsInv
<1>1. /\ self.pc = "command" /\ lock = None /\ lock' = s
      /\ Goto(s, next) /\ UNCHANGED <<registrations, connections, read_from>>
  BY Zenon DEF CommandAccepted, Unlocked
<1>2. /\ t \in self.bound
      /\ t \in active_targets(clock)
      /\ ensure_command_supported(t, self.command.command)
      /\ MayPrepare(self.command)
  BY Zenon DEF CommandAccepted, Forwardable, ensure_target_active
<1>3. t \in Registered
  BY <1>2 DEF active_targets
<1>4. t \in Targets /\ path \in AllowedPaths /\ clock \in Nat
  BY <1>3 DEF SocketInv, RegistryTypeOK, RegistrationRecords
<1>5. self.received \in Nat /\ audit \in Seq(AuditRecords)
  BY <1>w DEF WellFormed, SessionRecords, AuditRecords, Record
<1>p. self.pc = "command"
  BY <1>1
<1> HIDE DEF path, audit, t
<1>7. /\ WellFormed(next)
      /\ next.pc = "forward" /\ next.target = t /\ next.path = path
      /\ next.audit = audit /\ next.bound = self.bound /\ next.command = self.command
  BY <1>w, <1>4, <1>5, <1>p DEF WellFormed, SessionRecords
<1>8. InForce(next)
  BY <1>2, <1>3, <1>7 DEF InForce, path
<1> HIDE DEF next
<1> QED
  BY <1>1, <1>5, <1>7, <1>8 DEF Held, audit

LEMMA StateReadEffect ==
    ASSUME SessionsInv, NEW s \in Sessions, StateRead(s)
    PROVE  \E next : /\ Held(s, next)
                     /\ next = [sessions[s] EXCEPT !.pc = "subscribe"]
                     /\ sessions[s].pc = "state" /\ next.pc = "subscribe"
                     /\ next.target = sessions[s].target /\ next.path = sessions[s].path
                     /\ next.audit = sessions[s].audit
                     /\ lock = s /\ UNCHANGED lock
<1> DEFINE self == sessions[s]
           next == [self EXCEPT !.pc = "subscribe"]
<1> USE DEF Talking, Acquiring, InIpc
<1>w. WellFormed(self) /\ InForce(self) /\ (self.pc \in InIpc <=> lock = s)
  BY Zenon DEF SessionsInv
<1>1. self.pc = "state" /\ Goto(s, next) /\ UNCHANGED lock
  BY Zenon DEF StateRead
<1>2. UNCHANGED registrations
  BY DEF StateRead, MarkConnected, UpdateConnection
<1>3. lock = s
  BY <1>w, <1>1
<1>p. self.pc = "state"
  BY <1>1
<1>7. /\ WellFormed(next)
      /\ next.pc = "subscribe" /\ next.target = self.target /\ next.path = self.path
      /\ next.audit = self.audit
  BY <1>w, <1>p DEF WellFormed, SessionRecords
<1>8. InForce(next)
  BY <1>w, <1>7, <1>p DEF InForce
<1> QED
  BY <1>1, <1>2, <1>3, <1>7, <1>8 DEF Held

\* How a binding ends, whatever was queued.
LEMMA BindingDoneEffect ==
    ASSUME NEW s \in Sessions, NEW locals \in SessionRecords, locals.established,
           locals.command = None, BindingDone(s, locals), lock = s, UNCHANGED registrations
    PROVE  \E next : /\ Held(s, next)
                     /\ next.pc \in {"flush", "bind"} /\ next.audit = locals.audit
<1> DEFINE todo == locals.todo \ {locals.target}
           pc == AfterBinding(todo)
           next == [locals EXCEPT !.pc = pc, !.todo = todo,
                                  !.target = None, !.path = None, !.at = 0]
<1> USE DEF Talking, Acquiring, InIpc
<1>1. Goto(s, next) /\ lock' = None
  BY Zenon DEF BindingDone
<1>2. pc \in {"flush", "bind"}
  BY DEF AfterBinding
<1>3. todo \subseteq Targets
  BY DEF SessionRecords
<1>n. None \notin Targets
  BY NoneAssumption
<1> HIDE DEF pc, todo
<1>4. WellFormed(next) /\ next.pc = pc /\ next.audit = locals.audit
  BY <1>2, <1>3, <1>n DEF WellFormed, SessionRecords
<1>5. InForce(next)
  BY <1>2, <1>4 DEF InForce
<1> HIDE DEF next
<1> QED
  BY <1>1, <1>2, <1>4, <1>5 DEF Held

\* How a command ends, whatever was queued and audited.
LEMMA CommandDoneEffect ==
    ASSUME NEW s \in Sessions, NEW locals \in SessionRecords, locals.established,
           CommandDone(s, locals), lock = s, UNCHANGED registrations
    PROVE  \E next : /\ Held(s, next)
                     /\ next.pc = "flush" /\ next.audit = locals.audit
<1> DEFINE next == [locals EXCEPT !.pc = "flush", !.command = None,
                                  !.target = None, !.path = None, !.at = 0]
<1> USE DEF Talking, Acquiring, InIpc
<1>1. Goto(s, next) /\ lock' = None
  BY Zenon DEF CommandDone
<1>n. None \notin Targets
  BY NoneAssumption
<1>4. WellFormed(next) /\ next.pc = "flush" /\ next.audit = locals.audit
  BY <1>n DEF WellFormed, SessionRecords
<1>5. InForce(next)
  BY <1>4 DEF InForce
<1> HIDE DEF next
<1> QED
  BY <1>1, <1>4, <1>5 DEF Held

\* The exchanges that end a binding.
LEMMA BindingExchanges ==
    ASSUME SessionsInv, NEW s \in Sessions, StateFails(s) \/ Subscribed(s) \/ SubscribeFails(s)
    PROVE  \E next : /\ Held(s, next)
                     /\ sessions[s].pc \in {"state", "subscribe"} /\ lock = s
                     /\ next.pc \in {"flush", "bind"}
                     /\ next.audit = sessions[s].audit
                     /\ UNCHANGED read_from
<1> DEFINE self == sessions[s]
<1> USE DEF Talking, Acquiring, InIpc
<1>w. WellFormed(self) /\ InForce(self) /\ (self.pc \in InIpc <=> lock = s)
  BY Zenon DEF SessionsInv
<1>1. self.pc \in {"state", "subscribe"} /\ UNCHANGED <<registrations, read_from>>
  BY DEF StateFails, Subscribed, SubscribeFails, MarkUnavailable, UpdateConnection
<1>2. self \in SessionRecords /\ self.established /\ self.command = None /\ lock = s
  BY <1>w, <1>1 DEF WellFormed
<1>3. CASE BindingDone(s, self)
  BY <1>1, <1>2, <1>3, BindingDoneEffect
<1>4. CASE Subscribed(s)
  <2> DEFINE bound == self.bound \cup {self.target}
             outbox == Append(self.outbox, Message("State", self.target))
             locals == [self EXCEPT !.bound = bound, !.outbox = outbox]
  <2>1. BindingDone(s, locals)
    BY <1>4, Zenon DEF Subscribed
  <2>2. self.target \in Targets
    BY <1>w, <1>1 DEF WellFormed
  <2>3. bound \subseteq Targets /\ outbox \in Seq(Messages)
    BY <1>2, <2>2 DEF SessionRecords, Messages, Message
  <2> HIDE DEF bound, outbox
  <2>4. locals \in SessionRecords /\ locals.established /\ locals.command = None
        /\ locals.audit = self.audit
    BY <1>2, <2>3 DEF SessionRecords
  <2> HIDE DEF locals
  <2> QED
    BY <1>1, <1>2, <2>1, <2>4, BindingDoneEffect
<1> QED
  BY <1>3, <1>4, Zenon DEF StateFails, SubscribeFails

\* A lost command.
LEMMA ForwardFailsEffect ==
    ASSUME SessionsInv, NEW s \in Sessions, ForwardFails(s)
    PROVE  \E next : /\ Held(s, next)
                     /\ sessions[s].pc = "forward" /\ lock = s /\ next.pc = "flush"
                     /\ \E id \in Nat : next.audit =
                            Append(sessions[s].audit, Record(id, "Rejected", None))
                     /\ UNCHANGED <<connections, read_from>>
<1> DEFINE self == sessions[s]
<1> USE DEF Talking, Acquiring, InIpc
<1>w. WellFormed(self) /\ InForce(self) /\ (self.pc \in InIpc <=> lock = s)
  BY Zenon DEF SessionsInv
<1>1. self.pc = "forward" /\ UNCHANGED <<registrations, connections, read_from>>
  BY Zenon DEF ForwardFails
<1>2. self \in SessionRecords /\ self.established /\ lock = s
  BY <1>w, <1>1 DEF WellFormed
<1>3. PICK ran \in SUBSET {self.received} :
         CommandDone(s, [self EXCEPT !.executed = @ \cup ran,
                  !.audit = Append(@, Record(self.received, "Rejected", None)),
                  !.outbox = Append(@, Message("Error", None))])
  BY Zenon DEF ForwardFails
<1> DEFINE executed == self.executed \cup ran
           audit == Append(self.audit, Record(self.received, "Rejected", None))
           outbox == Append(self.outbox, Message("Error", None))
           locals == [self EXCEPT !.executed = executed, !.audit = audit, !.outbox = outbox]
<1>4. CommandDone(s, locals)
  BY <1>3, Zenon
<1>5. self.received \in Nat /\ executed \subseteq Nat
  BY <1>2 DEF SessionRecords
<1>6. audit \in Seq(AuditRecords) /\ outbox \in Seq(Messages)
  BY <1>2 DEF SessionRecords, AuditRecords, Record, Messages, Message
<1> HIDE DEF executed, audit, outbox
<1>7. locals \in SessionRecords /\ locals.established /\ locals.audit = audit
  BY <1>2, <1>5, <1>6 DEF SessionRecords
<1> HIDE DEF locals
<1> QED
  BY <1>1, <1>2, <1>4, <1>5, <1>7, CommandDoneEffect DEF audit

\* An answered command.
LEMMA WithResultRecord ==
    ASSUME NEW self \in SessionRecords, NEW t \in Targets, NEW reply \in Replies(t)
    PROVE  LET locals == WithResult(self, reply)
           IN  /\ locals \in SessionRecords
               /\ locals.established = self.established
               /\ \E id \in Nat, detail \in Statuses :
                      locals.audit = Append(self.audit, Record(id, "Completed", detail))
<1> DEFINE executed == IF reply.accepted THEN self.executed \cup {self.received}
                       ELSE self.executed
           audit == Append(self.audit, Record(self.received, "Completed", reply.status))
           outbox == Append(self.outbox, Message("CommandResult", reply.target_id))
           locals == [self EXCEPT !.executed = executed, !.audit = audit, !.outbox = outbox]
<1>1. self.received \in Nat /\ executed \subseteq Nat
  BY DEF SessionRecords
<1>2. reply.status \in Statuses /\ reply.target_id \in Targets \cup {None}
  BY CommandAssumption DEF Replies
<1>3. audit \in Seq(AuditRecords) /\ outbox \in Seq(Messages)
  BY <1>2 DEF SessionRecords, AuditRecords, Record, Messages, Message
<1>4. locals = WithResult(self, reply)
  BY Zenon DEF WithResult
<1> HIDE DEF executed, audit, outbox
<1>5. /\ locals \in SessionRecords /\ locals.established = self.established
      /\ locals.audit = audit
  BY <1>1, <1>3 DEF SessionRecords
<1> QED
  BY <1>1, <1>2, <1>4, <1>5, Zenon DEF audit

LEMMA ForwardSucceedsEffect ==
    ASSUME SessionsInv, SocketInv, NEW s \in Sessions, ForwardSucceeds(s)
    PROVE  \E next : /\ Held(s, next)
                     /\ sessions[s].pc = "forward" /\ lock = s
                     /\ next.pc \in {"flush", "refresh"}
                     /\ \E id \in Nat, detail \in Statuses : next.audit =
                            Append(sessions[s].audit, Record(id, "Completed", detail))
                     /\ UNCHANGED <<connections, read_from>>
<1> DEFINE self == sessions[s]
<1> USE DEF Talking, Acquiring, InIpc
<1>w. WellFormed(self) /\ InForce(self) /\ (self.pc \in InIpc <=> lock = s)
  BY Zenon DEF SessionsInv
<1>1. self.pc = "forward" /\ UNCHANGED <<registrations, connections, read_from>>
  BY Zenon DEF ForwardSucceeds
<1>2. self \in SessionRecords /\ self.established /\ lock = s /\ self.target \in Targets
  BY <1>w, <1>1 DEF WellFormed
<1>3. PICK reply \in Replies(self.target) :
         IF NeedsRefresh(reply)
         THEN /\ Goto(s, [WithResult(self, reply) EXCEPT !.pc = "refresh",
                      !.target = reply.target_id,
                      !.path = registrations[reply.target_id].ipc_path])
              /\ UNCHANGED lock
         ELSE CommandDone(s, WithResult(self, reply))
  BY Zenon DEF ForwardSucceeds
<1> DEFINE locals == WithResult(self, reply)
<1>4. /\ locals \in SessionRecords /\ locals.established
      /\ \E id \in Nat, detail \in Statuses :
             locals.audit = Append(self.audit, Record(id, "Completed", detail))
  BY <1>2, WithResultRecord
<1>5. CASE ~NeedsRefresh(reply)
  <2>1. CommandDone(s, locals)
    BY <1>3, <1>5, Zenon
  <2> HIDE DEF locals
  <2> QED
    BY <1>1, <1>2, <1>4, <2>1, CommandDoneEffect
<1>6. CASE NeedsRefresh(reply)
  <2> DEFINE t == reply.target_id
             path == registrations[t].ipc_path
             next == [locals EXCEPT !.pc = "refresh", !.target = t, !.path = path]
  <2>1. Goto(s, next) /\ UNCHANGED lock
    BY <1>3, <1>6, Zenon
  <2>2. t \in Registered
    BY <1>6 DEF NeedsRefresh
  <2>3. t \in Targets /\ path \in AllowedPaths
    BY <2>2 DEF SocketInv, RegistryTypeOK, RegistrationRecords
  <2>4. locals.command = self.command /\ self.command # None
    BY <1>w, <1>1 DEF WithResult, WellFormed, SessionRecords
  <2> HIDE DEF t, path, locals
  <2>5. /\ WellFormed(next)
        /\ next.pc = "refresh" /\ next.target = t /\ next.path = path
        /\ next.audit = locals.audit
    BY <1>4, <2>3, <2>4 DEF WellFormed, SessionRecords
  <2>6. InForce(next)
    BY <2>2, <2>5 DEF InForce, path
  <2> HIDE DEF next
  <2> QED
    BY <1>1, <1>2, <1>4, <2>1, <2>5, <2>6 DEF Held
<1> QED
  BY <1>5, <1>6

\* The two ends of a refresh.
LEMMA RefreshEffect ==
    ASSUME SessionsInv, NEW s \in Sessions, RefreshRead(s) \/ RefreshFails(s)
    PROVE  \E next : /\ Held(s, next)
                     /\ sessions[s].pc = "refresh" /\ lock = s /\ next.pc = "flush"
                     /\ next.audit = sessions[s].audit
<1> DEFINE self == sessions[s]
<1> USE DEF Talking, Acquiring, InIpc
<1>w. WellFormed(self) /\ InForce(self) /\ (self.pc \in InIpc <=> lock = s)
  BY Zenon DEF SessionsInv
<1>1. self.pc = "refresh" /\ UNCHANGED registrations
  BY DEF RefreshRead, RefreshFails, MarkConnected, MarkUnavailable, UpdateConnection
<1>2. self \in SessionRecords /\ self.established /\ lock = s /\ self.target \in Targets
  BY <1>w, <1>1 DEF WellFormed
<1>3. CASE CommandDone(s, self)
  BY <1>1, <1>2, <1>3, CommandDoneEffect
<1>4. ASSUME NEW type \in {"State", "ConnectionState"},
             CommandDone(s, [self EXCEPT !.outbox = Append(@, Message(type, self.target))])
      PROVE  \E next : Held(s, next) /\ next.pc = "flush" /\ next.audit = self.audit
  <2> DEFINE outbox == Append(self.outbox, Message(type, self.target))
             locals == [self EXCEPT !.outbox = outbox]
  <2>1. CommandDone(s, locals)
    BY <1>4, Zenon
  <2>2. outbox \in Seq(Messages)
    BY <1>2 DEF SessionRecords, Messages, Message
  <2> HIDE DEF outbox
  <2>3. locals \in SessionRecords /\ locals.established /\ locals.audit = self.audit
    BY <1>2, <2>2 DEF SessionRecords
  <2> HIDE DEF locals
  <2> QED
    BY <1>1, <1>2, <2>1, <2>3, CommandDoneEffect
<1>5. \/ CommandDone(s, self)
      \/ \E type \in {"State", "ConnectionState"} :
            CommandDone(s, [self EXCEPT !.outbox = Append(@, Message(type, self.target))])
  BY Zenon DEF RefreshRead, RefreshFails
<1> QED
  BY <1>1, <1>2, <1>3, <1>4, <1>5

\* Every step of a session is quiet or taken under the mutex.
LEMMA SessionStepKinds ==
    ASSUME SessionsInv, SocketInv, NEW s \in Sessions, SessionNext(s)
    PROVE  \E next : Quiet(s, next) \/ Held(s, next)
<1>1. CASE Converse(s)
  BY <1>1, ConverseIsQuiet
<1>2. CASE Acquire(s)
  BY <1>2, AcquireIsQuiet, BindBeginEffect, CommandAcceptedEffect DEF Acquire, SocketInv
<1>3. CASE Exchange(s)
  BY <1>3, StateReadEffect, BindingExchanges, ForwardFailsEffect, ForwardSucceedsEffect,
     RefreshEffect DEF Exchange
<1> QED
  BY <1>1, <1>2, <1>3 DEF SessionNext

\* What a step of a session does to the registry and the history of reads.
Calls(s) ==
    LET self == sessions[s]
    IN  \/ self.pc # "state" /\ UNCHANGED <<connections, read_from>>
        \/ /\ self.pc = "bind"
           /\ \E t \in Targets, now \in Nat : /\ BeginBinding(t, now)
                                            /\ sessions'[s].pc = "state"
                                            /\ sessions'[s].target = t
           /\ UNCHANGED read_from
        \/ /\ self.pc \in {"state", "refresh"}
           /\ \E generation \in Generations : MarkConnected(self.target, generation, self.at)
           /\ read_from' = [read_from EXCEPT ![self.target] = self.path]
        \/ /\ self.pc \in InIpc
           /\ MarkUnavailable(self.target, "ipc_failed", self.at)
           /\ UNCHANGED read_from

LEMMA SessionCalls ==
    ASSUME SessionsInv, SocketInv, NEW s \in Sessions, SessionNext(s)
    PROVE  Calls(s) /\ UNCHANGED registrations
<1> USE DEF InIpc
<1>0. UNCHANGED registrations
  BY SessionStepKinds, Zenon DEF Quiet, Held, sharedVars
<1>1. CASE BindBegin(s)
  <2>1. PICK next : /\ Held(s, next)
                    /\ next.pc = "state"
                    /\ BeginBinding(next.target, next.at) /\ UNCHANGED read_from
    BY <1>1, BindBeginEffect
  <2>2. next.target \in Targets /\ next.at \in Nat /\ sessions[s].pc = "bind"
    BY <1>1, <2>1 DEF Held, WellFormed, SessionRecords, BindBegin
  <2>3. sessions'[s] = next
    BY <2>1 DEF Held, Goto, SessionsInv
  <2> QED
    BY <1>0, <2>1, <2>2, <2>3 DEF Calls
<1>2. CASE Converse(s)
  BY <1>0, <1>2, Zenon DEF Converse, Open, Flush, HelloAccepted, End, ReceiveCommand, ReceiveOther,
     sharedVars, Calls, Talking
<1>3. CASE Acquire(s) /\ ~BindBegin(s)
  BY <1>0, <1>3, Zenon DEF Acquire, PublishTargetList, SelectTargets, BindSkipped, CommandRefused,
     CommandAccepted, sharedVars, Calls
<1>4. CASE Exchange(s)
  BY <1>0, <1>4, Zenon DEF Exchange, StateRead, StateFails, Subscribed, SubscribeFails, ForwardFails,
     ForwardSucceeds, RefreshRead, RefreshFails, Calls
<1> QED
  BY <1>1, <1>2, <1>3, <1>4 DEF SessionNext

-----------------------------------------------------------------------------
(* The invariant is kept.                                                  *)

LEMMA QuietKeepsSessions ==
    ASSUME SessionsInv, NEW s \in Sessions, NEW next, Quiet(s, next)
    PROVE  SessionsInv'
<1>1. /\ DOMAIN sessions' = Sessions /\ sessions'[s] = next
      /\ \A o \in Sessions \ {s} : sessions'[o] = sessions[o]
      /\ UNCHANGED <<registrations, lock, read_from>>
  BY DEF Quiet, Goto, SessionsInv, sharedVars
<1>2. ASSUME NEW o \in Sessions
      PROVE  /\ WellFormed(sessions[o])' /\ InForce(sessions[o])'
             /\ (sessions[o].pc \in InIpc)' <=> lock' = o
  <2>1. CASE o = s
    BY <1>1, <2>1 DEF Quiet, InForce, SessionsInv, InIpc
  <2>2. CASE o # s
    <3>1. sessions'[o] = sessions[o]
      BY <1>1, <2>2
    <3> QED
      BY <1>1, <3>1, Zenon DEF SessionsInv, InForce, Registered, ensure_command_supported
  <2> QED
    BY <2>1, <2>2
<1> QED
  BY <1>1, <1>2 DEF SessionsInv

\* The mutex keeps every other session out of an exchange.
LEMMA HeldKeepsSessions ==
    ASSUME SessionsInv, NEW s \in Sessions, NEW next, Held(s, next),
           read_from' \in [Targets -> AllowedPaths \cup {None}]
    PROVE  SessionsInv'
<1>1. /\ DOMAIN sessions' = Sessions /\ sessions'[s] = next
      /\ \A o \in Sessions \ {s} : sessions'[o] = sessions[o]
      /\ UNCHANGED registrations
      /\ lock' \in Sessions \cup {None}
  BY DEF Held, Goto, SessionsInv
<1>n. None \notin Sessions
  BY SessionsAssumption
<1>2. ASSUME NEW o \in Sessions
      PROVE  /\ WellFormed(sessions[o])' /\ InForce(sessions[o])'
             /\ (sessions[o].pc \in InIpc)' <=> lock' = o
  <2>1. CASE o = s
    <3>1. sessions'[o] = next
      BY <1>1, <2>1
    <3>2. InForce(next)'
      <4>1. InForce(next)
        BY Zenon DEF Held
      <4> QED
        BY <1>1, <4>1, <3>1, Zenon DEF InForce, Registered, ensure_command_supported
    <3> QED
      BY <1>n, <2>1, <3>1, <3>2 DEF Held
  <2>2. CASE o # s
    <3>1. sessions'[o] = sessions[o]
      BY <1>1, <2>2
    <3>2. /\ WellFormed(sessions[o])' /\ InForce(sessions[o])'
      BY <1>1, <3>1, Zenon DEF SessionsInv, InForce, Registered, ensure_command_supported
    <3>3. sessions[o].pc \notin InIpc /\ lock' # o
      BY <1>n, <2>2 DEF Held, SessionsInv
    <3> QED
      BY <3>1, <3>2, <3>3
  <2> QED
    BY <2>1, <2>2
<1> QED
  BY <1>1, <1>2 DEF SessionsInv

LEMMA SessionStepKeepsSessions ==
    ASSUME SessionsInv, SocketInv, NEW s \in Sessions, SessionNext(s)
    PROVE  SessionsInv'
<1>1. PICK next : Quiet(s, next) \/ Held(s, next)
  BY SessionStepKinds
<1>2. CASE Held(s, next)
  <2>1. WellFormed(sessions[s]) /\ read_from \in [Targets -> AllowedPaths \cup {None}]
    BY DEF SessionsInv
  <2>2. sessions[s].path \in AllowedPaths \cup {None}
    BY <2>1 DEF WellFormed, SessionRecords
  <2>3. \/ UNCHANGED read_from
        \/ read_from' = [read_from EXCEPT ![sessions[s].target] = sessions[s].path]
    BY SessionCalls, Zenon DEF Calls
  <2>4. read_from' \in [Targets -> AllowedPaths \cup {None}]
    BY <2>1, <2>2, <2>3
  <2> QED
    BY <1>2, <2>4, HeldKeepsSessions
<1> QED
  BY <1>1, <1>2, QuietKeepsSessions

\* No session marks a socket that is not the target's.
LEMMA SessionStepKeepsReads ==
    ASSUME SessionsInv, SocketInv, StateReadsAreCurrent, NEW s \in Sessions, SessionNext(s)
    PROVE  StateReadsAreCurrent'
<1> DEFINE self == sessions[s]
<1> SUFFICES ASSUME NEW t \in Registered', connections'[t].state = "Connected"
             PROVE  /\ read_from'[t] # None
                    /\ KeyOf[read_from'[t]] = registrations'[t].ipc_path_key
  BY DEF StateReadsAreCurrent
<1>1. Calls(s) /\ UNCHANGED registrations
  BY SessionCalls
<1>2. /\ t \in Registered /\ t \in Targets /\ t \in DOMAIN connections
      /\ connections[t] \in ConnectionRecords
  BY <1>1 DEF Registered, SocketInv, RegistryTypeOK
<1>3. CASE connections[t].state = "Connected" /\ read_from'[t] = read_from[t]
  BY <1>1, <1>2, <1>3 DEF StateReadsAreCurrent
<1>4. CASE UNCHANGED <<connections, read_from>>
  BY <1>3, <1>4
<1>5. ASSUME NEW u \in Targets, NEW now, BeginBinding(u, now), UNCHANGED read_from
      PROVE  connections[t].state = "Connected" /\ read_from'[t] = read_from[t]
  BY <1>2, <1>5 DEF BeginBinding, UpdateConnection, ConnectionRecords
<1>6. CASE MarkUnavailable(self.target, "ipc_failed", self.at) /\ UNCHANGED read_from
  <2>1. connections[t].state = "Connected" /\ read_from'[t] = read_from[t]
    BY <1>2, <1>6 DEF MarkUnavailable, UpdateConnection, ConnectionRecords
  <2> QED
    BY <1>3, <2>1
<1>7. ASSUME NEW generation \in Generations, MarkConnected(self.target, generation, self.at),
             self.pc \in InIpc, read_from' = [read_from EXCEPT ![self.target] = self.path]
      PROVE  /\ read_from'[t] # None
             /\ KeyOf[read_from'[t]] = registrations'[t].ipc_path_key
  <2>1. CASE t = self.target
    <3>1. registrations[t].ipc_path = self.path
      BY <1>7, <2>1 DEF SessionsInv, InForce
    <3>2. registrations[t].ipc_path \in AllowedPaths
      BY <1>2 DEF SocketInv, RegistryTypeOK, RegistrationRecords
    <3>3. read_from'[t] = registrations[t].ipc_path
      BY <1>2, <1>7, <2>1, <3>1 DEF SessionsInv
    <3> QED
      BY <1>1, <1>2, <3>2, <3>3, NoneAssumption, PathAssumption DEF SocketInv, KeysInStep
  <2>2. CASE t # self.target
    <3>1. connections[t].state = "Connected" /\ read_from'[t] = read_from[t]
      BY <1>2, <1>7, <2>2 DEF MarkConnected, UpdateConnection, SessionsInv
    <3> QED
      BY <1>3, <3>1
  <2> QED
    BY <2>1, <2>2
<1> QED
  BY <1>1, <1>3, <1>4, <1>5, <1>6, <1>7 DEF Calls, InIpc

\* Whoever leaves `state' leaves another state behind.
LEMMA SessionStepKeepsConnecting ==
    ASSUME SessionsInv, SocketInv, NoStuckConnecting, NEW s \in Sessions, SessionNext(s)
    PROVE  NoStuckConnecting'
<1> DEFINE self == sessions[s]
<1> SUFFICES ASSUME NEW t \in Registered', connections'[t].state = "Connecting"
             PROVE  \E o \in Sessions : sessions'[o].pc = "state" /\ sessions'[o].target = t
  BY DEF NoStuckConnecting
<1>1. Calls(s) /\ UNCHANGED registrations
  BY SessionCalls
<1>2. /\ t \in Registered /\ t \in Targets /\ t \in DOMAIN connections
      /\ connections[t] \in ConnectionRecords
  BY <1>1 DEF Registered, SocketInv, RegistryTypeOK
<1>3. \A o \in Sessions \ {s} : sessions'[o] = sessions[o]
  <2>1. PICK next : Goto(s, next)
    BY SessionStepKinds, Zenon DEF Quiet, Held
  <2> QED
    BY <2>1 DEF Goto, SessionsInv
<1>4. ASSUME connections[t].state = "Connecting", self.pc # "state" \/ self.target # t
      PROVE  \E o \in Sessions : sessions'[o].pc = "state" /\ sessions'[o].target = t
  BY <1>2, <1>3, <1>4 DEF NoStuckConnecting
<1>5. CASE self.pc # "state" /\ UNCHANGED <<connections, read_from>>
  BY <1>4, <1>5
<1>6. ASSUME NEW u \in Targets, NEW now, BeginBinding(u, now), self.pc = "bind",
             sessions'[s].pc = "state", sessions'[s].target = u
      PROVE  \E o \in Sessions : sessions'[o].pc = "state" /\ sessions'[o].target = t
  <2>1. CASE t = u
    BY <1>6, <2>1
  <2>2. CASE t # u
    <3>1. connections[t].state = "Connecting"
      BY <1>2, <1>6, <2>2 DEF BeginBinding, UpdateConnection
    <3> QED
      BY <1>4, <1>6, <3>1
  <2> QED
    BY <2>1, <2>2
<1>7. CASE \/ \E generation \in Generations : MarkConnected(self.target, generation, self.at)
           \/ MarkUnavailable(self.target, "ipc_failed", self.at)
  <2>1. t # self.target /\ connections[t].state = "Connecting"
    <3>1. t # self.target
      BY <1>2, <1>7 DEF MarkConnected, MarkUnavailable, UpdateConnection, ConnectionRecords
    <3>2. connections'[t] = connections[t]
      BY <1>2, <1>7, <3>1 DEF MarkConnected, MarkUnavailable, UpdateConnection
    <3> QED
      BY <3>1, <3>2
  <2> QED
    BY <1>4, <2>1
<1> QED
  BY <1>1, <1>5, <1>6, <1>7 DEF Calls

\* The steps of the registration task: nobody is in an exchange when it registers.
LEMMA RegistrationStepKeeps ==
    ASSUME RelayInv, RegistrationStep
    PROVE  RelayInv'
<1> USE DEF RelayInv
<1>1. UNCHANGED <<clock, sessions, read_from, lock>>
  BY Zenon DEF RegistrationStep, LoopNext, sessionVars, AcceptConnection, ReadRequest, ReadFails,
     RegisterAccepted, RegisterRejected, WriteAck, AckFails, sharedVars
<1>2. clock \in Nat
  BY DEF SocketInv, RegistryTypeOK
<1>3. LoopInv'
  <2> USE DEF LoopInv, LoopRecords, LoopPcs
  <2>n. None \notin Requests /\ None \notin Owners
    BY LoopAssumption, NoneAssumption
  <2>1. CASE AcceptConnection
    <3>1. PICK owner \in Owners : loop' = [loop EXCEPT !.pc = "read", !.owner = owner]
      BY <2>1, Zenon DEF AcceptConnection
    <3>2. owner # None /\ loop.pc = "accept"
      BY <2>1, <2>n DEF AcceptConnection
    <3>3. loop' \in LoopRecords
      BY <3>1
    <3> QED
      BY <3>1, <3>2, <3>3
  <2>2. CASE ReadRequest
    <3>1. PICK request \in Requests :
             loop' = [loop EXCEPT !.pc = "lock", !.request = request, !.received_at = clock]
      BY <2>2, Zenon DEF ReadRequest
    <3>2. request # None /\ loop.pc = "read" /\ clock \in 0 .. clock'
      BY <1>1, <1>2, <2>2, <2>n DEF ReadRequest
    <3> QED
      BY <1>2, <3>1, <3>2
  <2>3. CASE ReadFails \/ WriteAck \/ AckFails
    <3>1. loop' = Accepting \/ loop' = [Accepting EXCEPT !.pc = "exited"]
      BY <2>3, Zenon DEF ReadFails, WriteAck, AckFails
    <3>2. CASE loop' = Accepting
      BY <3>2 DEF Accepting
    <3>3. CASE loop' = [Accepting EXCEPT !.pc = "exited"]
      BY <3>3 DEF Accepting
    <3> QED
      BY <3>1, <3>2, <3>3
  <2>4. CASE RegisterAccepted
    BY <1>1, <2>4 DEF RegisterAccepted
  <2>5. CASE RegisterRejected
    BY <1>1, <2>5 DEF RegisterRejected
  <2> QED
    BY <2>1, <2>2, <2>3, <2>4, <2>5 DEF RegistrationStep, LoopNext
<1>4. CASE UNCHANGED <<registrations, connections>>
  BY <1>1, <1>3, <1>4, Zenon DEF SocketInv, RegistryTypeOK, KeysInStep, KeysDistinct, Registered,
     SessionsInv, InForce, ensure_command_supported, StateReadsAreCurrent, NoStuckConnecting
<1>5. CASE RegisterAccepted
  <2> DEFINE request == loop.request
             owner == loop.owner
             now == loop.received_at
             t == request.target_id
  <2>1. lock = None /\ Register(request, owner, now)
    BY <1>5 DEF RegisterAccepted, Unlocked
  <2>2. request \in Requests /\ owner \in Owners /\ now \in Nat
    BY <1>2, <1>5 DEF LoopInv, LoopRecords, RegisterAccepted
  <2> HIDE DEF request, owner, now
  <2>3. SocketInv'
    BY <1>1, <1>2, <2>1, <2>2, RegisterSockets
  <2>4. SessionsInv'
    <3>1. \A s \in Sessions : sessions[s].pc \notin InIpc
      BY <2>1, SessionsAssumption DEF SessionsInv
    <3> QED
      BY <1>1, <3>1 DEF SessionsInv, InForce, InIpc
  <2>5. /\ DOMAIN registrations' = Registered \cup {t}
        /\ \A u \in Registered \ {t} :
              registrations'[u] = registrations[u] /\ connections'[u] = connections[u]
        /\ RegisteredEntry(request, owner, now)
    BY <2>1, <2>2, RegisterEffect DEF SocketInv
  <2>6. \/ /\ t \in Registered
           /\ connections'[t].state = connections[t].state
           /\ registrations'[t].ipc_path_key = registrations[t].ipc_path_key
        \/ connections'[t].state \in {"Registered", "Reconnecting"}
    <3>1. CASE t \notin Registered
      BY <2>5, <3>1 DEF RegisteredEntry, NewConnection
    <3>2. CASE t \in Registered
      <4>1. connections[t] \in ConnectionRecords
        BY <3>2 DEF SocketInv, RegistryTypeOK
      <4>2. registrations'[t].ipc_path_key = KeyOf[request.ipc_path]
        BY <2>5 DEF RegisteredEntry, RegistrationFor
      <4> QED
        BY <2>5, <3>2, <4>1, <4>2 DEF RegisteredEntry, UpsertedConnection, ConnectionRecords
    <3> QED
      BY <3>1, <3>2
  <2> HIDE DEF t
  <2>7. StateReadsAreCurrent'
    BY <1>1, <2>5, <2>6 DEF StateReadsAreCurrent, Registered
  <2>8. NoStuckConnecting'
    BY <1>1, <2>5, <2>6 DEF NoStuckConnecting, Registered
  <2> QED
    BY <1>3, <2>3, <2>4, <2>7, <2>8
<1> QED
  BY <1>4, <1>5, Zenon DEF RegistrationStep, LoopNext, AcceptConnection, ReadRequest, ReadFails,
     RegisterRejected, WriteAck, AckFails, sharedVars

LEMMA SessionStepKeeps ==
    ASSUME RelayInv, NEW s \in Sessions, SessionStep(s)
    PROVE  RelayInv'
<1> USE DEF RelayInv
<1>1. SessionNext(s) /\ UNCHANGED <<clock, loop>>
  BY DEF SessionStep
<1>2. SessionsInv' /\ StateReadsAreCurrent' /\ NoStuckConnecting'
  BY <1>1, SessionStepKeepsSessions, SessionStepKeepsReads, SessionStepKeepsConnecting
<1>3. LoopInv'
  BY <1>1 DEF LoopInv
<1>4. SocketInv'
  <2>1. Calls(s) /\ UNCHANGED registrations
    BY <1>1, SessionCalls
  <2>2. RegistryTypeOK /\ clock' \in Nat
    BY <1>1 DEF SocketInv, RegistryTypeOK
  <2>3. CASE UNCHANGED connections
    BY <1>1, <2>1, <2>3 DEF SocketInv, RegistryTypeOK, KeysInStep, KeysDistinct, Registered
  <2>4. ASSUME NEW t \in Targets, NEW now \in Nat, BeginBinding(t, now)
        PROVE  SocketInv'
    BY <2>2, <2>4, CallSockets, SameSocketsKept
  <2>5. CASE /\ sessions[s].pc \in InIpc
             /\ \/ \E generation \in Generations :
                      MarkConnected(sessions[s].target, generation, sessions[s].at)
                \/ MarkUnavailable(sessions[s].target, "ipc_failed", sessions[s].at)
    <3>1. sessions[s].target \in Targets /\ sessions[s].at \in Nat
      BY <2>5 DEF SessionsInv, WellFormed, SessionRecords
    <3> DEFINE t == sessions[s].target
               now == sessions[s].at
    <3> HIDE DEF t, now
    <3>2. \/ \E generation \in Generations : MarkConnected(t, generation, now)
          \/ \E reason \in Reasons : MarkUnavailable(t, reason, now)
      BY <2>5 DEF t, now, Reasons
    <3> QED
      BY <2>2, <3>1, <3>2, CallSockets, SameSocketsKept DEF t, now
  <2> QED
    BY <2>1, <2>3, <2>4, <2>5 DEF Calls, InIpc
<1> QED
  BY <1>2, <1>3, <1>4

LEMMA RelayInvInit ==
    Init => RelayInv
<1> SUFFICES ASSUME Init
             PROVE  RelayInv
  OBVIOUS
<1> USE DEF Init
<1>n. None \notin Targets /\ None \notin Sessions
  BY NoneAssumption, SessionsAssumption
<1>1. SocketInv
  BY SocketInvInit
<1>2. LoopInv
  BY DEF LoopInit, LoopInv, LoopRecords, LoopPcs, Accepting
<1>3. SessionsInv
  <2>1. WellFormed(Closed) /\ InForce(Closed) /\ Closed.pc \notin InIpc
    BY <1>n DEF WellFormed, InForce, Closed, SessionRecords, Talking, Acquiring, InIpc
  <2> HIDE DEF Closed
  <2> QED
    BY <1>n, <2>1 DEF SessionInit, SessionsInv
<1>4. StateReadsAreCurrent /\ NoStuckConnecting
  BY DEF RegistryInit, StateReadsAreCurrent, NoStuckConnecting, Registered
<1> QED
  BY <1>1, <1>2, <1>3, <1>4 DEF RelayInv

LEMMA RelayInvStep ==
    RelayInv /\ [Next]_vars => RelayInv'
<1> SUFFICES ASSUME RelayInv, [Next]_vars
             PROVE  RelayInv'
  OBVIOUS
<1>1. CASE RegistrationStep
  BY <1>1, RegistrationStepKeeps
<1>2. ASSUME NEW s \in Sessions, SessionStep(s)
      PROVE  RelayInv'
  BY <1>2, SessionStepKeeps
<1>3. CASE TimePasses \/ UNCHANGED vars
  <2>1. /\ UNCHANGED <<registrations, connections, lock, loop, sessions, read_from>>
        /\ clock' \in {clock, clock + 1}
    BY <1>3 DEF TimePasses, Tick, vars, sessionVars
  <2>2. clock \in Nat /\ clock' \in Nat /\ 0 .. clock \subseteq 0 .. clock'
    BY <2>1 DEF RelayInv, SocketInv, RegistryTypeOK
  <2>3. LoopInv'
    BY <2>1, <2>2 DEF RelayInv, LoopInv
  <2>4. SocketInv' /\ SessionsInv' /\ StateReadsAreCurrent' /\ NoStuckConnecting'
    BY <2>1, <2>2, Zenon DEF RelayInv, SocketInv, RegistryTypeOK, KeysInStep, KeysDistinct, Registered,
       SessionsInv, InForce, ensure_command_supported, StateReadsAreCurrent, NoStuckConnecting
  <2> QED
    BY <2>3, <2>4 DEF RelayInv
<1> QED
  BY <1>1, <1>2, <1>3 DEF Next

LEMMA RelayInvariant ==
    Spec => []RelayInv
BY RelayInvInit, RelayInvStep, PTL DEF Spec

-----------------------------------------------------------------------------
(* What the relay keeps to, for good.                                      *)

\* The locals of sessions and of the registration task fit where they are, and the
\* mutex is held over IPC by the one session that is in it.
THEOREM RelayTypeCorrect ==
    Spec => [](RegistryTypeOK /\ LoopTypeOK /\ SessionTypeOK)
<1>1. RelayInv => RegistryTypeOK /\ LoopTypeOK /\ SessionTypeOK
  <2> SUFFICES ASSUME RelayInv
               PROVE  SessionTypeOK
    BY DEF RelayInv, SocketInv, LoopInv, LoopRecords, LoopTypeOK
  <2>1. \A t \in Targets : read_from[t] \in Paths \cup {None}
    BY PathAssumption DEF RelayInv, SessionsInv
  <2>2. ASSUME NEW s \in Sessions
        PROVE  LET self == sessions[s]
               IN  /\ self.pc \in Talking \cup Acquiring \cup InIpc
                   /\ self.established <=> self.pc \notin {"closed", "greet", "hello"}
                   /\ self.bound \subseteq Targets /\ self.todo \subseteq Targets
                   /\ self.pc \in InIpc <=> lock = s
                   /\ self.pc \in InIpc <=> self.target \in Targets
                   /\ self.pc \in {"command", "forward", "refresh"} <=> self.command # None
    <3>1. WellFormed(sessions[s]) /\ (sessions[s].pc \in InIpc <=> lock = s)
      BY DEF RelayInv, SessionsInv
    <3> QED
      BY <3>1 DEF WellFormed, SessionRecords
  <2>3. lock \in Sessions \cup {None}
    BY DEF RelayInv, SessionsInv
  <2> QED
    BY <2>1, <2>2, <2>3, Zenon DEF SessionTypeOK
<1> QED
  BY <1>1, RelayInvariant, PTL

\* The relay never reaches two targets through one socket, whoever registers late
\* (run_registration_loop).
THEOREM RelaySocketsDisjoint ==
    Spec => []SocketsDisjoint
<1>1. RelayInv => SocketsDisjoint
  BY SocketInvImplies DEF RelayInv
<1> QED
  BY <1>1, RelayInvariant, PTL

\* A target is asked only under the registration in force (bind_target and
\* handle_command under the mutex).
THEOREM AskedUnderTheRegistration ==
    Spec => []IpcMatchesRegistration
<1>1. RelayInv => IpcMatchesRegistration
  BY Zenon DEF RelayInv, SessionsInv, InForce, IpcMatchesRegistration
<1> QED
  BY <1>1, RelayInvariant, PTL

\* A target shown as connected was read at the socket it is registered at.
THEOREM ReadsStayCurrent ==
    Spec => []StateReadsAreCurrent
<1>1. RelayInv => StateReadsAreCurrent
  BY DEF RelayInv
<1> QED
  BY <1>1, RelayInvariant, PTL

\* No target stays connecting when nobody reads its state (bind_target).
THEOREM NobodyStaysConnecting ==
    Spec => []NoStuckConnecting
<1>1. RelayInv => NoStuckConnecting
  BY DEF RelayInv
<1> QED
  BY <1>1, RelayInvariant, PTL

-----------------------------------------------------------------------------
(* Acknowledgements.                                                       *)

LEMMA AckStep ==
    RelayInv /\ AckTruthful /\ [Next]_vars => AckTruthful'
<1> SUFFICES ASSUME RelayInv, AckTruthful, [Next]_vars
             PROVE  AckTruthful'
  OBVIOUS
<1>1. CASE UNCHANGED <<registrations, loop>>
  BY <1>1, Zenon DEF AckTruthful, MayRegister, OwnedByAnother, IpcPathConflict, Registered
<1>2. CASE RegistrationStep
  <2>1. CASE loop'.pc # "ack"
    BY <2>1 DEF AckTruthful
  <2>2. CASE RegisterAccepted
    <3> DEFINE request == loop.request
               owner == loop.owner
               now == loop.received_at
    <3>1. Register(request, owner, now)
      BY <2>2, Zenon DEF RegisterAccepted
    <3>2. request \in Requests /\ owner \in Owners /\ now \in Nat /\ loop \in LoopRecords
      BY <2>2 DEF RelayInv, LoopInv, LoopRecords, RegisterAccepted, SocketInv, RegistryTypeOK
    <3>3. /\ loop'.request = request /\ loop'.owner = owner /\ loop'.received_at = now
          /\ loop'.accepted
      BY <2>2, <3>2 DEF RegisterAccepted, LoopRecords
    <3> HIDE DEF request, owner, now
    <3>4. /\ DOMAIN registrations' = Registered \cup {request.target_id}
          /\ RegisteredEntry(request, owner, now)
      BY <3>1, <3>2, RegisterEffect DEF RelayInv, SocketInv
    <3>5. PICK first \in Nat :
             registrations'[request.target_id] = RegistrationFor(request, owner, first, now)
      BY <3>4, Zenon DEF RegisteredEntry
    <3> QED
      BY <3>3, <3>4, <3>5 DEF AckTruthful, RegistrationFor, Registered
  <2>3. CASE RegisterRejected
    <3>1. /\ ~MayRegister(loop.request, loop.owner)
          /\ UNCHANGED registrations
      BY <2>3, Zenon DEF RegisterRejected, sharedVars
    <3>2. ~MayRegister(loop.request, loop.owner)'
      <4>1. loop'.request = loop.request /\ loop'.owner = loop.owner
        BY <2>3 DEF RegisterRejected, RelayInv, LoopInv, LoopRecords
      <4> QED
        BY <3>1, <4>1, Zenon DEF MayRegister, OwnedByAnother, IpcPathConflict, Registered
    <3>3. ~loop'.accepted
      BY <2>3 DEF RegisterRejected, RelayInv, LoopInv, LoopRecords
    <3> QED
      BY <3>2, <3>3 DEF AckTruthful
  <2>4. CASE ~RegisterAccepted /\ ~RegisterRejected
    <3>1. loop'.pc # "ack"
      <4>1. CASE AcceptConnection \/ ReadRequest
        BY <4>1 DEF AcceptConnection, ReadRequest, RelayInv, LoopInv, LoopRecords
      <4>2. CASE ReadFails \/ WriteAck \/ AckFails
        BY <4>2 DEF ReadFails, WriteAck, AckFails, Accepting
      <4> QED
        BY <1>2, <2>4, <4>1, <4>2 DEF RegistrationStep, LoopNext
    <3> QED
      BY <2>1, <3>1
  <2> QED
    BY <2>2, <2>3, <2>4
<1>3. ASSUME NEW s \in Sessions, SessionStep(s)
      PROVE  UNCHANGED <<registrations, loop>>
  BY <1>3, SessionCalls DEF SessionStep, RelayInv
<1>4. CASE TimePasses \/ UNCHANGED vars
  BY <1>1, <1>4 DEF TimePasses, Tick, vars
<1> QED
  BY <1>1, <1>2, <1>3, <1>4 DEF Next

\* What a registrant is told is still so when it is told (run_registration_loop,
\* write_registration_ack).
THEOREM AcknowledgementsAreTrue ==
    Spec => []AckTruthful
<1>1. Init => AckTruthful
  BY DEF Init, LoopInit, Accepting, AckTruthful
<1> QED
  BY <1>1, AckStep, RelayInvariant, PTL DEF Spec

-----------------------------------------------------------------------------
(* What the registry promises by itself, it promises inside the relay: the *)
(* time a request is registered with is older than the step that registers *)
(* it, and a session marks a target with the time it began.                *)

\* What a step of the relay does to the registry.
RegistryMoves ==
    \/ /\ \E request \in Requests, owner \in Owners, now \in Nat :
             Register(request, owner, now)
       /\ UNCHANGED clock
    \/ /\ \E s \in Sessions : Calls(s)
       /\ UNCHANGED <<registrations, clock>>
    \/ UNCHANGED <<registrations, connections>> /\ clock' \in {clock, clock + 1}

LEMMA RelayMovesRegistry ==
    RelayInv /\ [Next]_vars => RegistryMoves
<1> SUFFICES ASSUME RelayInv, [Next]_vars
             PROVE  RegistryMoves
  OBVIOUS
<1>1. CASE RegistrationStep
  <2>1. CASE RegisterAccepted
    <3>1. Register(loop.request, loop.owner, loop.received_at)
      BY <2>1, Zenon DEF RegisterAccepted
    <3>2. loop.request \in Requests /\ loop.owner \in Owners /\ loop.received_at \in Nat
      BY <2>1 DEF RelayInv, LoopInv, LoopRecords, RegisterAccepted, SocketInv, RegistryTypeOK
    <3> DEFINE request == loop.request
               owner == loop.owner
               now == loop.received_at
    <3>3. UNCHANGED clock
      BY <1>1 DEF RegistrationStep
    <3>4. /\ Register(request, owner, now)
          /\ request \in Requests /\ owner \in Owners /\ now \in Nat
      BY <3>1, <3>2
    <3> HIDE DEF request, owner, now
    <3> QED
      BY <3>3, <3>4, Zenon DEF RegistryMoves
  <2>2. CASE ~RegisterAccepted
    <3>1. UNCHANGED <<registrations, connections, clock>>
      BY <1>1, <2>2, Zenon DEF RegistrationStep, LoopNext, AcceptConnection, ReadRequest, ReadFails,
         RegisterRejected, WriteAck, AckFails, sharedVars
    <3> QED
      BY <3>1 DEF RegistryMoves
  <2> QED
    BY <2>1, <2>2
<1>2. ASSUME NEW s \in Sessions, SessionStep(s)
      PROVE  RegistryMoves
  <2>1. Calls(s) /\ UNCHANGED <<registrations, clock>>
    BY <1>2, SessionCalls DEF SessionStep, RelayInv
  <2> QED
    BY <2>1, Zenon DEF RegistryMoves
<1>3. CASE TimePasses \/ UNCHANGED vars
  BY <1>3 DEF TimePasses, Tick, vars, RegistryMoves
<1> QED
  BY <1>1, <1>2, <1>3 DEF Next

\* The registration task keeps locals that fit its place (run_registration_loop).
THEOREM LoopTypeCorrect ==
    Spec => []LoopTypeOK
BY RelayTypeCorrect, PTL

\* A target stays with its first owner for good, although other registrants and
\* the sessions of dashboards go on between a request and its registration.
THEOREM RelayOwnershipIsStable ==
    Spec => OwnershipStable
<1>1. RelayInv /\ [Next]_vars => OwnersKept
  <2> SUFFICES ASSUME RelayInv, [Next]_vars
               PROVE  OwnersKept
    OBVIOUS
  <2>1. RegistryTypeOK
    BY DEF RelayInv, SocketInv
  <2>2. CASE UNCHANGED registrations
    BY <2>2 DEF OwnersKept, Registered
  <2>3. CASE \E request \in Requests, owner \in Owners, now \in Nat :
                Register(request, owner, now)
    BY <2>1, <2>3, RegisterOwners
  <2> QED
    BY <2>2, <2>3, RelayMovesRegistry DEF RegistryMoves
<1>2. OwnersKept =>
          \A t \in Registered :
              /\ t \in Registered'
              /\ registrations'[t].owner_identity = registrations[t].owner_identity
              /\ registrations'[t].registered_at = registrations[t].registered_at
  BY DEF OwnersKept
<1> QED
  BY <1>1, <1>2, RelayInvariant, PTL DEF Spec, OwnershipStable

\* A target is active exactly while less than its lease has passed since the time
\* of its last request, which run_registration_loop took before it waited.
THEOREM RelayLeasesAreHonoured ==
    Spec => []LeaseHonoured
<1>1. Init => LeaseInv
  BY DEF Init, RegistryInit, LeaseInv, Registered
<1>2. RelayInv /\ LeaseInv /\ [Next]_vars => LeaseInv'
  <2> SUFFICES ASSUME RelayInv, LeaseInv, [Next]_vars
               PROVE  LeaseInv'
    OBVIOUS
  <2>1. RegistryTypeOK /\ clock \in Nat
    BY DEF RelayInv, SocketInv, RegistryTypeOK
  <2>2. CASE UNCHANGED registrations /\ clock' \in {clock, clock + 1}
    <3>1. \A t \in Registered : registrations[t].expires_at \in Nat
      BY <2>1 DEF RegistryTypeOK, RegistrationRecords
    <3> QED
      BY <2>1, <2>2, <3>1 DEF LeaseInv, Registered
  <2>3. ASSUME NEW request \in Requests, NEW owner \in Owners, NEW now \in Nat,
               Register(request, owner, now), UNCHANGED clock
        PROVE  LeaseInv'
    BY <2>1, <2>3, RegisterLease
  <2> QED
    BY <2>2, <2>3, RelayMovesRegistry DEF RegistryMoves
<1>3. Spec => []LeaseInv
  BY <1>1, <1>2, RelayInvariant, PTL DEF Spec
<1>4. RelayInv /\ LeaseInv => LeaseHonoured
  BY LeaseInvImplies DEF RelayInv
<1> QED
  BY <1>3, <1>4, RelayInvariant, PTL

\* What a connection record says of its past agrees with its state, whichever
\* sessions bind, read and fail in turn (bind_target, refresh_after_command).
THEOREM RelayConnectionsAgree ==
    Spec => []ConnectionHistory
<1>1. Init => ConnectionHistory
  BY DEF Init, RegistryInit, ConnectionHistory, Registered
<1>2. RelayInv /\ ConnectionHistory /\ [Next]_vars => ConnectionHistory'
  <2> SUFFICES ASSUME RelayInv, ConnectionHistory, [Next]_vars
               PROVE  ConnectionHistory'
    OBVIOUS
  <2>1. RegistryTypeOK
    BY DEF RelayInv, SocketInv
  <2>2. CASE UNCHANGED <<registrations, connections>>
    BY <2>2, Zenon DEF ConnectionHistory, Registered
  <2>3. ASSUME NEW request \in Requests, NEW owner \in Owners, NEW now \in Nat,
               Register(request, owner, now)
        PROVE  ConnectionHistory'
    BY <2>1, <2>3, RegisterHistory
  <2>4. ASSUME NEW s \in Sessions, Calls(s), UNCHANGED registrations
        PROVE  ConnectionHistory'
    <3> DEFINE t == sessions[s].target
               now == sessions[s].at
               reason == "ipc_failed"
    <3>1. now \in Nat /\ reason \in Reasons \ {"ipc_path_changed"}
      BY DEF RelayInv, SessionsInv, WellFormed, SessionRecords, Reasons
    <3> HIDE DEF t, now, reason
    <3>2. CASE UNCHANGED connections
      BY <2>2, <2>4, <3>2
    <3>3. ASSUME NEW u \in Targets, NEW began \in Nat, BeginBinding(u, began)
          PROVE  ConnectionHistory'
      BY <2>1, <3>1, <3>3, MarkHistory
    <3>4. ASSUME \/ \E generation \in Generations : MarkConnected(t, generation, now)
                 \/ MarkUnavailable(t, reason, now)
          PROVE  ConnectionHistory'
      BY <2>1, <3>1, <3>4, MarkHistory
    <3>5. \/ UNCHANGED connections
          \/ \E u \in Targets, began \in Nat : BeginBinding(u, began)
          \/ \E generation \in Generations : MarkConnected(t, generation, now)
          \/ MarkUnavailable(t, reason, now)
      BY <2>4, Zenon DEF Calls, t, now, reason
    <3> QED
      BY <3>2, <3>3, <3>4, <3>5
  <2> QED
    BY <2>2, <2>3, <2>4, RelayMovesRegistry DEF RegistryMoves
<1> QED
  BY <1>1, <1>2, RelayInvariant, PTL DEF Spec

-----------------------------------------------------------------------------
(* The relay implements its contract.                                      *)

\* The variables of the contract.
Sockets == [t \in Registered |-> registrations[t].ipc_path_key]

ExchangeNow == IF lock = None THEN None ELSE ExchangeOf(lock)

Trail == [s \in Sessions |-> Results(sessions[s].audit)]

AuditResults == {"Accepted", "Rejected", "Completed"}

LEMMA ResultsTyped ==
    ASSUME NEW audit \in Seq(AuditRecords)
    PROVE  Results(audit) \in Seq(AuditResults) /\ Len(Results(audit)) = Len(audit)
<1> DEFINE n == Len(audit)
           results == Results(audit)
<1>1. n \in Nat /\ DOMAIN audit = 1 .. n /\ \A i \in 1 .. n : audit[i] \in AuditRecords
  OBVIOUS
<1>2. results \in [1 .. n -> AuditResults]
  BY <1>1 DEF Results, AuditRecords, AuditResults
<1> HIDE DEF n, results
<1>3. results \in Seq(AuditResults) /\ Len(results) = n
  BY <1>1, <1>2
<1> QED
  BY <1>3 DEF n, results

LEMMA ResultsAppend ==
    ASSUME NEW audit \in Seq(AuditRecords), NEW record \in AuditRecords
    PROVE  Results(Append(audit, record)) = Append(Results(audit), record.result)
<1>1. /\ Append(audit, record) \in Seq(AuditRecords)
      /\ DOMAIN Append(audit, record) = 1 .. Len(audit) + 1
      /\ \A i \in 1 .. Len(audit) : Append(audit, record)[i] = audit[i]
      /\ Append(audit, record)[Len(audit) + 1] = record
  OBVIOUS
<1>2. Results(audit) \in Seq(AuditResults)
  BY ResultsTyped
<1>3. DOMAIN Results(audit) = 1 .. Len(audit) /\ Len(Results(audit)) = Len(audit)
  BY ResultsTyped
<1>4. record.result \in AuditResults
  BY DEF AuditRecords, AuditResults
<1>5. /\ DOMAIN Append(Results(audit), record.result) = 1 .. Len(audit) + 1
      /\ \A i \in 1 .. Len(audit) : Append(Results(audit), record.result)[i] = audit[i].result
      /\ Append(Results(audit), record.result)[Len(audit) + 1] = record.result
  BY <1>2, <1>3, <1>4 DEF Results
<1>6. /\ DOMAIN Results(Append(audit, record)) = 1 .. Len(audit) + 1
      /\ \A i \in 1 .. Len(audit) + 1 :
            Results(Append(audit, record))[i] = Append(audit, record)[i].result
  BY <1>1 DEF Results
<1> DEFINE one == Results(Append(audit, record))
           other == Append(Results(audit), record.result)
<1>7. one \in Seq(AuditResults)
  BY <1>1, ResultsTyped
<1>8. other \in Seq(AuditResults)
  BY <1>2, <1>4
<1>9. DOMAIN one = DOMAIN other /\ \A i \in DOMAIN one : one[i] = other[i]
  BY <1>1, <1>5, <1>6
<1> HIDE DEF one, other
<1>10. one = other
  BY <1>7, <1>8, <1>9
<1> QED
  BY <1>10 DEF one, other

LEMMA TrailStep ==
    ASSUME SessionsInv, NEW s \in Sessions, NEW next, Goto(s, next)
    PROVE  /\ sessions'[s] = next
           /\ \A o \in Sessions \ {s} : sessions'[o] = sessions[o]
           /\ Trail' = [Trail EXCEPT ![s] = Results(next.audit)]
<1>1. /\ sessions'[s] = next
      /\ \A o \in Sessions \ {s} : sessions'[o] = sessions[o]
  BY DEF SessionsInv, Goto
<1> QED
  BY <1>1 DEF Trail

\* The exchange of whoever holds the mutex.
HeldExchange(s, self) ==
    [session |-> s, target |-> self.target, key |-> Sockets[self.target],
     kind |-> IF self.pc = "forward" THEN "command" ELSE "read"]

LEMMA ExchangeHeld ==
    ASSUME SocketInv, NEW s \in Sessions, NEW self, InForce(self), self.pc \in InIpc
    PROVE  /\ self.target \in DOMAIN Sockets
           /\ KeyOf[self.path] = Sockets[self.target]
           /\ HeldExchange(s, self) # None
           /\ HeldExchange(s, self).session = s
           /\ HeldExchange(s, self).kind =
                  IF self.pc = "forward" THEN "command" ELSE "read"
<1>1. /\ self.target \in Registered
      /\ registrations[self.target].ipc_path = self.path
  BY DEF InForce
<1>2. /\ self.target \in DOMAIN Sockets
      /\ Sockets[self.target] = KeyOf[self.path]
      /\ Sockets[self.target] \in {KeyOf[p] : p \in AllowedPaths}
      /\ self.target \in Targets
  BY <1>1 DEF Sockets, SocketInv, KeysInStep, RegistryTypeOK, RegistrationRecords
<1>3. HeldExchange(s, self) \in
         [session: Sessions, target: Targets, key: {KeyOf[p] : p \in AllowedPaths},
          kind: {"read", "command"}]
  BY <1>2 DEF HeldExchange
<1>4. HeldExchange(s, self) # None
  BY <1>3, ExchangeAssumption
<1> QED
  BY <1>2, <1>4 DEF HeldExchange

LEMMA ExchangeBefore ==
    ASSUME SocketInv, SessionsInv, NEW s \in Sessions, lock = s
    PROVE  /\ ExchangeNow = HeldExchange(s, sessions[s])
           /\ InForce(sessions[s]) /\ sessions[s].pc \in InIpc
<1>1. InForce(sessions[s]) /\ sessions[s].pc \in InIpc
  BY DEF SessionsInv
<1>2. KeyOf[sessions[s].path] = Sockets[sessions[s].target]
  BY <1>1, ExchangeHeld
<1>3. lock # None
  BY SessionsAssumption
<1> QED
  BY <1>1, <1>2, <1>3 DEF ExchangeNow, ExchangeOf, HeldExchange

\* The contract's variables after a step under the mutex.
LEMMA HeldStep ==
    ASSUME SocketInv, SessionsInv, NEW s \in Sessions, NEW next, Held(s, next)
    PROVE  /\ Sockets' = Sockets
           /\ Trail' = [Trail EXCEPT ![s] = Results(next.audit)]
           /\ ExchangeNow' = IF next.pc \in InIpc THEN HeldExchange(s, next) ELSE None
<1>1. /\ sessions'[s] = next
      /\ Trail' = [Trail EXCEPT ![s] = Results(next.audit)]
      /\ Sockets' = Sockets
  BY TrailStep DEF Held, Sockets, Registered
<1>2. CASE next.pc \in InIpc
  <2>1. lock' = s /\ s # None
    BY <1>2, SessionsAssumption DEF Held
  <2>2. KeyOf[next.path] = Sockets[next.target]
    BY <1>2, ExchangeHeld DEF Held
  <2> QED
    BY <1>1, <1>2, <2>1, <2>2 DEF ExchangeNow, ExchangeOf, HeldExchange
<1>3. CASE next.pc \notin InIpc
  BY <1>1, <1>3 DEF Held, ExchangeNow
<1> QED
  BY <1>1, <1>2, <1>3

\* Steps that ask nobody: at most a session leaves.
LEMMA QuietImplements ==
    ASSUME SessionsInv, SocketInv, NEW s \in Sessions, NEW next, Quiet(s, next)
    PROVE  Contract!Leave(s) \/ UNCHANGED Contract!contractVars
<1>1. /\ Sockets' = Sockets /\ lock # s /\ UNCHANGED lock
      /\ Trail' = [Trail EXCEPT ![s] = Results(next.audit)]
      /\ \A o \in Sessions \ {s} : sessions'[o] = sessions[o]
  BY TrailStep DEF Quiet, sharedVars, Sockets, Registered, SessionsInv
<1>2. ExchangeNow' = ExchangeNow /\ (ExchangeNow # None => ExchangeNow.session # s)
  <2>1. CASE lock = None
    BY <1>1, <2>1 DEF ExchangeNow
  <2>2. CASE lock # None
    <3>1. lock \in Sessions \ {s}
      BY <1>1, <2>2 DEF SessionsInv
    <3> QED
      BY <1>1, <3>1, <2>2 DEF ExchangeNow, ExchangeOf
  <2> QED
    BY <2>1, <2>2
<1>3. CASE next.audit = sessions[s].audit
  <2>1. Trail' = Trail
    BY <1>1, <1>3 DEF Trail
  <2> QED
    BY <1>1, <1>2, <2>1 DEF Contract!contractVars, Sockets, ExchangeNow, Trail
<1>4. CASE next.audit = <<>>
  <2>1. Results(<<>>) = <<>>
    BY DEF Results
  <2>2. Trail' = [Trail EXCEPT ![s] = <<>>]
    BY <1>1, <1>4, <2>1
  <2> QED
    BY <1>1, <1>2, <2>2, Zenon DEF Contract!Leave, Sockets, ExchangeNow, Trail
<1> QED
  BY <1>3, <1>4 DEF Quiet

\* Steps under the mutex: an exchange begins, goes on, ends or follows another.
LEMMA HeldImplements ==
    ASSUME SessionsInv, SocketInv, NEW s \in Sessions,
           BindBegin(s) \/ CommandAccepted(s) \/ Exchange(s)
    PROVE  Contract!Next \/ UNCHANGED Contract!contractVars
<1> DEFINE self == sessions[s]
<1> USE DEF InIpc
<1>a. self.audit \in Seq(AuditRecords)
  BY DEF SessionsInv, WellFormed, SessionRecords
<1>s. Trail[s] = Results(self.audit) /\ Trail = [Trail EXCEPT ![s] = Results(self.audit)]
  BY DEF Trail
<1>1. CASE BindBegin(s)
  <2>1. PICK next : /\ Held(s, next)
                    /\ next.pc = "state" /\ next.audit = self.audit /\ lock = None
    BY <1>1, BindBeginEffect
  <2>2. /\ ExchangeNow = None /\ ExchangeNow' = HeldExchange(s, next)
        /\ Trail' = Trail /\ Sockets' = Sockets
    BY <2>1, <1>s, HeldStep DEF ExchangeNow
  <2>3. next.target \in DOMAIN Sockets
    BY <2>1, ExchangeHeld DEF Held
  <2>4. HeldExchange(s, next) = Contract!Exchange(s, next.target, "read")
    BY <2>1 DEF HeldExchange, Contract!Exchange, Sockets
  <2>5. Contract!BeginRead(s, next.target)
    BY <2>2, <2>4, Zenon DEF Contract!BeginRead, Sockets, ExchangeNow, Trail
  <2> QED
    BY <2>3, <2>5, Zenon DEF Contract!Next, Sockets
<1>2. CASE CommandAccepted(s)
  <2>1. PICK next : /\ Held(s, next)
                    /\ next.pc = "forward" /\ lock = None
                    /\ \E id \in Nat : next.audit =
                           Append(self.audit, Record(id, "Accepted", None))
    BY <1>2, CommandAcceptedEffect
  <2>2. Results(next.audit) = Append(Trail[s], "Accepted")
    <3>1. PICK id \in Nat : next.audit = Append(self.audit, Record(id, "Accepted", None))
      BY <2>1
    <3>2. Record(id, "Accepted", None) \in AuditRecords
      BY DEF Record, AuditRecords
    <3> QED
      BY <1>a, <1>s, <3>1, <3>2, ResultsAppend DEF Record
  <2>3. /\ ExchangeNow = None /\ ExchangeNow' = HeldExchange(s, next)
        /\ Trail' = [Trail EXCEPT ![s] = Append(@, "Accepted")] /\ Sockets' = Sockets
    BY <2>1, <2>2, HeldStep DEF ExchangeNow
  <2>4. next.target \in DOMAIN Sockets
    BY <2>1, ExchangeHeld DEF Held
  <2>5. HeldExchange(s, next) = Contract!Exchange(s, next.target, "command")
    BY <2>1 DEF HeldExchange, Contract!Exchange, Sockets
  <2>6. Contract!Accept(s, next.target)
    BY <2>3, <2>5, Zenon DEF Contract!Accept, Sockets, ExchangeNow, Trail
  <2> QED
    BY <2>4, <2>6, Zenon DEF Contract!Next, Sockets
<1>3. CASE StateRead(s)
  <2>1. PICK next : /\ Held(s, next)
                    /\ self.pc = "state" /\ next.pc = "subscribe"
                    /\ next.target = self.target /\ next.audit = self.audit
                    /\ lock = s
    BY <1>3, StateReadEffect
  <2>2. /\ ExchangeNow = HeldExchange(s, self) /\ ExchangeNow' = HeldExchange(s, next)
        /\ Trail' = Trail /\ Sockets' = Sockets
    BY <2>1, <1>s, HeldStep, ExchangeBefore
  <2>3. HeldExchange(s, next) = HeldExchange(s, self)
    BY <2>1 DEF HeldExchange
  <2> QED
    BY <2>2, <2>3 DEF Contract!contractVars, Sockets, ExchangeNow, Trail
<1>4. CASE StateFails(s) \/ Subscribed(s) \/ SubscribeFails(s) \/ RefreshRead(s) \/ RefreshFails(s)
  <2>1. PICK next : /\ Held(s, next)
                    /\ self.pc \in {"state", "subscribe", "refresh"} /\ lock = s
                    /\ next.pc \in {"flush", "bind"} /\ next.audit = self.audit
    BY <1>4, BindingExchanges, RefreshEffect
  <2>2. /\ ExchangeNow = HeldExchange(s, self) /\ ExchangeNow' = None
        /\ Trail' = Trail /\ Sockets' = Sockets
    BY <2>1, <1>s, HeldStep, ExchangeBefore
  <2>3. ExchangeNow # None /\ ExchangeNow.kind = "read"
    BY <2>1, <2>2, ExchangeBefore, ExchangeHeld
  <2>4. Contract!EndRead
    BY <2>2, <2>3, Zenon DEF Contract!EndRead, Sockets, ExchangeNow, Trail
  <2> QED
    BY <2>4, Zenon DEF Contract!Next
<1>5. CASE ForwardFails(s) \/ ForwardSucceeds(s)
  <2>1. PICK next : /\ Held(s, next)
                    /\ self.pc = "forward" /\ lock = s
                    /\ \/ /\ next.pc = "flush"
                          /\ \E id \in Nat : next.audit =
                                Append(self.audit, Record(id, "Rejected", None))
                       \/ /\ next.pc \in {"flush", "refresh"}
                          /\ \E id \in Nat, detail \in Statuses : next.audit =
                                Append(self.audit, Record(id, "Completed", detail))
    BY <1>5, ForwardFailsEffect, ForwardSucceedsEffect
  <2>2. \E outcome \in {"Rejected", "Completed"} :
           /\ Results(next.audit) = Append(Trail[s], outcome)
           /\ next.pc = "flush" \/ (next.pc = "refresh" /\ outcome = "Completed")
    <3>1. CASE /\ next.pc = "flush"
               /\ \E id \in Nat : next.audit = Append(self.audit, Record(id, "Rejected", None))
      <4>1. PICK id \in Nat : next.audit = Append(self.audit, Record(id, "Rejected", None))
        BY <3>1
      <4>2. Record(id, "Rejected", None) \in AuditRecords
        BY DEF Record, AuditRecords
      <4>3. Results(next.audit) = Append(Trail[s], "Rejected")
        BY <1>a, <1>s, <4>1, <4>2, ResultsAppend DEF Record
      <4> QED
        BY <3>1, <4>3
    <3>2. CASE \E id \in Nat, detail \in Statuses : next.audit =
                  Append(self.audit, Record(id, "Completed", detail))
      <4>1. PICK id \in Nat, detail \in Statuses :
               next.audit = Append(self.audit, Record(id, "Completed", detail))
        BY <3>2
      <4>2. Record(id, "Completed", detail) \in AuditRecords
        BY DEF Record, AuditRecords
      <4>3. Results(next.audit) = Append(Trail[s], "Completed")
        BY <1>a, <1>s, <4>1, <4>2, ResultsAppend DEF Record
      <4> QED
        BY <2>1, <4>3
    <3> QED
      BY <2>1, <3>1, <3>2
  <2>3. /\ ExchangeNow = HeldExchange(s, self) /\ Sockets' = Sockets
        /\ ExchangeNow' = IF next.pc \in InIpc THEN HeldExchange(s, next) ELSE None
        /\ Trail' = [Trail EXCEPT ![s] = Results(next.audit)]
    BY <2>1, HeldStep, ExchangeBefore
  <2>4. ExchangeNow # None /\ ExchangeNow.kind = "command" /\ ExchangeNow.session = s
    BY <2>1, <2>3, ExchangeBefore, ExchangeHeld
  <2>5. PICK outcome \in {"Rejected", "Completed"} :
           /\ Trail' = [Trail EXCEPT ![s] = Append(@, outcome)]
           /\ next.pc = "flush" \/ (next.pc = "refresh" /\ outcome = "Completed")
    BY <2>2, <2>3
  <2>6. Contract!Conclude
    <3>1. CASE next.pc = "flush"
      <4>1. ExchangeNow' = None
        BY <2>3, <3>1
      <4> QED
        BY <2>3, <2>4, <2>5, <4>1, Zenon DEF Contract!Conclude, Sockets, ExchangeNow, Trail
    <3>2. CASE next.pc = "refresh"
      <4>1. ExchangeNow' = HeldExchange(s, next) /\ outcome = "Completed"
        BY <2>3, <2>5, <3>2
      <4>2. next.target \in DOMAIN Sockets
        BY <2>1, <3>2, ExchangeHeld DEF Held
      <4>3. HeldExchange(s, next) = Contract!Exchange(s, next.target, "read")
        BY <3>2 DEF HeldExchange, Contract!Exchange, Sockets
      <4> QED
        BY <2>3, <2>4, <2>5, <4>1, <4>2, <4>3, Zenon DEF Contract!Conclude, Sockets, ExchangeNow, Trail
    <3> QED
      BY <2>5, <3>1, <3>2
  <2> QED
    BY <2>6, Zenon DEF Contract!Next
<1> QED
  BY <1>1, <1>2, <1>3, <1>4, <1>5 DEF Exchange

\* A registration happens while nobody is asked, and at a socket of its own.
LEMMA RegistrationImplements ==
    ASSUME RelayInv, RegistrationStep
    PROVE  Contract!Next \/ UNCHANGED Contract!contractVars
<1>1. UNCHANGED <<sessions, lock>>
  BY Zenon DEF RegistrationStep, LoopNext, sessionVars, AcceptConnection, ReadRequest, ReadFails,
     RegisterAccepted, RegisterRejected, WriteAck, AckFails, sharedVars
<1>2. ExchangeNow' = ExchangeNow /\ Trail' = Trail
  BY <1>1 DEF ExchangeNow, ExchangeOf, Trail
<1>3. CASE UNCHANGED registrations
  <2>1. Sockets' = Sockets
    BY <1>3 DEF Sockets, Registered
  <2> QED
    BY <1>2, <2>1 DEF Contract!contractVars, Sockets, ExchangeNow, Trail
<1>4. CASE RegisterAccepted
  <2>1. PICK request \in Requests, owner \in Owners, now \in Nat :
           Register(request, owner, now)
    <3>1. loop.request \in Requests /\ loop.owner \in Owners /\ loop.received_at \in Nat
      BY <1>4 DEF RelayInv, LoopInv, LoopRecords, RegisterAccepted, SocketInv, RegistryTypeOK
    <3>2. Register(loop.request, loop.owner, loop.received_at)
      BY <1>4, Zenon DEF RegisterAccepted
    <3>3. \E request \in Requests, owner \in Owners, now \in Nat :
             /\ request = loop.request /\ owner = loop.owner /\ now = loop.received_at
      BY <3>1
    <3> QED
      BY <3>2, <3>3 DEF Register
  <2> DEFINE t == request.target_id
             key == KeyOf[request.ipc_path]
  <2>2. lock = None
    BY <1>4, Zenon DEF RegisterAccepted, Unlocked
  <2>3. /\ t \in Targets
        /\ DOMAIN registrations' = Registered \cup {t}
        /\ \A u \in Registered \ {t} : registrations'[u] = registrations[u]
        /\ RegisteredEntry(request, owner, now)
    BY <2>1, RegisterEffect DEF RelayInv, SocketInv
  <2>4. registrations'[t].ipc_path_key = key
    BY <2>3 DEF RegisteredEntry, RegistrationFor
  <2>5. /\ key \in {KeyOf[p] : p \in AllowedPaths}
        /\ \A u \in Registered \ {t} : registrations[u].ipc_path_key # key
    BY <2>1, Zenon DEF Register, MayRegister, validate_request, IpcPathConflict
  <2> HIDE DEF t, key
  <2>6. /\ Sockets' = [u \in DOMAIN Sockets \cup {t} |-> IF u = t THEN key ELSE Sockets[u]]
        /\ \A u \in DOMAIN Sockets \ {t} : Sockets[u] # key
    BY <2>3, <2>4, <2>5 DEF Sockets, Registered
  <2>7. ExchangeNow = None
    BY <2>2 DEF ExchangeNow
  <2>8. Contract!Place(t, key)
    BY <1>2, <2>6, <2>7, Zenon DEF Contract!Place, Sockets, ExchangeNow, Trail
  <2> DEFINE keys == {KeyOf[p] : p \in AllowedPaths}
  <2>9. t \in Targets /\ key \in keys
    BY <2>3, <2>5
  <2>10. (\E u \in Targets, k \in keys : Contract!Place(u, k)) => Contract!Next
    BY Zenon DEF Contract!Next
  <2> HIDE DEF keys
  <2> QED
    BY <2>8, <2>9, <2>10, Zenon
<1> QED
  BY <1>3, <1>4, Zenon DEF RegistrationStep, LoopNext, AcceptConnection, ReadRequest, ReadFails,
     RegisterRejected, WriteAck, AckFails, sharedVars

\* Every step of the relay is a step of the contract, or none.
THEOREM RelayImplementsContract ==
    Spec => ImplementsContract
<1>1. Init => Contract!Init
  <2> SUFFICES ASSUME Init
               PROVE  Contract!Init
    OBVIOUS
  <2>1. Sockets = [t \in {} |-> None]
    BY DEF Init, RegistryInit, Sockets, Registered
  <2>2. ExchangeNow = None
    BY DEF Init, SessionInit, ExchangeNow
  <2>3. Results(<<>>) = <<>>
    BY DEF Results
  <2>4. Trail = [s \in Sessions |-> <<>>]
    BY <2>3 DEF Init, SessionInit, Closed, Trail
  <2> QED
    BY <2>1, <2>2, <2>4, Zenon DEF Contract!Init, Sockets, ExchangeNow, Trail
<1>2. RelayInv /\ [Next]_vars => [Contract!Next]_Contract!contractVars
  <2> SUFFICES ASSUME RelayInv, [Next]_vars
               PROVE  Contract!Next \/ UNCHANGED Contract!contractVars
    OBVIOUS
  <2>1. CASE RegistrationStep
    BY <2>1, RegistrationImplements
  <2>2. ASSUME NEW s \in Sessions, SessionStep(s)
        PROVE  Contract!Next \/ UNCHANGED Contract!contractVars
    <3>1. SessionNext(s) /\ SessionsInv /\ SocketInv
      BY <2>2, Zenon DEF SessionStep, RelayInv
    <3>2. CASE BindBegin(s) \/ CommandAccepted(s) \/ Exchange(s)
      BY <3>1, <3>2, HeldImplements
    <3>3. CASE ~(BindBegin(s) \/ CommandAccepted(s) \/ Exchange(s))
      <4>1. \E next : Quiet(s, next)
        BY <3>1, <3>3, ConverseIsQuiet, AcquireIsQuiet DEF SessionNext, Acquire, SocketInv
      <4>2. Contract!Leave(s) \/ UNCHANGED Contract!contractVars
        BY <3>1, <4>1, QuietImplements
      <4> QED
        BY <4>2, Zenon DEF Contract!Next
    <3> QED
      BY <3>2, <3>3
  <2>3. CASE TimePasses \/ UNCHANGED vars
    <3>1. UNCHANGED <<registrations, lock, sessions>>
      BY <2>3 DEF TimePasses, Tick, vars, sessionVars
    <3>2. Sockets' = Sockets /\ ExchangeNow' = ExchangeNow /\ Trail' = Trail
      BY <3>1 DEF Sockets, Registered, ExchangeNow, ExchangeOf, Trail
    <3> QED
      BY <3>2 DEF Contract!contractVars, Sockets, ExchangeNow, Trail
  <2> QED
    BY <2>1, <2>2, <2>3 DEF Next
<1> QED
  BY <1>1, <1>2, RelayInvariant, PTL DEF Spec, ImplementsContract, Contract!Spec

\* What the relay promises of its calls to targets, it keeps (bind_target and
\* handle_command under the mutex, and the audit of handle_command).
THEOREM RelayKeepsPromises ==
    Spec => []KeepsPromises
<1>1. None \notin Contract!Exchanges
  BY ExchangeAssumption DEF Contract!Exchanges
<1>2. Contract!Spec => []Contract!Promises
  BY <1>1, Contract!ContractKept
<1> QED
  BY <1>2, RelayImplementsContract, PTL DEF ImplementsContract, KeepsPromises

=============================================================================
