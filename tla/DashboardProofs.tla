--------------------------- MODULE DashboardProofs ---------------------------
(***************************************************************************)
(* What a dashboard is shown and what is recorded of its commands, for any *)
(* number of sessions, targets and messages.                               *)
(***************************************************************************)
EXTENDS RelayProofs, OutboxFacts

-----------------------------------------------------------------------------
(* The audit.                                                              *)

Accepts(audit, i) == audit[i].result = "Accepted"

\* What a target ran was accepted.
RanAccepted(audit, executed) ==
    \A id \in executed : \E i \in DOMAIN audit : audit[i].id = id /\ Accepts(audit, i)

\* Records are of messages that were received; a waiting command has none.
Numbered(audit, received, pc) ==
    \A i \in DOMAIN audit :
        /\ audit[i].id \in Nat /\ audit[i].id <= received
        /\ pc = "command" => audit[i].id # received

AcceptedFirst(audit) ==
    \A i \in DOMAIN audit : \E k \in DOMAIN audit :
        k <= i /\ audit[k].id = audit[i].id /\ Accepts(audit, k)

OneOutcome(audit) ==
    \A i, k \in DOMAIN audit :
        audit[i].id = audit[k].id /\ ~Accepts(audit, i) /\ ~Accepts(audit, k) => i = k

\* An outcome is lacking exactly while the command is with the target.
Awaiting(audit, received, pc) ==
    /\ \A i \in DOMAIN audit :
          (\A k \in DOMAIN audit : audit[k].id = audit[i].id => Accepts(audit, k))
              <=> pc = "forward" /\ audit[i].id = received
    /\ pc = "forward" => \E i \in DOMAIN audit : audit[i].id = received

AuditInv(audit, executed, received, pc) ==
    /\ RanAccepted(audit, executed)
    /\ Numbered(audit, received, pc)
    /\ AcceptedFirst(audit)
    /\ OneOutcome(audit)
    /\ Awaiting(audit, received, pc)

\* More messages, and no command under way before or after.
LEMMA AuditUntouched ==
    ASSUME NEW audit \in Seq(AuditRecords), NEW executed, NEW received \in Nat, NEW pc,
           AuditInv(audit, executed, received, pc), pc # "forward",
           NEW received2 \in Nat, NEW pc2, pc2 # "forward", received <= received2,
           pc2 = "command" => received < received2
    PROVE  AuditInv(audit, executed, received2, pc2)
<1>1. Numbered(audit, received2, pc2)
  BY DEF AuditInv, Numbered
<1>2. Awaiting(audit, received2, pc2)
  BY Zenon DEF AuditInv, Awaiting
<1> QED
  BY <1>1, <1>2 DEF AuditInv

LEMMA AuditAccepts ==
    ASSUME NEW audit \in Seq(AuditRecords), NEW executed, NEW received \in Nat,
           AuditInv(audit, executed, received, "command"),
           NEW audit2, audit2 = Append(audit, Record(received, "Accepted", None))
    PROVE  AuditInv(audit2, executed, received, "forward")
<1> DEFINE n == Len(audit)
           record == Record(received, "Accepted", None)
<1>0. record \in AuditRecords /\ record.id = received /\ record.result = "Accepted"
  BY DEF Record, AuditRecords
<1> HIDE DEF record
<1>1. /\ n \in Nat /\ DOMAIN audit = 1 .. n /\ DOMAIN audit2 = 1 .. n + 1
      /\ \A i \in 1 .. n : audit2[i] = audit[i]
      /\ audit2[n + 1] = record
  BY <1>0, AppendFacts DEF record
<1> HIDE DEF n
<1>2. \A i \in 1 .. n : audit[i].id # received
  BY <1>1 DEF AuditInv, Numbered
<1>3. RanAccepted(audit2, executed)
  BY <1>1 DEF AuditInv, RanAccepted, Accepts
<1>4. Numbered(audit2, received, "forward")
  BY <1>0, <1>1 DEF AuditInv, Numbered
<1>5. ASSUME NEW i \in DOMAIN audit2
      PROVE  \E k \in DOMAIN audit2 :
                 k <= i /\ audit2[k].id = audit2[i].id /\ Accepts(audit2, k)
  <2>1. CASE i = n + 1
    BY <1>0, <1>1, <2>1 DEF Accepts
  <2>2. CASE i \in 1 .. n
    <3>1. PICK k \in 1 .. n : k <= i /\ audit[k].id = audit[i].id /\ Accepts(audit, k)
      BY <1>1, <2>2, Zenon DEF AuditInv, AcceptedFirst
    <3>2. k \in 1 .. n + 1
      BY <1>1
    <3> QED
      BY <1>1, <2>2, <3>1, <3>2 DEF Accepts
  <2> QED
    BY <1>1, <2>1, <2>2
<1>6. OneOutcome(audit2)
  BY <1>0, <1>1 DEF AuditInv, OneOutcome, Accepts
<1>7. ASSUME NEW i \in DOMAIN audit2
      PROVE  (\A k \in DOMAIN audit2 : audit2[k].id = audit2[i].id => Accepts(audit2, k))
                 <=> audit2[i].id = received
  <2>1. CASE i = n + 1
    BY <1>0, <1>1, <1>2, <2>1 DEF Accepts
  <2>2. CASE i \in 1 .. n
    <3>1. PICK k \in 1 .. n : audit[k].id = audit[i].id /\ ~Accepts(audit, k)
      BY <1>1, <2>2, Zenon DEF AuditInv, Awaiting
    <3>2. k \in 1 .. n + 1 /\ i \in 1 .. n + 1
      BY <1>1, <2>2
    <3> QED
      BY <1>1, <1>2, <2>2, <3>1, <3>2 DEF Accepts
  <2> QED
    BY <1>1, <2>1, <2>2
<1>8. \E i \in DOMAIN audit2 : audit2[i].id = received
  BY <1>0, <1>1
<1>9. Awaiting(audit2, received, "forward")
  BY <1>7, <1>8, Zenon DEF Awaiting
<1> QED
  BY <1>3, <1>4, <1>5, <1>6, <1>9 DEF AuditInv, AcceptedFirst

LEMMA AuditConcludes ==
    ASSUME NEW audit \in Seq(AuditRecords), NEW executed, NEW received \in Nat,
           AuditInv(audit, executed, received, "forward"),
           NEW outcome \in {"Rejected", "Completed"}, NEW detail \in Statuses \cup {None},
           NEW audit2, audit2 = Append(audit, Record(received, outcome, detail)),
           NEW executed2, executed2 \subseteq executed \cup {received},
           NEW pc2, pc2 \notin {"command", "forward"}
    PROVE  AuditInv(audit2, executed2, received, pc2)
<1> DEFINE n == Len(audit)
           record == Record(received, outcome, detail)
<1>0. record \in AuditRecords /\ record.id = received /\ record.result # "Accepted"
  BY DEF Record, AuditRecords
<1> HIDE DEF record
<1>1. /\ n \in Nat /\ DOMAIN audit = 1 .. n /\ DOMAIN audit2 = 1 .. n + 1
      /\ \A i \in 1 .. n : audit2[i] = audit[i]
      /\ audit2[n + 1] = record
  BY <1>0, AppendFacts DEF record
<1> HIDE DEF n
<1>2. PICK a \in 1 .. n : audit[a].id = received
  BY <1>1 DEF AuditInv, Awaiting
<1>3. \A k \in 1 .. n : audit[k].id = received => Accepts(audit, k)
  BY <1>1, <1>2, Zenon DEF AuditInv, Awaiting
<1>4. RanAccepted(audit2, executed2)
  <2> SUFFICES ASSUME NEW id \in executed \cup {received}
               PROVE  \E i \in 1 .. n : audit[i].id = id /\ Accepts(audit, i)
    BY <1>1 DEF RanAccepted, Accepts
  <2>1. CASE id = received
    BY <1>2, <1>3, <2>1
  <2>2. CASE id \in executed
    BY <1>1, <2>2 DEF AuditInv, RanAccepted
  <2> QED
    BY <2>1, <2>2
<1>5. Numbered(audit2, received, pc2)
  BY <1>0, <1>1 DEF AuditInv, Numbered
<1>6. ASSUME NEW i \in DOMAIN audit2
      PROVE  \E k \in DOMAIN audit2 :
                 k <= i /\ audit2[k].id = audit2[i].id /\ Accepts(audit2, k)
  <2>1. CASE i = n + 1
    <3>1. a \in 1 .. n + 1 /\ a <= i
      BY <1>1, <2>1
    <3> QED
      BY <1>0, <1>1, <1>2, <1>3, <2>1, <3>1 DEF Accepts
  <2>2. CASE i \in 1 .. n
    <3>1. PICK k \in 1 .. n : k <= i /\ audit[k].id = audit[i].id /\ Accepts(audit, k)
      BY <1>1, <2>2, Zenon DEF AuditInv, AcceptedFirst
    <3>2. k \in 1 .. n + 1
      BY <1>1
    <3> QED
      BY <1>1, <2>2, <3>1, <3>2 DEF Accepts
  <2> QED
    BY <1>1, <2>1, <2>2
<1>7. OneOutcome(audit2)
  BY <1>0, <1>1, <1>3 DEF AuditInv, OneOutcome, Accepts
<1>8. ASSUME NEW i \in DOMAIN audit2
      PROVE  \E k \in DOMAIN audit2 : audit2[k].id = audit2[i].id /\ ~Accepts(audit2, k)
  <2>1. CASE audit2[i].id = received
    BY <1>0, <1>1, <2>1 DEF Accepts
  <2>2. CASE audit2[i].id # received
    <3>1. i \in 1 .. n
      BY <1>0, <1>1, <2>2
    <3>2. PICK k \in 1 .. n : audit[k].id = audit[i].id /\ ~Accepts(audit, k)
      BY <1>1, <2>2, <3>1, Zenon DEF AuditInv, Awaiting
    <3>3. k \in 1 .. n + 1
      BY <1>1
    <3> QED
      BY <1>1, <3>1, <3>2, <3>3 DEF Accepts
  <2> QED
    BY <2>1, <2>2
<1>9. Awaiting(audit2, received, pc2)
  BY <1>8, Zenon DEF Awaiting
<1> QED
  BY <1>4, <1>5, <1>6, <1>7, <1>9 DEF AuditInv, AcceptedFirst

-----------------------------------------------------------------------------
(* What a step of a session adds to its audit and to its messages.         *)

Fields ==
    {"pc", "established", "bound", "todo", "target", "path", "at", "command",
     "received", "outbox", "wire", "audit", "executed"}

\* How a session's audit goes on.
AuditStep(self, next) ==
    \/ /\ next.audit = <<>> /\ next.executed = {}
       /\ next.pc \in {"closed", "greet"}
    \/ /\ next.audit = self.audit /\ next.executed = self.executed
       /\ self.pc # "forward" /\ next.pc # "forward"
       /\ \/ next.received = self.received /\ next.pc # "command"
          \/ next.received = self.received + 1
    \/ /\ self.pc = "command" /\ next.pc = "forward"
       /\ next.audit = Append(self.audit, Record(self.received, "Accepted", None))
       /\ next.executed = self.executed /\ next.received = self.received
    \/ /\ self.pc = "forward" /\ next.pc \in {"flush", "refresh"}
       /\ \E outcome \in {"Rejected", "Completed"}, detail \in Statuses \cup {None} :
             next.audit = Append(self.audit, Record(self.received, outcome, detail))
       /\ next.executed \subseteq self.executed \cup {self.received}
       /\ next.received = self.received

Greeting == {"greet", "hello", "list"}
Binding == {"select", "bind", "state", "subscribe"}
Serving == {"flush", "wait", "command", "forward", "refresh"}

\* How what a session has said goes on.
Resets(next) ==
    /\ next.bound = {} /\ next.wire = <<>>
    /\ \/ next.pc = "closed" /\ next.outbox = <<>>
       \/ next.pc = "greet" /\ next.outbox = <<Message("ServerHello", None)>>

Sends(self, next) ==
    /\ <<self.pc, next.pc>> \in {<<"greet", "hello">>, <<"flush", "wait">>}
    /\ next.bound = self.bound
    /\ next.wire = self.wire \o self.outbox /\ next.outbox = <<>>

Silent(self, next) ==
    /\ \/ self.pc \in Greeting /\ next.pc \in Greeting
       \/ self.pc \in Binding /\ next.pc \in Binding \cup Serving
       \/ self.pc \in Serving /\ next.pc \in Serving
    /\ next.bound = self.bound
    /\ next.wire = self.wire /\ next.outbox = self.outbox

Says(self, next, message) ==
    /\ next.wire = self.wire /\ next.outbox = Append(self.outbox, message)
    /\ \/ /\ self.pc = "list" /\ next.pc = "select" /\ next.bound = self.bound
          /\ message.type = "TargetList"
       \/ /\ self.pc = "subscribe" /\ next.pc \in {"bind", "flush"}
          /\ \E t \in Targets : /\ next.bound = self.bound \cup {t}
                                /\ message = Message("State", t)
       \/ /\ self.pc \in Serving /\ next.pc \in Serving /\ next.bound = self.bound
          /\ message.type \in {"State", "ConnectionState", "CommandResult", "Error"}
          /\ message.type \in {"State", "ConnectionState"} => self.pc = "refresh"

MessageStep(self, next) ==
    \/ Resets(next)
    \/ Sends(self, next)
    \/ Silent(self, next)
    \/ \E message \in Messages : Says(self, next, message)

LEMMA BindingDoneFields ==
    ASSUME DOMAIN sessions = Sessions, NEW s \in Sessions, NEW locals,
           DOMAIN locals = Fields, BindingDone(s, locals)
    PROVE  /\ sessions'[s].pc \in {"bind", "flush"}
           /\ sessions'[s].bound = locals.bound /\ sessions'[s].wire = locals.wire
           /\ sessions'[s].outbox = locals.outbox /\ sessions'[s].audit = locals.audit
           /\ sessions'[s].executed = locals.executed
           /\ sessions'[s].received = locals.received
<1> DEFINE todo == locals.todo \ {locals.target}
           pc == AfterBinding(todo)
<1>1. sessions'[s] = [locals EXCEPT !.pc = pc, !.todo = todo,
                                    !.target = None, !.path = None, !.at = 0]
  BY DEF BindingDone, Goto
<1>2. pc \in {"bind", "flush"}
  BY DEF AfterBinding
<1> HIDE DEF pc, todo
<1> QED
  BY <1>1, <1>2 DEF Fields

LEMMA CommandDoneFields ==
    ASSUME DOMAIN sessions = Sessions, NEW s \in Sessions, NEW locals,
           DOMAIN locals = Fields, CommandDone(s, locals)
    PROVE  /\ sessions'[s].pc = "flush"
           /\ sessions'[s].bound = locals.bound /\ sessions'[s].wire = locals.wire
           /\ sessions'[s].outbox = locals.outbox /\ sessions'[s].audit = locals.audit
           /\ sessions'[s].executed = locals.executed
           /\ sessions'[s].received = locals.received
<1>1. sessions'[s] = [locals EXCEPT !.pc = "flush", !.command = None,
                                    !.target = None, !.path = None, !.at = 0]
  BY DEF CommandDone, Goto
<1> QED
  BY <1>1 DEF Fields

\* The effects of every step of a session.
LEMMA ConverseSteps ==
    ASSUME SessionsInv, NEW s \in Sessions, Converse(s)
    PROVE  /\ AuditStep(sessions[s], sessions'[s])
           /\ MessageStep(sessions[s], sessions'[s])
<1> DEFINE self == sessions[s]
           next == sessions'[s]
<1>d. DOMAIN sessions = Sessions /\ DOMAIN self = Fields /\ self.received \in Nat
  BY DEF SessionsInv, WellFormed, SessionRecords, Fields
<1>m. Message("Error", None) \in Messages /\ Message("Error", None).type = "Error"
  BY DEF Message, Messages
<1> USE DEF Greeting, Binding, Serving
<1>1. CASE Open(s)
  <2>1. next = [Closed EXCEPT !.pc = "greet", !.outbox = <<Message("ServerHello", None)>>]
    BY <1>1, <1>d DEF Open, Goto
  <2>2. Resets(next) /\ AuditStep(self, next)
    BY <2>1 DEF Resets, AuditStep, Closed
  <2> QED
    BY <2>2 DEF MessageStep
<1>2. CASE Flush(s)
  <2> DEFINE wire == self.wire \o self.outbox
             pc == IF self.pc = "greet" THEN "hello" ELSE "wait"
             sent == <<>>
  <2>1. /\ self.pc \in {"greet", "flush"}
        /\ next = [self EXCEPT !.wire = wire, !.outbox = sent, !.pc = pc]
    BY <1>2, <1>d DEF Flush, Goto
  <2>2. <<self.pc, pc>> \in {<<"greet", "hello">>, <<"flush", "wait">>}
    BY <2>1
  <2> HIDE DEF wire, pc, sent
  <2>3. /\ next.pc = pc /\ next.wire = wire /\ next.outbox = sent
        /\ next.bound = self.bound /\ next.audit = self.audit
        /\ next.executed = self.executed /\ next.received = self.received
    BY <2>1, <1>d DEF Fields
  <2>4. Sends(self, next)
    BY <2>2, <2>3 DEF Sends, wire, sent
  <2>5. AuditStep(self, next)
    BY <2>2, <2>3 DEF AuditStep
  <2> QED
    BY <2>4, <2>5 DEF MessageStep
<1>3. CASE HelloAccepted(s)
  <2>1. self.pc = "hello" /\ next = [self EXCEPT !.pc = "list", !.established = TRUE]
    BY <1>3, <1>d DEF HelloAccepted, Goto
  <2>2. /\ next.pc = "list" /\ next.wire = self.wire /\ next.outbox = self.outbox
        /\ next.bound = self.bound /\ next.audit = self.audit
        /\ next.executed = self.executed /\ next.received = self.received
    BY <2>1, <1>d DEF Fields
  <2>3. Silent(self, next) /\ AuditStep(self, next)
    BY <2>1, <2>2 DEF Silent, AuditStep
  <2> QED
    BY <2>3 DEF MessageStep
<1>4. CASE End(s)
  <2>1. next = Closed
    BY <1>4, <1>d DEF End, Goto
  <2>2. Resets(next) /\ AuditStep(self, next)
    BY <2>1 DEF Resets, AuditStep, Closed
  <2> QED
    BY <2>2 DEF MessageStep
<1>5. CASE ReceiveCommand(s)
  <2>0. PICK c \in ClientCommands :
           Goto(s, [self EXCEPT !.pc = "command", !.command = c, !.received = @ + 1])
    BY <1>5, Zenon DEF ReceiveCommand
  <2>1. /\ self.pc = "wait"
        /\ next = [self EXCEPT !.pc = "command", !.command = c, !.received = @ + 1]
    BY <1>5, <1>d, <2>0 DEF ReceiveCommand, Goto
  <2>2. /\ next.pc = "command" /\ next.wire = self.wire /\ next.outbox = self.outbox
        /\ next.bound = self.bound /\ next.audit = self.audit
        /\ next.executed = self.executed /\ next.received = self.received + 1
    BY <2>1, <1>d DEF Fields
  <2>3. Silent(self, next) /\ AuditStep(self, next)
    BY <2>1, <2>2 DEF Silent, AuditStep
  <2> QED
    BY <2>3 DEF MessageStep
<1>6. CASE ReceiveOther(s)
  <2> DEFINE message == Message("Error", None)
             outbox == Append(self.outbox, message)
  <2>1. /\ self.pc = "wait"
        /\ next = [self EXCEPT !.pc = "flush", !.received = @ + 1, !.outbox = outbox]
    BY <1>6, <1>d DEF ReceiveOther, Goto
  <2> HIDE DEF outbox
  <2>2. /\ next.pc = "flush" /\ next.wire = self.wire /\ next.outbox = outbox
        /\ next.bound = self.bound /\ next.audit = self.audit
        /\ next.executed = self.executed /\ next.received = self.received + 1
    BY <2>1, <1>d DEF Fields
  <2>3. Says(self, next, message) /\ AuditStep(self, next)
    BY <1>m, <2>1, <2>2 DEF Says, AuditStep, outbox
  <2> QED
    BY <1>m, <2>3 DEF MessageStep
<1> QED
  BY <1>1, <1>2, <1>3, <1>4, <1>5, <1>6 DEF Converse

LEMMA AcquireSteps ==
    ASSUME SessionsInv, RegistryTypeOK, NEW s \in Sessions, Acquire(s)
    PROVE  /\ AuditStep(sessions[s], sessions'[s])
           /\ MessageStep(sessions[s], sessions'[s])
<1> DEFINE self == sessions[s]
           next == sessions'[s]
<1>d. DOMAIN sessions = Sessions /\ DOMAIN self = Fields /\ self.received \in Nat
  BY DEF SessionsInv, WellFormed, SessionRecords, Fields
<1>m. Message("Error", None) \in Messages /\ Message("Error", None).type = "Error"
  BY DEF Message, Messages
<1> USE DEF Greeting, Binding, Serving
<1>1. CASE PublishTargetList(s)
  <2> DEFINE message == Message("TargetList", active_targets(clock))
             outbox == Append(self.outbox, message)
  <2>1. self.pc = "list" /\ next = [self EXCEPT !.pc = "select", !.outbox = outbox]
    BY <1>1, <1>d DEF PublishTargetList, Goto
  <2>2. active_targets(clock) \subseteq Targets
    BY DEF active_targets, RegistryTypeOK
  <2>3. message \in Messages /\ message.type = "TargetList"
    BY <2>2 DEF Message, Messages
  <2> HIDE DEF outbox, message
  <2>4. /\ next.pc = "select" /\ next.wire = self.wire /\ next.outbox = outbox
        /\ next.bound = self.bound /\ next.audit = self.audit
        /\ next.executed = self.executed /\ next.received = self.received
    BY <2>1, <1>d DEF Fields
  <2>5. Says(self, next, message) /\ AuditStep(self, next)
    BY <2>1, <2>3, <2>4 DEF Says, AuditStep, outbox
  <2> QED
    BY <2>3, <2>5 DEF MessageStep
<1>2. CASE SelectTargets(s)
  <2> DEFINE todo == active_targets(clock)
             pc == AfterBinding(todo)
  <2>1. self.pc = "select" /\ next = [self EXCEPT !.pc = pc, !.todo = todo]
    BY <1>2, <1>d DEF SelectTargets, Goto
  <2>2. pc \in {"flush", "bind"}
    BY DEF AfterBinding
  <2> HIDE DEF pc, todo
  <2>3. /\ next.pc = pc /\ next.wire = self.wire /\ next.outbox = self.outbox
        /\ next.bound = self.bound /\ next.audit = self.audit
        /\ next.executed = self.executed /\ next.received = self.received
    BY <2>1, <1>d DEF Fields
  <2>4. Silent(self, next) /\ AuditStep(self, next)
    BY <2>1, <2>2, <2>3 DEF Silent, AuditStep
  <2> QED
    BY <2>4 DEF MessageStep
<1>3. CASE BindBegin(s)
  <2>0. PICK t \in self.todo :
           Goto(s, [self EXCEPT !.pc = "state", !.target = t, !.at = clock,
                                !.path = registrations[t].ipc_path])
    BY <1>3, Zenon DEF BindBegin
  <2> DEFINE path == registrations[t].ipc_path
  <2>1. /\ self.pc = "bind"
        /\ next = [self EXCEPT !.pc = "state", !.target = t, !.at = clock, !.path = path]
    BY <1>3, <1>d, <2>0 DEF BindBegin, Goto
  <2> HIDE DEF path
  <2>3. /\ next.pc = "state" /\ next.wire = self.wire /\ next.outbox = self.outbox
        /\ next.bound = self.bound /\ next.audit = self.audit
        /\ next.executed = self.executed /\ next.received = self.received
    BY <2>1, <1>d DEF Fields
  <2>4. Silent(self, next) /\ AuditStep(self, next)
    BY <2>1, <2>3 DEF Silent, AuditStep
  <2> QED
    BY <2>4 DEF MessageStep
<1>4. CASE BindSkipped(s)
  <2>0. PICK t \in self.todo :
           Goto(s, [self EXCEPT !.pc = AfterBinding(self.todo \ {t}), !.todo = @ \ {t}])
    BY <1>4, Zenon DEF BindSkipped
  <2> DEFINE pc == AfterBinding(self.todo \ {t})
  <2>1. self.pc = "bind" /\ next = [self EXCEPT !.pc = pc, !.todo = @ \ {t}]
    BY <1>4, <1>d, <2>0 DEF BindSkipped, Goto
  <2>2. pc \in {"flush", "bind"}
    BY DEF AfterBinding
  <2> HIDE DEF pc
  <2>3. /\ next.pc = pc /\ next.wire = self.wire /\ next.outbox = self.outbox
        /\ next.bound = self.bound /\ next.audit = self.audit
        /\ next.executed = self.executed /\ next.received = self.received
    BY <2>1, <1>d DEF Fields
  <2>4. Silent(self, next) /\ AuditStep(self, next)
    BY <2>1, <2>2, <2>3 DEF Silent, AuditStep
  <2> QED
    BY <2>4 DEF MessageStep
<1>5. CASE CommandRefused(s)
  <2> DEFINE message == Message("Error", None)
             outbox == Append(self.outbox, message)
  <2>1. /\ self.pc = "command"
        /\ next = [self EXCEPT !.pc = "flush", !.command = None, !.outbox = outbox]
    BY <1>5, <1>d DEF CommandRefused, Goto
  <2> HIDE DEF outbox
  <2>2. /\ next.pc = "flush" /\ next.wire = self.wire /\ next.outbox = outbox
        /\ next.bound = self.bound /\ next.audit = self.audit
        /\ next.executed = self.executed /\ next.received = self.received
    BY <2>1, <1>d DEF Fields
  <2>3. Says(self, next, message) /\ AuditStep(self, next)
    BY <1>m, <2>1, <2>2 DEF Says, AuditStep, outbox
  <2> QED
    BY <1>m, <2>3 DEF MessageStep
<1>6. CASE CommandAccepted(s)
  <2> DEFINE t == self.command.target_id
             path == registrations[t].ipc_path
             audit == Append(self.audit, Record(self.received, "Accepted", None))
  <2>1. /\ self.pc = "command"
        /\ next = [self EXCEPT !.pc = "forward", !.target = t, !.at = clock,
                               !.path = path, !.audit = audit]
    BY <1>6, <1>d DEF CommandAccepted, Goto
  <2> HIDE DEF t, path, audit
  <2>2. /\ next.pc = "forward" /\ next.wire = self.wire /\ next.outbox = self.outbox
        /\ next.bound = self.bound /\ next.audit = audit
        /\ next.executed = self.executed /\ next.received = self.received
    BY <2>1, <1>d DEF Fields
  <2>3. Silent(self, next) /\ AuditStep(self, next)
    BY <2>1, <2>2 DEF Silent, AuditStep, audit
  <2> QED
    BY <2>3 DEF MessageStep
<1> QED
  BY <1>1, <1>2, <1>3, <1>4, <1>5, <1>6 DEF Acquire

LEMMA ExchangeSteps ==
    ASSUME SessionsInv, RegistryTypeOK, NEW s \in Sessions, Exchange(s)
    PROVE  /\ AuditStep(sessions[s], sessions'[s])
           /\ MessageStep(sessions[s], sessions'[s])
<1> DEFINE self == sessions[s]
           next == sessions'[s]
<1>d. /\ DOMAIN sessions = Sessions /\ DOMAIN self = Fields
      /\ self.received \in Nat
      /\ self.pc \in InIpc => self.target \in Targets
  BY DEF SessionsInv, WellFormed, SessionRecords, Fields
<1>n. None \in Statuses \cup {None} /\ Statuses \subseteq Statuses \cup {None}
  OBVIOUS
<1>m. /\ Message("Error", None) \in Messages
      /\ Message("Error", None).type = "Error"
      /\ \A t \in Targets \cup {None}, type \in {"State", "ConnectionState", "CommandResult"} :
            Message(type, t) \in Messages /\ Message(type, t).type = type
  BY DEF Message, Messages
<1> USE DEF Greeting, Binding, Serving
<1>1. CASE StateRead(s)
  <2>1. self.pc = "state" /\ next = [self EXCEPT !.pc = "subscribe"]
    BY <1>1, <1>d DEF StateRead, Goto
  <2>2. /\ next.pc = "subscribe" /\ next.wire = self.wire /\ next.outbox = self.outbox
        /\ next.bound = self.bound /\ next.audit = self.audit
        /\ next.executed = self.executed /\ next.received = self.received
    BY <2>1, <1>d DEF Fields
  <2>3. Silent(self, next) /\ AuditStep(self, next)
    BY <2>1, <2>2 DEF Silent, AuditStep
  <2> QED
    BY <2>3 DEF MessageStep
<1>2. CASE StateFails(s) \/ SubscribeFails(s)
  <2>1. self.pc \in {"state", "subscribe"} /\ BindingDone(s, self)
    BY <1>2, Zenon DEF StateFails, SubscribeFails
  <2>2. /\ next.pc \in {"bind", "flush"} /\ next.wire = self.wire
        /\ next.outbox = self.outbox /\ next.bound = self.bound
        /\ next.audit = self.audit /\ next.executed = self.executed
        /\ next.received = self.received
    BY <2>1, <1>d, BindingDoneFields
  <2>3. Silent(self, next) /\ AuditStep(self, next)
    BY <2>1, <2>2 DEF Silent, AuditStep
  <2> QED
    BY <2>3 DEF MessageStep
<1>3. CASE Subscribed(s)
  <2> DEFINE t == self.target
             message == Message("State", t)
             bound == self.bound \cup {t}
             outbox == Append(self.outbox, message)
             locals == [self EXCEPT !.bound = bound, !.outbox = outbox]
  <2>1. self.pc = "subscribe" /\ BindingDone(s, locals)
    BY <1>3, Zenon DEF Subscribed
  <2>2. t \in Targets
    BY <1>d, <2>1 DEF InIpc
  <2> HIDE DEF outbox, bound
  <2>3. /\ DOMAIN locals = Fields /\ locals.wire = self.wire
        /\ locals.outbox = outbox /\ locals.bound = bound
        /\ locals.audit = self.audit /\ locals.executed = self.executed
        /\ locals.received = self.received
    BY <1>d DEF Fields
  <2> HIDE DEF locals
  <2>4. /\ next.pc \in {"bind", "flush"} /\ next.wire = self.wire
        /\ next.outbox = outbox /\ next.bound = bound
        /\ next.audit = self.audit /\ next.executed = self.executed
        /\ next.received = self.received
    BY <2>1, <2>3, <1>d, BindingDoneFields
  <2> HIDE DEF t
  <2>5. Says(self, next, message) /\ AuditStep(self, next)
    BY <2>1, <2>2, <2>4 DEF Says, AuditStep, outbox, bound
  <2>6. message \in Messages
    BY <1>m, <2>2
  <2> QED
    BY <2>5, <2>6 DEF MessageStep
<1>4. CASE ForwardFails(s)
  <2>0. PICK ran \in SUBSET {self.received} :
           CommandDone(s, [self EXCEPT !.executed = @ \cup ran,
               !.audit = Append(@, Record(self.received, "Rejected", None)),
               !.outbox = Append(@, Message("Error", None))])
    BY <1>4, Zenon DEF ForwardFails
  <2> DEFINE message == Message("Error", None)
             outbox == Append(self.outbox, message)
             audit == Append(self.audit, Record(self.received, "Rejected", None))
             executed == self.executed \cup ran
             locals == [self EXCEPT !.executed = executed, !.audit = audit, !.outbox = outbox]
  <2>1. self.pc = "forward" /\ CommandDone(s, locals)
    BY <1>4, <2>0, Zenon DEF ForwardFails
  <2> HIDE DEF outbox, audit, executed
  <2>3. /\ DOMAIN locals = Fields /\ locals.wire = self.wire
        /\ locals.outbox = outbox /\ locals.bound = self.bound
        /\ locals.audit = audit /\ locals.executed = executed
        /\ locals.received = self.received
    BY <1>d DEF Fields
  <2> HIDE DEF locals
  <2>4. /\ next.pc = "flush" /\ next.wire = self.wire
        /\ next.outbox = outbox /\ next.bound = self.bound
        /\ next.audit = audit /\ next.executed = executed
        /\ next.received = self.received
    BY <2>1, <2>3, <1>d, CommandDoneFields
  <2>5. Says(self, next, message)
    BY <1>m, <2>1, <2>4 DEF Says, outbox
  <2>6. AuditStep(self, next)
    BY <2>1, <2>4 DEF AuditStep, audit, executed
  <2> QED
    BY <1>m, <2>5, <2>6 DEF MessageStep
<1>5. CASE ForwardSucceeds(s)
  <2>0. PICK reply \in Replies(self.target) :
           IF NeedsRefresh(reply)
           THEN Goto(s, [WithResult(self, reply) EXCEPT !.pc = "refresh",
                             !.target = reply.target_id,
                             !.path = registrations[reply.target_id].ipc_path])
           ELSE CommandDone(s, WithResult(self, reply))
    BY <1>5, Zenon DEF ForwardSucceeds
  <2> DEFINE message == Message("CommandResult", reply.target_id)
             outbox == Append(self.outbox, message)
             audit == Append(self.audit, Record(self.received, "Completed", reply.status))
             executed == IF reply.accepted
                         THEN self.executed \cup {self.received} ELSE self.executed
             locals == WithResult(self, reply)
             path == registrations[reply.target_id].ipc_path
  <2>1. self.pc = "forward"
    BY <1>5 DEF ForwardSucceeds
  <2>r. reply.target_id \in Targets \cup {None} /\ reply.status \in Statuses
    BY <1>d, <2>1, CommandAssumption DEF Replies, InIpc
  <2>2. locals = [self EXCEPT !.executed = executed, !.audit = audit, !.outbox = outbox]
    BY DEF WithResult
  <2>e. executed \subseteq self.executed \cup {self.received}
    OBVIOUS
  <2> HIDE DEF outbox, audit, executed, locals, path
  <2>3. /\ DOMAIN locals = Fields /\ locals.wire = self.wire
        /\ locals.outbox = outbox /\ locals.bound = self.bound
        /\ locals.audit = audit /\ locals.executed = executed
        /\ locals.received = self.received
    BY <1>d, <2>2 DEF Fields
  <2>4. /\ next.pc \in {"flush", "refresh"} /\ next.wire = self.wire
        /\ next.outbox = outbox /\ next.bound = self.bound
        /\ next.audit = audit /\ next.executed = executed
        /\ next.received = self.received
    <3>1. CASE NeedsRefresh(reply)
      <4>1. next = [locals EXCEPT !.pc = "refresh", !.target = reply.target_id, !.path = path]
        BY <2>0, <3>1, <1>d DEF Goto, locals, path
      <4> QED
        BY <2>3, <4>1 DEF Fields
    <3>2. CASE ~NeedsRefresh(reply)
      <4>1. CommandDone(s, locals)
        BY <2>0, <3>2, Zenon DEF locals
      <4> QED
        BY <2>3, <4>1, <1>d, CommandDoneFields
    <3> QED
      BY <3>1, <3>2
  <2>5. Says(self, next, message) /\ message \in Messages
    BY <1>m, <2>r, <2>1, <2>4 DEF Says, outbox
  <2>6. AuditStep(self, next)
    BY <2>1, <2>4, <2>r, <2>e DEF AuditStep, audit
  <2> QED
    BY <2>5, <2>6 DEF MessageStep
<1>6. CASE RefreshRead(s)
  <2> DEFINE message == Message("State", self.target)
             outbox == Append(self.outbox, message)
             locals == [self EXCEPT !.outbox = outbox]
  <2>1. self.pc = "refresh" /\ CommandDone(s, locals)
    BY <1>6, Zenon DEF RefreshRead
  <2>2. message \in Messages /\ message.type = "State"
    BY <1>d, <1>m, <2>1 DEF InIpc
  <2> HIDE DEF outbox, message
  <2>3. /\ DOMAIN locals = Fields /\ locals.wire = self.wire
        /\ locals.outbox = outbox /\ locals.bound = self.bound
        /\ locals.audit = self.audit /\ locals.executed = self.executed
        /\ locals.received = self.received
    BY <1>d DEF Fields
  <2> HIDE DEF locals
  <2>4. /\ next.pc = "flush" /\ next.wire = self.wire
        /\ next.outbox = outbox /\ next.bound = self.bound
        /\ next.audit = self.audit /\ next.executed = self.executed
        /\ next.received = self.received
    BY <2>1, <2>3, <1>d, CommandDoneFields
  <2>5. Says(self, next, message) /\ AuditStep(self, next)
    BY <2>1, <2>2, <2>4 DEF Says, AuditStep, outbox
  <2> QED
    BY <2>2, <2>5 DEF MessageStep
<1>7. CASE RefreshFails(s)
  <2> DEFINE message == Message("ConnectionState", self.target)
             outbox == Append(self.outbox, message)
             locals == [self EXCEPT !.outbox = outbox]
  <2>1. /\ self.pc = "refresh"
        /\ CommandDone(s, IF self.target \in self.bound THEN locals ELSE self)
    BY <1>7, Zenon DEF RefreshFails
  <2>2. message \in Messages /\ message.type = "ConnectionState"
    BY <1>d, <1>m, <2>1 DEF InIpc
  <2> HIDE DEF outbox, message
  <2>3. /\ DOMAIN locals = Fields /\ locals.wire = self.wire
        /\ locals.outbox = outbox /\ locals.bound = self.bound
        /\ locals.audit = self.audit /\ locals.executed = self.executed
        /\ locals.received = self.received
    BY <1>d DEF Fields
  <2> HIDE DEF locals
  <2>4. /\ next.pc = "flush" /\ next.wire = self.wire
        /\ next.outbox \in {self.outbox, outbox} /\ next.bound = self.bound
        /\ next.audit = self.audit /\ next.executed = self.executed
        /\ next.received = self.received
    <3>1. CASE self.target \in self.bound
      BY <2>1, <2>3, <3>1, <1>d, CommandDoneFields
    <3>2. CASE self.target \notin self.bound
      BY <2>1, <3>2, <1>d, CommandDoneFields
    <3> QED
      BY <3>1, <3>2
  <2>5. Silent(self, next) \/ Says(self, next, message)
    BY <2>1, <2>2, <2>4 DEF Silent, Says, outbox
  <2>6. AuditStep(self, next)
    BY <2>1, <2>4 DEF AuditStep
  <2> QED
    BY <2>2, <2>5, <2>6 DEF MessageStep
<1> QED
  BY <1>1, <1>2, <1>3, <1>4, <1>5, <1>6, <1>7, Zenon DEF Exchange

LEMMA SessionSteps ==
    ASSUME RelayInv, NEW s \in Sessions, SessionStep(s)
    PROVE  /\ AuditStep(sessions[s], sessions'[s])
           /\ MessageStep(sessions[s], sessions'[s])
           /\ \A o \in Sessions \ {s} : sessions'[o] = sessions[o]
<1>1. SessionsInv /\ RegistryTypeOK
  BY DEF RelayInv, SocketInv
<1>2. SessionNext(s)
  BY DEF SessionStep
<1>3. \E locals : Goto(s, locals)
  <2> USE DEF BindingDone, CommandDone
  <2>1. CASE Converse(s)
    BY <2>1, Zenon DEF Converse, Open, Flush, HelloAccepted, End, ReceiveCommand, ReceiveOther
  <2>2. CASE Acquire(s)
    BY <2>2, Zenon DEF Acquire, PublishTargetList, SelectTargets, BindBegin, BindSkipped,
       CommandRefused, CommandAccepted
  <2>3. CASE Exchange(s)
    BY <2>3, Zenon DEF Exchange, StateRead, StateFails, Subscribed, SubscribeFails, ForwardFails,
       ForwardSucceeds, RefreshRead, RefreshFails
  <2> QED
    BY <1>2, <2>1, <2>2, <2>3 DEF SessionNext
<1>4. \A o \in Sessions \ {s} : sessions'[o] = sessions[o]
  BY <1>1, <1>3 DEF Goto, SessionsInv
<1> QED
  BY <1>1, <1>2, <1>4, ConverseSteps, AcquireSteps, ExchangeSteps DEF SessionNext

\* A step of the registration task or of time leaves every session as it is.
LEMMA OtherSteps ==
    ASSUME [Next]_vars, \A s \in Sessions : ~SessionStep(s)
    PROVE  UNCHANGED sessions
BY DEF Next, RegistrationStep, TimePasses, sessionVars, vars

-----------------------------------------------------------------------------
(* The audit of every session, for good.                                   *)

AuditOf(self) == AuditInv(self.audit, self.executed, self.received, self.pc)

LEMMA AuditStepKeeps ==
    ASSUME NEW self, NEW next, self.audit \in Seq(AuditRecords), self.received \in Nat,
           AuditOf(self), AuditStep(self, next)
    PROVE  AuditOf(next)
<1>1. CASE /\ next.audit = <<>> /\ next.executed = {}
           /\ next.pc \in {"closed", "greet"}
  BY <1>1 DEF AuditOf, AuditInv, RanAccepted, Numbered, AcceptedFirst, OneOutcome, Awaiting
<1>2. CASE /\ next.audit = self.audit /\ next.executed = self.executed
           /\ self.pc # "forward" /\ next.pc # "forward"
           /\ \/ next.received = self.received /\ next.pc # "command"
              \/ next.received = self.received + 1
  <2>1. /\ next.received \in Nat /\ self.received <= next.received
        /\ next.pc = "command" => self.received < next.received
    BY <1>2
  <2> QED
    BY <1>2, <2>1, AuditUntouched DEF AuditOf
<1>3. CASE /\ self.pc = "command" /\ next.pc = "forward"
           /\ next.audit = Append(self.audit, Record(self.received, "Accepted", None))
           /\ next.executed = self.executed /\ next.received = self.received
  BY <1>3, AuditAccepts DEF AuditOf
<1>4. CASE /\ self.pc = "forward" /\ next.pc \in {"flush", "refresh"}
           /\ \E outcome \in {"Rejected", "Completed"}, detail \in Statuses \cup {None} :
                 next.audit = Append(self.audit, Record(self.received, outcome, detail))
           /\ next.executed \subseteq self.executed \cup {self.received}
           /\ next.received = self.received
  <2>1. PICK outcome \in {"Rejected", "Completed"}, detail \in Statuses \cup {None} :
           next.audit = Append(self.audit, Record(self.received, outcome, detail))
    BY <1>4
  <2>2. AuditInv(self.audit, self.executed, self.received, "forward")
    BY <1>4 DEF AuditOf
  <2>3. next.pc \notin {"command", "forward"}
    BY <1>4
  <2>4. AuditInv(next.audit, next.executed, self.received, next.pc)
    BY <1>4, <2>1, <2>2, <2>3, AuditConcludes
  <2> QED
    BY <1>4, <2>4 DEF AuditOf
<1> QED
  BY <1>1, <1>2, <1>3, <1>4, Zenon DEF AuditStep

AllAudits == \A s \in Sessions : AuditOf(sessions[s])

LEMMA AllAuditsStep ==
    RelayInv /\ AllAudits /\ [Next]_vars => AllAudits'
<1> SUFFICES ASSUME RelayInv, AllAudits, [Next]_vars, NEW o \in Sessions
             PROVE  AuditOf(sessions'[o])
  BY Zenon DEF AllAudits
<1>1. CASE \A s \in Sessions : ~SessionStep(s)
  BY <1>1, OtherSteps, Zenon DEF AllAudits
<1>2. ASSUME NEW s \in Sessions, SessionStep(s)
      PROVE  AuditOf(sessions'[o])
  <2>1. CASE o = s
    <3>1. sessions[s].audit \in Seq(AuditRecords) /\ sessions[s].received \in Nat
      BY DEF RelayInv, SessionsInv, WellFormed, SessionRecords
    <3>2. AuditOf(sessions[s]) /\ AuditStep(sessions[s], sessions'[s])
      BY <1>2, SessionSteps, Zenon DEF AllAudits
    <3> QED
      BY <2>1, <3>1, <3>2, AuditStepKeeps
  <2>2. CASE o # s
    BY <1>2, <2>2, SessionSteps, Zenon DEF AllAudits
  <2> QED
    BY <2>1, <2>2
<1> QED
  BY <1>1, <1>2

\* Every command that a target ran was audited as accepted before, and every
\* acceptance has exactly one outcome, unless its command is with the target: on
\* every way out of handle_command, for any number of messages.
THEOREM AuditsAreComplete ==
    Spec => []ForwardingAudited
<1>1. Init => AllAudits
  BY DEF Init, SessionInit, Closed, AllAudits, AuditOf, AuditInv, RanAccepted, Numbered,
     AcceptedFirst, OneOutcome, Awaiting
<1>2. RelayInv /\ AllAudits /\ [Next]_vars => AllAudits'
  BY AllAuditsStep
<1>3. RelayInv /\ AllAudits => ForwardingAudited
  <2> SUFFICES ASSUME RelayInv, AllAudits, NEW s \in Sessions
               PROVE  LET self == sessions[s]
                          Marks(id, result) == {i \in DOMAIN self.audit :
                              self.audit[i].id = id /\ self.audit[i].result = result}
                          Outcomes(id) == Marks(id, "Rejected") \cup Marks(id, "Completed")
                          Pending(id) == self.pc = "forward" /\ id = self.received
                      IN  /\ \A id \in self.executed : Marks(id, "Accepted") # {}
                          /\ \A i \in DOMAIN self.audit :
                                LET id == self.audit[i].id
                                IN  /\ \E a \in Marks(id, "Accepted") : a <= i
                                    /\ \A o, q \in Outcomes(id) : o = q
                                    /\ Outcomes(id) = {} <=> Pending(id)
    BY Zenon DEF ForwardingAudited
  <2> DEFINE self == sessions[s]
             audit == self.audit
             Marks(id, result) == {i \in DOMAIN audit :
                 audit[i].id = id /\ audit[i].result = result}
             Outcomes(id) == Marks(id, "Rejected") \cup Marks(id, "Completed")
  <2>1. AuditInv(audit, self.executed, self.received, self.pc)
    BY Zenon DEF AllAudits, AuditOf
  <2>2. audit \in Seq(AuditRecords)
    BY DEF RelayInv, SessionsInv, WellFormed, SessionRecords
  <2> HIDE DEF audit, self
  <2>3. ASSUME NEW i \in DOMAIN audit
        PROVE  ~Accepts(audit, i) <=> audit[i].result \in {"Rejected", "Completed"}
    <3>1. audit[i] \in AuditRecords
      BY <2>2
    <3> QED
      BY <3>1 DEF AuditRecords, Accepts
  <2>4. \A id \in self.executed : Marks(id, "Accepted") # {}
    BY <2>1 DEF AuditInv, RanAccepted, Accepts
  <2>5. ASSUME NEW i \in DOMAIN audit
        PROVE  /\ \E a \in Marks(audit[i].id, "Accepted") : a <= i
               /\ \A o, q \in Outcomes(audit[i].id) : o = q
               /\ Outcomes(audit[i].id) = {}
                      <=> self.pc = "forward" /\ audit[i].id = self.received
    <3>1. \E a \in Marks(audit[i].id, "Accepted") : a <= i
      BY <2>1 DEF AuditInv, AcceptedFirst, Accepts
    <3>2. \A k : k \in Outcomes(audit[i].id) <=>
                     k \in DOMAIN audit /\ audit[k].id = audit[i].id /\ ~Accepts(audit, k)
      BY <2>3
    <3> HIDE DEF Outcomes
    <3>3. \A o, q \in Outcomes(audit[i].id) : o = q
      BY <2>1, <3>2 DEF AuditInv, OneOutcome
    <3>4. Outcomes(audit[i].id) = {} <=> self.pc = "forward" /\ audit[i].id = self.received
      BY <2>1, <3>2 DEF AuditInv, Awaiting
    <3> QED
      BY <3>1, <3>3, <3>4
  <2> QED
    BY <2>4, <2>5 DEF audit, self
<1> QED
  BY <1>1, <1>2, <1>3, RelayInvariant, PTL DEF Spec

-----------------------------------------------------------------------------
(* The messages of every session, for good.                                *)

\* The places of history follow the phases of a session: greeting, binding, serving.
Opened(history, pc) ==
    /\ pc = "closed" => history = <<>>
    /\ pc \in Greeting => Len(history) = 1
    /\ pc \in Binding \cup Serving => Len(history) >= 2
    /\ pc # "closed" => history[1] = Message("ServerHello", None)

ListSecond(history) ==
    \A i \in DOMAIN history : history[i].type = "TargetList" <=> i = 2

Shown(history, bound) ==
    \A t \in bound : \E i \in DOMAIN history : history[i] = Message("State", t)

\* Nothing is answered before serving, and then only after the state was shown.
AnsweredLate(history, pc, bound) ==
    \A i \in DOMAIN history :
        /\ history[i].type = "CommandResult" => pc \in Serving
        /\ \A t \in bound : history[i] = Message("CommandResult", t) =>
               \E k \in DOMAIN history : k < i /\ history[k] = Message("State", t)

OrderInv(history, pc, bound) ==
    /\ Opened(history, pc)
    /\ ListSecond(history)
    /\ Shown(history, bound)
    /\ AnsweredLate(history, pc, bound)

LEMMA OrderAppend ==
    ASSUME NEW history \in Seq(Messages), NEW pc, NEW bound, OrderInv(history, pc, bound),
           NEW message \in Messages, NEW pc2, NEW bound2,
           \/ /\ pc = "list" /\ pc2 = "select" /\ bound2 = bound
              /\ message.type = "TargetList"
           \/ /\ pc = "subscribe" /\ pc2 \in {"bind", "flush"}
              /\ \E t \in Targets : bound2 = bound \cup {t} /\ message = Message("State", t)
           \/ /\ pc \in Serving /\ pc2 \in Serving /\ bound2 = bound
              /\ message.type \in {"State", "ConnectionState", "CommandResult", "Error"},
           NEW more, more = Append(history, message)
    PROVE  OrderInv(more, pc2, bound2)
<1> DEFINE n == Len(history)
<1>1. /\ n \in Nat /\ DOMAIN history = 1 .. n /\ Len(more) = n + 1 /\ DOMAIN more = 1 .. n + 1
      /\ \A i \in 1 .. n : more[i] = history[i]
      /\ more[n + 1] = message
  BY AppendFacts
<1>n. n = Len(history)
  OBVIOUS
<1> HIDE DEF n
<1>2. /\ n >= 1 /\ history[1] = Message("ServerHello", None)
      /\ pc = "list" => n = 1
      /\ pc # "list" => n >= 2
  BY <1>1, <1>n DEF OrderInv, Opened, Greeting, Binding, Serving
<1>3. Opened(more, pc2)
  BY <1>1, <1>2 DEF Opened, Greeting, Binding, Serving
<1>4. ListSecond(more)
  <2>1. message.type = "TargetList" <=> n = 1
    BY <1>2 DEF Message, Serving
  <2>2. \A i \in 1 .. n : history[i].type = "TargetList" <=> i = 2
    BY <1>1 DEF OrderInv, ListSecond
  <2> QED
    BY <1>1, <2>1, <2>2 DEF ListSecond
<1>5. ASSUME NEW t \in bound2
      PROVE  \E i \in DOMAIN more : more[i] = Message("State", t)
  <2>1. CASE t \in bound
    <3>1. PICK i \in 1 .. n : history[i] = Message("State", t)
      BY <1>1, <2>1 DEF OrderInv, Shown
    <3> QED
      BY <1>1, <3>1
  <2>2. CASE t \notin bound
    <3>1. message = Message("State", t)
      BY <2>2
    <3> QED
      BY <1>1, <3>1
  <2> QED
    BY <2>1, <2>2
<1>6. ASSUME NEW i \in DOMAIN more
      PROVE  more[i].type = "CommandResult" => pc2 \in Serving
  <2>1. CASE i = n + 1
    BY <1>1, <2>1 DEF Message
  <2>2. CASE i \in 1 .. n
    <3>1. history[i].type = "CommandResult" => pc \in Serving
      BY <1>1, <2>2 DEF OrderInv, AnsweredLate
    <3> QED
      BY <1>1, <2>2, <3>1 DEF Serving
  <2> QED
    BY <1>1, <2>1, <2>2
<1>7. ASSUME NEW i \in DOMAIN more, NEW t \in bound2, more[i] = Message("CommandResult", t)
      PROVE  \E k \in DOMAIN more : k < i /\ more[k] = Message("State", t)
  <2>t. more[i].type = "CommandResult"
    BY <1>7 DEF Message
  <2>1. CASE i = n + 1
    <3>1. t \in bound
      BY <1>1, <2>1, <2>t DEF Message
    <3>2. PICK k \in 1 .. n : history[k] = Message("State", t)
      BY <1>1, <3>1 DEF OrderInv, Shown
    <3> QED
      BY <1>1, <2>1, <3>2
  <2>2. CASE i \in 1 .. n
    <3>1. history[i] = Message("CommandResult", t) /\ history[i].type = "CommandResult"
      BY <1>1, <1>7, <2>2, <2>t
    <3>2. pc \in Serving
      BY <1>1, <2>2, <3>1 DEF OrderInv, AnsweredLate
    <3>3. t \in bound
      BY <3>2 DEF Serving
    <3>4. PICK k \in 1 .. n : k < i /\ history[k] = Message("State", t)
      BY <1>1, <2>2, <3>1, <3>3 DEF OrderInv, AnsweredLate
    <3> QED
      BY <1>1, <3>4
  <2> QED
    BY <1>1, <2>1, <2>2
<1>8. Shown(more, bound2) /\ AnsweredLate(more, pc2, bound2)
  BY <1>5, <1>6, <1>7 DEF Shown, AnsweredLate
<1> QED
  BY <1>3, <1>4, <1>8 DEF OrderInv

Said(self) == self.wire \o self.outbox

OrderOf(self) == OrderInv(Said(self), self.pc, self.bound)

LEMMA MessageStepKeeps ==
    ASSUME NEW self, NEW next, self.wire \in Seq(Messages), self.outbox \in Seq(Messages),
           OrderOf(self), MessageStep(self, next)
    PROVE  OrderOf(next)
<1>1. CASE Resets(next)
  <2>1. \/ next.pc = "closed" /\ Said(next) = <<>>
        \/ next.pc = "greet" /\ Said(next) = <<Message("ServerHello", None)>>
    BY <1>1, ConcatEmptySeq DEF Resets, Said, Messages, Message
  <2>2. Message("ServerHello", None).type = "ServerHello"
    BY DEF Message
  <2>3. next.bound = {}
    BY <1>1 DEF Resets
  <2> QED
    BY <2>1, <2>2, <2>3 DEF OrderOf, OrderInv, Opened, ListSecond, Shown, AnsweredLate, Greeting,
       Binding, Serving
<1>2. CASE Sends(self, next)
  <2>1. Said(self) \in Seq(Messages)
    BY ConcatProperties DEF Said
  <2>2. Said(next) = Said(self)
    BY <1>2, <2>1, ConcatEmptySeq DEF Sends, Said
  <2>3. /\ next.bound = self.bound
        /\ \/ self.pc = "greet" /\ next.pc = "hello"
           \/ self.pc = "flush" /\ next.pc = "wait"
    BY <1>2 DEF Sends
  <2> QED
    BY <2>2, <2>3 DEF OrderOf, OrderInv, Opened, AnsweredLate, Greeting, Binding, Serving
<1>3. CASE Silent(self, next)
  <2>1. Said(next) = Said(self) /\ next.bound = self.bound
    BY <1>3 DEF Silent, Said
  <2>2. \/ self.pc \in Greeting /\ next.pc \in Greeting
        \/ self.pc \in Binding /\ next.pc \in Binding \cup Serving
        \/ self.pc \in Serving /\ next.pc \in Serving
    BY <1>3 DEF Silent
  <2> QED
    BY <2>1, <2>2 DEF OrderOf, OrderInv, Opened, AnsweredLate, Greeting, Binding, Serving
<1>4. ASSUME NEW message \in Messages, Says(self, next, message)
      PROVE  OrderOf(next)
  <2>0. next.wire = self.wire /\ next.outbox = Append(self.outbox, message)
    BY <1>4 DEF Says
  <2>1. Said(self) \in Seq(Messages) /\ Said(next) = Append(Said(self), message)
    <3>1. Said(self) \in Seq(Messages)
      BY ConcatProperties DEF Said
    <3>2. \A p, q \in Seq(Messages), e \in Messages : p \o Append(q, e) = Append(p \o q, e)
      BY AppendLater
    <3> QED
      BY <2>0, <3>1, <3>2, Zenon DEF Said
  <2>2. OrderInv(Said(next), next.pc, next.bound)
    BY <1>4, <2>1, OrderAppend, Zenon DEF OrderOf, Says
  <2> QED
    BY <2>2 DEF OrderOf
<1> QED
  BY <1>1, <1>2, <1>3, <1>4, Zenon DEF MessageStep

AllOrders == \A s \in Sessions : OrderOf(sessions[s])

LEMMA AllOrdersStep ==
    RelayInv /\ AllOrders /\ [Next]_vars => AllOrders'
<1> SUFFICES ASSUME RelayInv, AllOrders, [Next]_vars, NEW o \in Sessions
             PROVE  OrderOf(sessions'[o])
  BY Zenon DEF AllOrders
<1>1. CASE \A s \in Sessions : ~SessionStep(s)
  BY <1>1, OtherSteps, Zenon DEF AllOrders
<1>2. ASSUME NEW s \in Sessions, SessionStep(s)
      PROVE  OrderOf(sessions'[o])
  <2>1. CASE o = s
    <3>1. sessions[s].wire \in Seq(Messages) /\ sessions[s].outbox \in Seq(Messages)
      BY DEF RelayInv, SessionsInv, WellFormed, SessionRecords
    <3>2. OrderOf(sessions[s]) /\ MessageStep(sessions[s], sessions'[s])
      BY <1>2, SessionSteps, Zenon DEF AllOrders
    <3> QED
      BY <2>1, <3>1, <3>2, MessageStepKeeps
  <2>2. CASE o # s
    BY <1>2, <2>2, SessionSteps, Zenon DEF AllOrders
  <2> QED
    BY <2>1, <2>2
<1> QED
  BY <1>1, <1>2

\* A dashboard is greeted first, gets the target list second and once, and sees the
\* state of a target before any answer of it, however long the session lasts.
THEOREM DashboardsAreOrdered ==
    Spec => []DashboardOrder
<1>1. Init => AllOrders
  BY ConcatEmptySeq DEF Init, SessionInit, Closed, AllOrders, OrderOf, Said, OrderInv, Opened,
     ListSecond, Shown, AnsweredLate, Greeting, Binding, Serving
<1>2. RelayInv /\ AllOrders /\ [Next]_vars => AllOrders'
  BY AllOrdersStep
<1>3. AllOrders => DashboardOrder
  <2> SUFFICES ASSUME AllOrders, NEW s \in Sessions
               PROVE  LET history == History(s)
                          At(type, about) ==
                              {i \in DOMAIN history : history[i] = Message(type, about)}
                      IN  /\ sessions[s].pc # "closed" => history[1] = Message("ServerHello", None)
                          /\ \A i \in DOMAIN history : history[i].type = "TargetList" <=> i = 2
                          /\ \A t \in sessions[s].bound : At("State", t) # {}
                          /\ \A t \in sessions[s].bound, i \in DOMAIN history :
                                history[i] = Message("CommandResult", t) =>
                                    \E k \in At("State", t) : k < i
    BY Zenon DEF DashboardOrder
  <2>1. OrderInv(History(s), sessions[s].pc, sessions[s].bound)
    BY Zenon DEF AllOrders, OrderOf, Said, History
  <2> QED
    BY <2>1 DEF OrderInv, Opened, ListSecond, Shown, AnsweredLate
<1> QED
  BY <1>1, <1>2, <1>3, RelayInvariant, PTL DEF Spec

-----------------------------------------------------------------------------
(* What a dashboard was told last.                                         *)

\* The state recorded of one target changes, and of no other.
Touched(t, state) ==
    /\ t \in Registered
    /\ connections'[t].state = state
    /\ \A u \in Registered \ {t} : connections'[u].state = connections[u].state

LEMMA MarksTouch ==
    ASSUME RegistryTypeOK, NEW t
    PROVE  /\ \A now : BeginBinding(t, now) => Touched(t, "Connecting")
           /\ \A generation, now : MarkConnected(t, generation, now) => Touched(t, "Connected")
           /\ \A reason, now : MarkUnavailable(t, reason, now) => Touched(t, "Unavailable")
<1>1. DOMAIN connections = Registered /\ \A u \in Registered : connections[u] \in ConnectionRecords
  BY DEF RegistryTypeOK
<1>2. ASSUME NEW now, BeginBinding(t, now)
      PROVE  Touched(t, "Connecting")
  BY <1>1, <1>2 DEF BeginBinding, UpdateConnection, Touched, ConnectionRecords
<1>3. ASSUME NEW generation, NEW now, MarkConnected(t, generation, now)
      PROVE  Touched(t, "Connected")
  BY <1>1, <1>3 DEF MarkConnected, UpdateConnection, Touched, ConnectionRecords
<1>4. ASSUME NEW reason, NEW now, MarkUnavailable(t, reason, now)
      PROVE  Touched(t, "Unavailable")
  BY <1>1, <1>4 DEF MarkUnavailable, UpdateConnection, Touched, ConnectionRecords
<1> QED
  BY <1>2, <1>3, <1>4

\* What a dashboard was told last of a target fits the state recorded.
Known(self, t) ==
    /\ connections[t].state = "Connected" => HeardAs(Said(self), t, "State")
    /\ connections[t].state = "Unavailable" => HeardAs(Said(self), t, "ConnectionState")

\* A target that is being bound is not bound yet, and connected once it has answered.
Apart(self) ==
    /\ self.bound \subseteq Registered
    /\ self.pc \in {"state", "subscribe"} => self.target \notin self.bound
    /\ self.pc = "subscribe" => connections[self.target].state = "Connected"

\* A step leaves no target out of date that was not so before.
Freshens(s) ==
    \A t \in sessions'[s].bound :
        Known(sessions[s], t)' \/ (t \in sessions[s].bound /\ ~Known(sessions[s], t))

\* The ways in which a step of a session bears on what it was told.
HearsNothing(self, next) ==
    /\ UNCHANGED connections
    /\ next.pc \notin {"state", "subscribe"}
    /\ \/ next.bound = {}
       \/ /\ next.bound = self.bound
          /\ \/ Said(next) = Said(self)
             \/ \E message \in Messages : /\ message.type \notin {"State", "ConnectionState"}
                                          /\ Said(next) = Append(Said(self), message)

TouchesUnbound(self, next) ==
    /\ next.bound = self.bound /\ Said(next) = Said(self)
    /\ \E t \in Targets \ self.bound, state \in ConnectionStates :
          /\ Touched(t, state)
          /\ next.pc \in {"state", "subscribe"} => next.target = t
          /\ next.pc = "subscribe" => state = "Connected"

HearsOf(self, next) ==
    /\ next.pc \notin {"state", "subscribe"}
    /\ \E t \in Targets, message \in Messages :
          /\ next.bound \subseteq self.bound \cup {t}
          /\ Said(next) = Append(Said(self), message)
          /\ message.about = t
          /\ \/ message.type = "State" /\ Touched(t, "Connected")
             \/ message.type = "ConnectionState" /\ Touched(t, "Unavailable")

LEMMA SaidIs ==
    ASSUME NEW self, NEW next, self.wire \in Seq(Messages), self.outbox \in Seq(Messages)
    PROVE  /\ Said(self) \in Seq(Messages)
           /\ next.wire = self.wire /\ next.outbox = self.outbox => Said(next) = Said(self)
           /\ next.wire = self.wire \o self.outbox /\ next.outbox = <<>> => Said(next) = Said(self)
           /\ \A message \in Messages :
                 next.wire = self.wire /\ next.outbox = Append(self.outbox, message) =>
                     Said(next) = Append(Said(self), message)
<1>1. Said(self) \in Seq(Messages)
  BY ConcatProperties DEF Said
<1>2. next.wire = self.wire /\ next.outbox = self.outbox => Said(next) = Said(self)
  BY Zenon DEF Said
<1>3. next.wire = self.wire \o self.outbox /\ next.outbox = <<>> => Said(next) = Said(self)
  BY <1>1, ConcatEmptySeq DEF Said
<1>4. \A p, q \in Seq(Messages), e \in Messages : p \o Append(q, e) = Append(p \o q, e)
  BY AppendLater
<1>5. \A message \in Messages :
          next.wire = self.wire /\ next.outbox = Append(self.outbox, message) =>
              Said(next) = Append(Said(self), message)
  BY <1>4, Zenon DEF Said
<1> QED
  BY <1>1, <1>2, <1>3, <1>5

LEMMA SilentStep ==
    ASSUME NEW self, NEW next, MessageStep(self, next),
           self.wire \in Seq(Messages), self.outbox \in Seq(Messages),
           self.pc \notin {"subscribe", "refresh"},
           next.pc \notin {"state", "subscribe"}, UNCHANGED connections
    PROVE  HearsNothing(self, next)
<1>1. CASE Resets(next)
  <2>1. next.bound = {}
    BY <1>1 DEF Resets
  <2> QED
    BY <2>1, Zenon DEF HearsNothing
<1>2. CASE Sends(self, next) \/ Silent(self, next)
  <2>1. next.bound = self.bound
    BY <1>2 DEF Sends, Silent
  <2>2. Said(next) = Said(self)
    BY <1>2, SaidIs, Zenon DEF Sends, Silent
  <2> QED
    BY <2>1, <2>2, Zenon DEF HearsNothing
<1>3. ASSUME NEW message \in Messages, Says(self, next, message)
      PROVE  HearsNothing(self, next)
  <2>1. Said(next) = Append(Said(self), message)
    BY <1>3, SaidIs, Zenon DEF Says
  <2>2. next.bound = self.bound /\ message.type \notin {"State", "ConnectionState"}
    BY <1>3 DEF Says
  <2> QED
    BY <2>1, <2>2, Zenon DEF HearsNothing
<1> QED
  BY <1>1, <1>2, <1>3, Zenon DEF MessageStep

\* Talking to the client, reading the list of targets and forwarding a command.
LEMMA QuietHears ==
    ASSUME RelayInv, NEW s \in Sessions, SessionStep(s),
           \/ Converse(s) \/ PublishTargetList(s) \/ SelectTargets(s) \/ BindSkipped(s)
           \/ CommandRefused(s) \/ CommandAccepted(s) \/ ForwardFails(s) \/ ForwardSucceeds(s)
    PROVE  HearsNothing(sessions[s], sessions'[s])
<1>1. /\ SessionsInv /\ SocketInv /\ RegistryTypeOK
      /\ sessions[s].wire \in Seq(Messages) /\ sessions[s].outbox \in Seq(Messages)
  BY DEF RelayInv, SocketInv, SessionsInv, WellFormed, SessionRecords
<1>2. MessageStep(sessions[s], sessions'[s])
  BY SessionSteps
<1>3. \A next : Goto(s, next) => sessions'[s] = next
  BY <1>1 DEF Goto, SessionsInv
<1> USE DEF Talking, Acquiring, InIpc
<1>4. /\ sessions[s].pc \notin {"subscribe", "refresh"}
      /\ sessions'[s].pc \notin {"state", "subscribe"}
      /\ UNCHANGED connections
  <2>1. CASE \/ Converse(s) \/ PublishTargetList(s) \/ SelectTargets(s)
             \/ BindSkipped(s) \/ CommandRefused(s)
    <3>1. PICK next : Quiet(s, next)
      BY <1>1, <2>1, ConverseIsQuiet, AcquireIsQuiet, Zenon
    <3> QED
      BY <1>3, <3>1 DEF Quiet, sharedVars
  <2>2. CASE CommandAccepted(s)
    <3>1. PICK next : Held(s, next) /\ next.pc = "forward" /\ UNCHANGED connections
      BY <1>1, <2>2, CommandAcceptedEffect
    <3> QED
      BY <1>3, <2>2, <3>1 DEF Held, CommandAccepted
  <2>3. CASE ForwardFails(s) \/ ForwardSucceeds(s)
    <3>1. PICK next : /\ Held(s, next) /\ sessions[s].pc = "forward"
                      /\ next.pc \in {"flush", "refresh"} /\ UNCHANGED connections
      BY <1>1, <2>3, ForwardFailsEffect, ForwardSucceedsEffect
    <3> QED
      BY <1>3, <3>1 DEF Held
  <2> QED
    BY <2>1, <2>2, <2>3
<1> QED
  BY <1>1, <1>2, <1>4, SilentStep

\* Beginning a binding, and an answer that does not bind yet.
LEMMA BindingHears ==
    ASSUME RelayInv, NEW s \in Sessions, Apart(sessions[s]),
           BindBegin(s) \/ StateRead(s) \/ StateFails(s) \/ SubscribeFails(s)
    PROVE  TouchesUnbound(sessions[s], sessions'[s])
<1> DEFINE self == sessions[s]
           next == sessions'[s]
<1>1. /\ SessionsInv /\ RegistryTypeOK
      /\ DOMAIN sessions = Sessions /\ DOMAIN self = Fields
      /\ self.pc \in {"state", "subscribe"} => self.target \in Targets
  BY DEF RelayInv, SocketInv, SessionsInv, WellFormed, SessionRecords, Fields, InIpc
<1>2. {"Connecting", "Connected", "Unavailable"} \subseteq ConnectionStates
  BY DEF ConnectionStates
<1>3. CASE BindBegin(s)
  <2>1. PICK t \in self.todo :
           /\ t \in active_targets(clock) /\ t \notin self.bound
           /\ BeginBinding(t, clock)
           /\ Goto(s, [self EXCEPT !.pc = "state", !.target = t, !.at = clock,
                                   !.path = registrations[t].ipc_path])
    BY <1>3, Zenon DEF BindBegin
  <2> DEFINE path == registrations[t].ipc_path
  <2>2. next = [self EXCEPT !.pc = "state", !.target = t, !.at = clock, !.path = path]
    BY <1>1, <2>1 DEF Goto
  <2> HIDE DEF path
  <2>3. /\ next.pc = "state" /\ next.target = t /\ next.bound = self.bound
        /\ next.wire = self.wire /\ next.outbox = self.outbox
    BY <1>1, <2>2 DEF Fields
  <2>4. t \in Targets \ self.bound /\ Touched(t, "Connecting") /\ Said(next) = Said(self)
    BY <1>1, <2>1, <2>3, MarksTouch DEF active_targets, RegistryTypeOK, Said
  <2> QED
    BY <1>2, <2>3, <2>4 DEF TouchesUnbound
<1>4. CASE StateRead(s)
  <2>1. /\ self.pc = "state" /\ next = [self EXCEPT !.pc = "subscribe"]
        /\ \E generation \in Generations : MarkConnected(self.target, generation, self.at)
    BY <1>1, <1>4 DEF StateRead, Goto
  <2>2. /\ next.pc = "subscribe" /\ next.target = self.target /\ next.bound = self.bound
        /\ next.wire = self.wire /\ next.outbox = self.outbox
    BY <1>1, <2>1 DEF Fields
  <2>3. /\ self.target \in Targets \ self.bound /\ Touched(self.target, "Connected")
        /\ Said(next) = Said(self)
    BY <1>1, <2>1, <2>2, MarksTouch DEF Apart, Said
  <2> QED
    BY <1>2, <2>2, <2>3 DEF TouchesUnbound
<1>5. CASE StateFails(s) \/ SubscribeFails(s)
  <2>1. /\ self.pc \in {"state", "subscribe"} /\ BindingDone(s, self)
        /\ MarkUnavailable(self.target, "ipc_failed", self.at)
    BY <1>5, Zenon DEF StateFails, SubscribeFails
  <2>2. /\ next.pc \in {"bind", "flush"} /\ next.bound = self.bound
        /\ next.wire = self.wire /\ next.outbox = self.outbox
    BY <1>1, <2>1, BindingDoneFields
  <2>3. /\ self.target \in Targets \ self.bound /\ Touched(self.target, "Unavailable")
        /\ Said(next) = Said(self)
    BY <1>1, <2>1, <2>2, MarksTouch DEF Apart, Said
  <2> QED
    BY <1>2, <2>2, <2>3 DEF TouchesUnbound
<1> QED
  BY <1>3, <1>4, <1>5

\* A binding that succeeds, and the state read again after a command.
LEMMA AnswerHears ==
    ASSUME RelayInv, NEW s \in Sessions, Apart(sessions[s]),
           Subscribed(s) \/ RefreshRead(s) \/ RefreshFails(s)
    PROVE  TouchesUnbound(sessions[s], sessions'[s]) \/ HearsOf(sessions[s], sessions'[s])
<1> DEFINE self == sessions[s]
           next == sessions'[s]
           t == self.target
           Told(type) == Append(self.outbox, Message(type, t))
<1>1. /\ SessionsInv /\ RegistryTypeOK /\ InForce(self)
      /\ DOMAIN sessions = Sessions /\ DOMAIN self = Fields
      /\ self.wire \in Seq(Messages) /\ self.outbox \in Seq(Messages)
      /\ self.pc \in InIpc => t \in Targets
  BY DEF RelayInv, SocketInv, SessionsInv, WellFormed, SessionRecords, Fields
<1>2. self.pc \in {"subscribe", "refresh"} /\ t \in Targets /\ t \in Registered
  BY <1>1 DEF Subscribed, RefreshRead, RefreshFails, InIpc, InForce
<1>3. \A type \in {"State", "ConnectionState"} :
          /\ Message(type, t) \in Messages
          /\ Message(type, t).type = type /\ Message(type, t).about = t
  BY <1>2 DEF Message, Messages
<1>4. CASE Subscribed(s)
  <2> DEFINE outbox == Told("State")
             bound == self.bound \cup {t}
             locals == [self EXCEPT !.bound = bound, !.outbox = outbox]
  <2>1. self.pc = "subscribe" /\ BindingDone(s, locals) /\ UNCHANGED connections
    BY <1>4, Zenon DEF Subscribed
  <2> HIDE DEF outbox, bound
  <2>2. /\ DOMAIN locals = Fields /\ locals.wire = self.wire
        /\ locals.outbox = outbox /\ locals.bound = bound
    BY <1>1 DEF Fields
  <2> HIDE DEF locals
  <2>3. /\ next.pc \in {"bind", "flush"} /\ next.bound = bound
        /\ next.wire = self.wire /\ next.outbox = outbox
    BY <1>1, <2>1, <2>2, BindingDoneFields
  <2>4. Said(next) = Append(Said(self), Message("State", t))
    BY <1>1, <1>3, <2>3, SaidIs, Zenon DEF outbox
  <2>5. Touched(t, "Connected")
    BY <1>2, <2>1 DEF Apart, Touched
  <2>6. next.bound \subseteq self.bound \cup {t} /\ next.pc \notin {"state", "subscribe"}
    BY <2>3 DEF bound
  <2> QED
    BY <1>2, <1>3, <2>4, <2>5, <2>6, Zenon DEF HearsOf
<1>5. CASE RefreshRead(s)
  <2> DEFINE outbox == Told("State")
             locals == [self EXCEPT !.outbox = outbox]
  <2>1. /\ CommandDone(s, locals)
        /\ \E generation \in Generations : MarkConnected(t, generation, self.at)
    BY <1>5, Zenon DEF RefreshRead
  <2> HIDE DEF outbox
  <2>2. /\ DOMAIN locals = Fields /\ locals.wire = self.wire
        /\ locals.outbox = outbox /\ locals.bound = self.bound
    BY <1>1 DEF Fields
  <2> HIDE DEF locals
  <2>3. /\ next.pc = "flush" /\ next.bound = self.bound
        /\ next.wire = self.wire /\ next.outbox = outbox
    BY <1>1, <2>1, <2>2, CommandDoneFields
  <2>4. Said(next) = Append(Said(self), Message("State", t))
    BY <1>1, <1>3, <2>3, SaidIs, Zenon DEF outbox
  <2>5. Touched(t, "Connected")
    BY <1>1, <2>1, MarksTouch, Zenon
  <2>6. next.bound \subseteq self.bound \cup {t} /\ next.pc \notin {"state", "subscribe"}
    BY <2>3
  <2> QED
    BY <1>2, <1>3, <2>4, <2>5, <2>6, Zenon DEF HearsOf
<1>6. CASE RefreshFails(s) /\ t \in self.bound
  <2> DEFINE outbox == Told("ConnectionState")
             locals == [self EXCEPT !.outbox = outbox]
  <2>1. CommandDone(s, locals) /\ MarkUnavailable(t, "ipc_failed", self.at)
    BY <1>6, Zenon DEF RefreshFails
  <2> HIDE DEF outbox
  <2>2. /\ DOMAIN locals = Fields /\ locals.wire = self.wire
        /\ locals.outbox = outbox /\ locals.bound = self.bound
    BY <1>1 DEF Fields
  <2> HIDE DEF locals
  <2>3. /\ next.pc = "flush" /\ next.bound = self.bound
        /\ next.wire = self.wire /\ next.outbox = outbox
    BY <1>1, <2>1, <2>2, CommandDoneFields
  <2>4. Said(next) = Append(Said(self), Message("ConnectionState", t))
    BY <1>1, <1>3, <2>3, SaidIs, Zenon DEF outbox
  <2>5. Touched(t, "Unavailable")
    BY <1>1, <2>1, MarksTouch, Zenon
  <2>6. next.bound \subseteq self.bound \cup {t} /\ next.pc \notin {"state", "subscribe"}
    BY <2>3
  <2> QED
    BY <1>2, <1>3, <2>4, <2>5, <2>6, Zenon DEF HearsOf
<1>7. CASE RefreshFails(s) /\ t \notin self.bound
  <2>1. CommandDone(s, self) /\ MarkUnavailable(t, "ipc_failed", self.at)
    BY <1>7, Zenon DEF RefreshFails
  <2>2. /\ next.pc = "flush" /\ next.bound = self.bound
        /\ next.wire = self.wire /\ next.outbox = self.outbox
    BY <1>1, <2>1, CommandDoneFields
  <2>3. Touched(t, "Unavailable") /\ Said(next) = Said(self)
    BY <1>1, <2>1, <2>2, MarksTouch, Zenon DEF Said
  <2>4. "Unavailable" \in ConnectionStates
    BY DEF ConnectionStates
  <2> QED
    BY <1>2, <1>7, <2>2, <2>3, <2>4 DEF TouchesUnbound
<1> QED
  BY <1>4, <1>5, <1>6, <1>7

\* Nothing is heard of a target that stays bound and is not connected or lost.
LEMMA KnownKeeps ==
    ASSUME NEW s \in Sessions, NEW t,
           Extends(Said(sessions[s]), Said(sessions'[s])),
           \A k \in Indices(Said(sessions'[s])) \ Indices(Said(sessions[s])) :
               ~IsHeard(Said(sessions'[s]), t, k),
           connections'[t].state \in {connections[t].state, "Connecting", "Reconnecting"},
           Known(sessions[s], t)
    PROVE  Known(sessions[s], t)'
<1>1. \A type : HeardAs(Said(sessions[s]), t, type) => HeardAs(Said(sessions'[s]), t, type)
  BY HeardKeeps, Zenon
<1>2. /\ connections[t].state = "Connected" => HeardAs(Said(sessions[s]), t, "State")
      /\ connections[t].state = "Unavailable" => HeardAs(Said(sessions[s]), t, "ConnectionState")
  BY DEF Known
<1>3. /\ connections'[t].state = "Connected" => HeardAs(Said(sessions'[s]), t, "State")
      /\ connections'[t].state = "Unavailable" =>
            HeardAs(Said(sessions'[s]), t, "ConnectionState")
  BY <1>1, <1>2
<1> QED
  BY <1>3, Zenon DEF Known, Said

LEMMA SaidExtends ==
    ASSUME RelayInv, NEW s \in Sessions
    PROVE  Said(sessions[s]) \in Seq(Messages) /\ Extends(Said(sessions[s]), Said(sessions[s]))
<1>1. Said(sessions[s]) \in Seq(Messages)
  BY SaidIs DEF RelayInv, SessionsInv, WellFormed, SessionRecords
<1> QED
  BY <1>1 DEF Extends, Indices

LEMMA HearsNothingKeeps ==
    ASSUME RelayInv, NEW s \in Sessions, Apart(sessions[s]), UNCHANGED registrations,
           HearsNothing(sessions[s], sessions'[s])
    PROVE  Apart(sessions[s])' /\ Freshens(s)
<1> DEFINE self == sessions[s]
           next == sessions'[s]
           p == Said(self)
           q == Said(next)
<1>1. /\ UNCHANGED connections
      /\ next.pc \notin {"state", "subscribe"}
      /\ \A t : connections'[t].state = connections[t].state
  BY DEF HearsNothing
<1>2. CASE next.bound = {}
  BY <1>1, <1>2 DEF Apart, Freshens
<1>3. CASE /\ next.bound = self.bound
           /\ \/ q = p
              \/ \E message \in Messages : /\ message.type \notin {"State", "ConnectionState"}
                                           /\ q = Append(p, message)
  <2>1. p \in Seq(Messages) /\ Extends(p, p)
    BY SaidExtends
  <2>2. Extends(p, q) /\ \A t : \A k \in Indices(q) \ Indices(p) : ~IsHeard(q, t, k)
    <3>1. CASE q = p
      BY <2>1, <3>1
    <3>2. ASSUME NEW message \in Messages, message.type \notin {"State", "ConnectionState"},
                 q = Append(p, message)
          PROVE  Extends(p, q) /\ \A t : \A k \in Indices(q) \ Indices(p) : ~IsHeard(q, t, k)
      <4> HIDE DEF p, q
      <4>1. /\ Extends(p, q)
            /\ q[Len(p) + 1] = message
            /\ Indices(q) \ Indices(p) = {Len(p) + 1}
        BY <2>1, <3>2, ExtendsOutbox
      <4> QED
        BY <3>2, <4>1 DEF IsHeard
    <3> QED
      BY <1>3, <3>1, <3>2, Zenon
  <2>3. ASSUME NEW t \in next.bound
        PROVE  Known(sessions[s], t)' \/ (t \in self.bound /\ ~Known(self, t))
    <3>1. connections'[t].state \in {connections[t].state, "Connecting", "Reconnecting"}
      BY <1>1
    <3>2. Known(self, t) => Known(sessions[s], t)'
      BY <2>2, <3>1, KnownKeeps
    <3> QED
      BY <1>3, <3>2, Zenon
  <2>4. Apart(sessions[s])'
    BY <1>1, <1>3 DEF Apart, Registered
  <2> QED
    BY <2>3, <2>4, Zenon DEF Freshens
<1> QED
  BY <1>2, <1>3, Zenon DEF HearsNothing

LEMMA TouchesUnboundKeeps ==
    ASSUME RelayInv, NEW s \in Sessions, Apart(sessions[s]), UNCHANGED registrations,
           TouchesUnbound(sessions[s], sessions'[s])
    PROVE  Apart(sessions[s])' /\ Freshens(s)
<1> DEFINE self == sessions[s]
           next == sessions'[s]
<1>1. PICK t \in Targets \ self.bound, state \in ConnectionStates :
         /\ Touched(t, state)
         /\ next.pc \in {"state", "subscribe"} => next.target = t
         /\ next.pc = "subscribe" => state = "Connected"
  BY Zenon DEF TouchesUnbound
<1>2. next.bound = self.bound /\ Said(next) = Said(self)
  BY DEF TouchesUnbound
<1>3. Extends(Said(self), Said(next))
  BY <1>2, SaidExtends
<1>4. ASSUME NEW u \in next.bound
      PROVE  Known(sessions[s], u)' \/ (u \in self.bound /\ ~Known(self, u))
  <2>1. connections'[u].state \in {connections[u].state, "Connecting", "Reconnecting"}
    BY <1>1, <1>2 DEF Touched, Apart
  <2>2. \A k \in Indices(Said(next)) \ Indices(Said(self)) : ~IsHeard(Said(next), u, k)
    BY <1>2
  <2>3. Known(self, u) => Known(sessions[s], u)'
    BY <1>3, <2>1, <2>2, KnownKeeps
  <2> QED
    BY <1>2, <2>3, Zenon
<1>5. Apart(sessions[s])'
  BY <1>1, <1>2 DEF Apart, Touched, Registered
<1> QED
  BY <1>4, <1>5, Zenon DEF Freshens

LEMMA HearsOfKeeps ==
    ASSUME RelayInv, NEW s \in Sessions, Apart(sessions[s]), UNCHANGED registrations,
           HearsOf(sessions[s], sessions'[s])
    PROVE  Apart(sessions[s])' /\ Freshens(s)
<1> DEFINE self == sessions[s]
           next == sessions'[s]
           p == Said(self)
           q == Said(next)
<1>1. PICK t \in Targets, message \in Messages :
         /\ next.bound \subseteq self.bound \cup {t}
         /\ q = Append(p, message)
         /\ message.about = t
         /\ \/ message.type = "State" /\ Touched(t, "Connected")
            \/ message.type = "ConnectionState" /\ Touched(t, "Unavailable")
  BY Zenon DEF HearsOf
<1>2. next.pc \notin {"state", "subscribe"}
  BY DEF HearsOf
<1>3. p \in Seq(Messages) /\ q = Said(sessions[s])'
  BY SaidExtends DEF Said
<1>4. /\ HeardAs(q, t, message.type)
      /\ Extends(p, q)
      /\ \A k \in Indices(q) \ Indices(p) : q[k] = message
  <2>1. message.type \in {"State", "ConnectionState"}
    BY <1>1
  <2> HIDE DEF p, q
  <2>2. HeardAs(q, t, message.type)
    BY <1>1, <1>3, <2>1, AppendHeard
  <2>3. /\ Extends(p, Append(p, message))
        /\ Append(p, message)[Len(p) + 1] = message
        /\ Indices(Append(p, message)) \ Indices(p) = {Len(p) + 1}
    <3>1. p \in Seq(Messages)
      BY <1>3
    <3> HIDE <1>3
    <3> QED
      BY <3>1, ExtendsOutbox
  <2>4. q = Append(p, message)
    BY <1>1
  <2> QED
    BY <2>2, <2>3, <2>4
<1>5. ASSUME NEW u \in next.bound
      PROVE  Known(sessions[s], u)' \/ (u \in self.bound /\ ~Known(self, u))
  <2>1. CASE u = t
    <3>1. \/ message.type = "State" /\ connections'[u].state = "Connected"
          \/ message.type = "ConnectionState" /\ connections'[u].state = "Unavailable"
      BY <1>1, <2>1 DEF Touched
    <3>2. /\ connections'[u].state = "Connected" => HeardAs(q, u, "State")
          /\ connections'[u].state = "Unavailable" => HeardAs(q, u, "ConnectionState")
      BY <1>4, <2>1, <3>1
    <3> QED
      BY <1>3, <3>2, Zenon DEF Known
  <2>2. CASE u # t
    <3>1. u \in self.bound
      BY <1>1, <2>2
    <3>2. connections'[u].state \in {connections[u].state, "Connecting", "Reconnecting"}
      BY <1>1, <2>2, <3>1 DEF Touched, Apart
    <3>3. \A k \in Indices(q) \ Indices(p) : ~IsHeard(q, u, k)
      BY <1>1, <1>4, <2>2 DEF IsHeard
    <3>4. Known(self, u) => Known(sessions[s], u)'
      BY <1>4, <3>2, <3>3, KnownKeeps
    <3> QED
      BY <3>1, <3>4, Zenon
  <2> QED
    BY <2>1, <2>2
<1>6. Apart(sessions[s])'
  BY <1>1, <1>2 DEF Apart, Touched, Registered
<1> QED
  BY <1>5, <1>6, Zenon DEF Freshens

-----------------------------------------------------------------------------
(* What others do to what a dashboard was told.                            *)

AllApart == \A s \in Sessions : Apart(sessions[s])

\* While a session is in an exchange nobody else touches the connections; and who
\* is in none connects no target and loses none.
LEMMA OthersTouch ==
    ASSUME RelayInv, NEW s \in Sessions, SessionStep(s)
    PROVE  /\ lock # s /\ lock # None => UNCHANGED connections
           /\ lock # s => \A t \in Registered :
                  connections'[t].state \in {connections[t].state, "Connecting"}
<1>1. SessionNext(s) /\ SessionsInv /\ RegistryTypeOK
  BY DEF SessionStep, RelayInv, SocketInv
<1> SUFFICES ASSUME lock # s
             PROVE  /\ lock # None => UNCHANGED connections
                    /\ \A t \in Registered :
                          connections'[t].state \in {connections[t].state, "Connecting"}
  OBVIOUS
<1>2. sessions[s].pc \notin InIpc
  BY <1>1 DEF SessionsInv
<1>3. CASE BindBegin(s)
  <2>1. PICK t : BeginBinding(t, clock)
    BY <1>3, Zenon DEF BindBegin
  <2>2. Touched(t, "Connecting")
    BY <1>1, <2>1, MarksTouch
  <2>3. lock = None
    BY <1>3 DEF BindBegin, Unlocked
  <2> QED
    BY <2>2, <2>3 DEF Touched
<1>4. CASE ~BindBegin(s)
  <2>1. \/ Converse(s) \/ PublishTargetList(s) \/ SelectTargets(s) \/ BindSkipped(s)
        \/ CommandRefused(s) \/ CommandAccepted(s)
    BY <1>1, <1>2, <1>4 DEF SessionNext, Acquire, Exchange, StateRead, StateFails, Subscribed,
       SubscribeFails, ForwardFails, ForwardSucceeds, RefreshRead, RefreshFails, InIpc
  <2>2. UNCHANGED connections
    BY <2>1, QuietHears, Zenon DEF HearsNothing
  <2> QED
    BY <2>2
<1> QED
  BY <1>3, <1>4

\* A session that takes no step: its targets stay as they are known to be, unless
\* another session is in an exchange.
LEMMA IdleKeeps ==
    ASSUME RelayInv, NEW s \in Sessions, Apart(sessions[s]), sessions'[s] = sessions[s],
           Registered \subseteq Registered', lock = s => UNCHANGED connections,
           \/ lock \in Sessions \ {s}
           \/ \A t \in Registered : connections'[t].state \in
                  {connections[t].state, "Connecting", "Reconnecting"}
    PROVE  Apart(sessions[s])' /\ (Freshens(s) \/ lock \in Sessions \ {s})
<1>1. sessions[s].pc \in {"state", "subscribe"} => lock = s
  BY DEF RelayInv, SessionsInv, InIpc
<1>2. Apart(sessions[s])'
  BY <1>1 DEF Apart
<1>3. ASSUME lock \notin Sessions \ {s}, NEW t \in sessions'[s].bound
      PROVE  Known(sessions[s], t)' \/ (t \in sessions[s].bound /\ ~Known(sessions[s], t))
  <2>1. connections'[t].state \in {connections[t].state, "Connecting", "Reconnecting"}
    BY <1>3 DEF Apart
  <2>2. /\ Extends(Said(sessions[s]), Said(sessions'[s]))
        /\ \A k \in Indices(Said(sessions'[s])) \ Indices(Said(sessions[s])) :
              ~IsHeard(Said(sessions'[s]), t, k)
    BY SaidExtends
  <2>3. Known(sessions[s], t) => Known(sessions[s], t)'
    BY <2>1, <2>2, KnownKeeps
  <2> QED
    BY <1>3, <2>3, Zenon
<1> QED
  BY <1>2, <1>3, Zenon DEF Freshens

\* Nobody is in an exchange when a target registers, and what registers is neither
\* connected nor lost by it.
LEMMA RegistrationTouches ==
    ASSUME RelayInv, RegistrationStep
    PROVE  /\ Registered \subseteq Registered'
           /\ lock # None => UNCHANGED connections
           /\ \A t \in Registered :
                 connections'[t].state \in {connections[t].state, "Connecting", "Reconnecting"}
<1>1. CASE UNCHANGED <<registrations, connections>>
  BY <1>1 DEF Registered
<1>2. CASE RegisterAccepted
  <2> DEFINE request == loop.request
             owner == loop.owner
             now == loop.received_at
  <2>1. lock = None /\ Register(request, owner, now)
    BY <1>2 DEF RegisterAccepted, Unlocked
  <2>2. request \in Requests /\ owner \in Owners /\ now \in Nat /\ RegistryTypeOK
    <3>1. 0 .. clock \subseteq Nat
      OBVIOUS
    <3> QED
      BY <1>2, <3>1 DEF RelayInv, SocketInv, LoopInv, LoopRecords, RegisterAccepted
  <2> HIDE DEF request, owner, now
  <2> DEFINE t == request.target_id
  <2>3. /\ DOMAIN registrations' = Registered \cup {t}
        /\ \A u \in Registered \ {t} :
              registrations'[u] = registrations[u] /\ connections'[u] = connections[u]
        /\ RegisteredEntry(request, owner, now)
    BY <2>1, <2>2, RegisterEffect
  <2>4. t \in Registered => connections'[t].state \in {connections[t].state, "Reconnecting"}
    <3>1. t \in Registered => connections[t] \in ConnectionRecords
      BY <2>2 DEF RegistryTypeOK
    <3> QED
      BY <2>3, <3>1 DEF RegisteredEntry, UpsertedConnection, ConnectionRecords
  <2> HIDE DEF t
  <2> QED
    BY <2>1, <2>3, <2>4 DEF Registered
<1> QED
  BY <1>1, <1>2, Zenon DEF RegistrationStep, LoopNext, AcceptConnection, ReadRequest, ReadFails,
     RegisterRejected, WriteAck, AckFails, sharedVars

\* A session's own step leaves its targets known, and anyone else's does, unless it
\* is in an exchange of its own.
LEMMA ApartStep ==
    ASSUME RelayInv, AllApart, [Next]_vars, NEW s \in Sessions
    PROVE  Apart(sessions[s])' /\ (Freshens(s) \/ lock \in Sessions \ {s})
<1>0. Apart(sessions[s]) /\ SessionsInv /\ SocketInv
  BY Zenon DEF AllApart, RelayInv
<1>1. CASE SessionStep(s)
  <2>1. SessionNext(s)
    BY <1>1 DEF SessionStep
  <2>2. UNCHANGED registrations
    BY <1>0, <2>1, SessionCalls
  <2>3. \/ HearsNothing(sessions[s], sessions'[s])
        \/ TouchesUnbound(sessions[s], sessions'[s])
        \/ HearsOf(sessions[s], sessions'[s])
    BY <1>0, <1>1, <2>1, QuietHears, BindingHears, AnswerHears, Zenon
       DEF SessionNext, Acquire, Exchange
  <2> QED
    BY <1>0, <2>2, <2>3, HearsNothingKeeps, TouchesUnboundKeeps, HearsOfKeeps, Zenon
<1>2. ASSUME NEW o \in Sessions \ {s}, SessionStep(o)
      PROVE  Apart(sessions[s])' /\ (Freshens(s) \/ lock \in Sessions \ {s})
  <2>1. sessions'[s] = sessions[s]
    BY <1>2, SessionSteps
  <2>2. UNCHANGED registrations
    BY <1>0, <1>2, SessionCalls DEF SessionStep
  <2>3. /\ lock # o /\ lock # None => UNCHANGED connections
        /\ lock # o => \A t \in Registered :
               connections'[t].state \in {connections[t].state, "Connecting"}
    BY <1>2, OthersTouch
  <2>4. lock = s => UNCHANGED connections
    BY <1>2, <2>3, SessionsAssumption
  <2>5. \/ lock \in Sessions \ {s}
        \/ \A t \in Registered : connections'[t].state \in
               {connections[t].state, "Connecting", "Reconnecting"}
    BY <1>2, <2>3
  <2>6. Registered \subseteq Registered'
    BY <2>2 DEF Registered
  <2> QED
    BY <1>0, <2>1, <2>4, <2>5, <2>6, IdleKeeps
<1>3. CASE RegistrationStep
  <2>1. UNCHANGED sessions
    BY <1>3 DEF RegistrationStep, sessionVars
  <2>2. lock = s => lock # None
    BY SessionsAssumption
  <2> QED
    BY <1>0, <1>3, <2>1, <2>2, RegistrationTouches, IdleKeeps
<1>4. CASE TimePasses \/ UNCHANGED vars
  <2>1. UNCHANGED <<registrations, connections, sessions>>
    BY <1>4 DEF TimePasses, Tick, vars, sessionVars
  <2>2. Registered \subseteq Registered' /\ sessions'[s] = sessions[s]
    BY <2>1 DEF Registered
  <2>3. \A t \in Registered : connections'[t].state \in
            {connections[t].state, "Connecting", "Reconnecting"}
    BY <2>1
  <2> QED
    BY <1>0, <2>1, <2>2, <2>3, IdleKeeps
<1> QED
  BY <1>1, <1>2, <1>3, <1>4 DEF Next

LEMMA ApartInvariant ==
    Spec => []AllApart
<1>1. Init => AllApart
  <2> SUFFICES ASSUME Init, NEW s \in Sessions
               PROVE  Apart(sessions[s])
    BY Zenon DEF AllApart
  <2>1. sessions[s].bound = {} /\ sessions[s].pc = "closed"
    BY DEF Init, SessionInit, Closed
  <2> QED
    BY <2>1 DEF Apart
<1>2. RelayInv /\ AllApart /\ [Next]_vars => AllApart'
  <2> SUFFICES ASSUME RelayInv, AllApart, [Next]_vars, NEW s \in Sessions
               PROVE  Apart(sessions[s])'
    BY Zenon DEF AllApart
  <2> QED
    BY ApartStep
<1> QED
  BY <1>1, <1>2, RelayInvariant, PTL DEF Spec

\* The heard lists of the property and of the proofs are the same.
LEMMA KnownIsUpToDate ==
    RelayInv => \A s \in Sessions : \A t : UpToDate(s, t) <=> Known(sessions[s], t)
<1> SUFFICES ASSUME RelayInv, NEW s \in Sessions, NEW t
             PROVE  UpToDate(s, t) <=> Known(sessions[s], t)
  OBVIOUS
<1> DEFINE history == History(s)
<1>1. history \in Seq(Messages) /\ history = Said(sessions[s])
  BY SaidExtends DEF History, Said
<1> HIDE DEF history
<1>2. DOMAIN history = Indices(history) /\ \A i \in DOMAIN history : history[i] \in Messages
  BY <1>1 DEF Indices
<1>3. \A i \in DOMAIN history :
          history[i] \in {Message("State", t), Message("ConnectionState", t)}
              <=> IsHeard(history, t, i)
  BY <1>2 DEF IsHeard, Message, Messages
<1>4. \A type \in {"State", "ConnectionState"} : \A i \in DOMAIN history :
          history[i] = Message(type, t) <=> history[i].type = type /\ IsHeard(history, t, i)
  BY <1>2 DEF IsHeard, Message, Messages
<1>5. ASSUME NEW type \in {"State", "ConnectionState"}
      PROVE  HeardLast(s, t, type) <=> HeardAs(history, t, type)
  <2>1. HeardLast(s, t, type) <=>
            \E i \in DOMAIN history :
                /\ history[i] = Message(type, t)
                /\ \A k \in DOMAIN history :
                      history[k] \in {Message("State", t), Message("ConnectionState", t)}
                          => k <= i
    BY DEF HeardLast, history
  <2> QED
    BY <1>2, <1>3, <1>4, <2>1, Zenon DEF HeardAs
<1> QED
  BY <1>1, <1>5 DEF UpToDate, Known

\* Whatever a session does itself it tells its dashboard, for any number of sessions:
\* the last a dashboard was told of a target goes out of date only while another
\* session holds the registry (handle_command, refresh_target_state_after_command).
THEOREM OnlyOthersOutdate ==
    Spec => OutdatedByOthersOnly
<1>0. RelayInv' => (\A s \in Sessions : \A t : UpToDate(s, t) <=> Known(sessions[s], t))'
  BY KnownIsUpToDate, PTL
<1>1. RelayInv /\ RelayInv' /\ AllApart /\ [Next]_vars
          => \A s \in Sessions : \A t \in sessions'[s].bound :
                 \/ UpToDate(s, t)'
                 \/ t \in sessions[s].bound /\ ~UpToDate(s, t)
                 \/ lock \in Sessions \ {s}
  <2> SUFFICES ASSUME RelayInv, RelayInv', AllApart, [Next]_vars,
                      NEW s \in Sessions, NEW t \in sessions'[s].bound
               PROVE  \/ UpToDate(s, t)'
                      \/ t \in sessions[s].bound /\ ~UpToDate(s, t)
                      \/ lock \in Sessions \ {s}
    OBVIOUS
  <2>1. Freshens(s) \/ lock \in Sessions \ {s}
    BY ApartStep
  <2>2. Known(sessions[s], t)' => UpToDate(s, t)'
    BY <1>0, Zenon
  <2>3. UpToDate(s, t) => Known(sessions[s], t)
    BY KnownIsUpToDate
  <2> QED
    BY <2>1, <2>2, <2>3, Zenon DEF Freshens
<1> QED
  BY <1>1, RelayInvariant, ApartInvariant, PTL DEF Spec, OutdatedByOthersOnly

\* Every binding of every session ends bound, connected and told, or not bound,
\* unavailable and untold (bind_target).
THEOREM BindingsDoSettle ==
    Spec => BindingsSettle
<1> DEFINE Over(s) == /\ sessions[s].pc \in {"state", "subscribe"}
                      /\ sessions'[s].pc \notin {"state", "subscribe"}
<1>1. ASSUME RelayInv, AllApart, [Next]_vars, NEW s \in Sessions, Over(s)
      PROVE  LET t == sessions[s].target
                 outbox == sessions[s].outbox
             IN  IF t \in sessions'[s].bound
                 THEN /\ connections'[t].state = "Connected"
                      /\ sessions'[s].outbox = Append(outbox, Message("State", t))
                 ELSE /\ connections'[t].state = "Unavailable"
                      /\ sessions'[s].outbox = outbox
  <2> DEFINE self == sessions[s]
             next == sessions'[s]
             t == self.target
  <2>1. /\ RegistryTypeOK /\ Apart(self)
        /\ DOMAIN sessions = Sessions /\ DOMAIN self = Fields
        /\ t \notin self.bound
    BY <1>1, Zenon DEF RelayInv, SocketInv, SessionsInv, WellFormed, SessionRecords, Fields,
       AllApart, Apart
  <2>2. SessionStep(s)
    <3>1. next # self
      BY <1>1
    <3>2. \A o \in Sessions : SessionStep(o) => o = s
      BY <1>1, <3>1, SessionSteps
    <3> QED
      BY <1>1, <3>1, <3>2, OtherSteps
  <2>3. \/ Subscribed(s)
        \/ StateFails(s) \/ SubscribeFails(s)
    <3>1. SessionNext(s)
      BY <2>2 DEF SessionStep
    <3>2. ~StateRead(s)
      <4> SUFFICES ASSUME StateRead(s)
                   PROVE  FALSE
        OBVIOUS
      <4>1. next = [self EXCEPT !.pc = "subscribe"]
        BY <2>1 DEF StateRead, Goto
      <4> QED
        BY <1>1, <2>1, <4>1 DEF Fields
    <3> QED
      BY <1>1, <3>1, <3>2 DEF SessionNext, Acquire, Exchange, Converse, PublishTargetList,
         SelectTargets, BindBegin, BindSkipped, CommandRefused, CommandAccepted, ForwardFails,
         ForwardSucceeds, RefreshRead, RefreshFails, Open, Flush, HelloAccepted, End,
         ReceiveCommand, ReceiveOther, Talking
  <2>4. CASE Subscribed(s)
    <3> DEFINE outbox == Append(self.outbox, Message("State", t))
               bound == self.bound \cup {t}
               locals == [self EXCEPT !.bound = bound, !.outbox = outbox]
    <3>1. self.pc = "subscribe" /\ BindingDone(s, locals) /\ UNCHANGED connections
      BY <2>4, Zenon DEF Subscribed
    <3> HIDE DEF outbox, bound
    <3>2. DOMAIN locals = Fields /\ locals.outbox = outbox /\ locals.bound = bound
      BY <2>1 DEF Fields
    <3> HIDE DEF locals
    <3>3. next.bound = bound /\ next.outbox = outbox
      BY <2>1, <3>1, <3>2, BindingDoneFields
    <3>4. connections'[t].state = "Connected"
      BY <2>1, <3>1 DEF Apart
    <3> QED
      BY <3>3, <3>4, Zenon DEF bound, outbox
  <2>5. CASE StateFails(s) \/ SubscribeFails(s)
    <3>1. BindingDone(s, self) /\ MarkUnavailable(t, "ipc_failed", self.at)
      BY <2>5, Zenon DEF StateFails, SubscribeFails
    <3>2. next.bound = self.bound /\ next.outbox = self.outbox
      BY <2>1, <3>1, BindingDoneFields
    <3>3. connections'[t].state = "Unavailable"
      BY <2>1, <3>1, MarksTouch, Zenon DEF Touched
    <3> QED
      BY <2>1, <3>2, <3>3, Zenon
  <2> QED
    BY <2>3, <2>4, <2>5
<1>2. RelayInv /\ AllApart /\ [Next]_vars =>
          \A s \in Sessions :
             /\ sessions[s].pc \in {"state", "subscribe"}
             /\ sessions'[s].pc \notin {"state", "subscribe"}
             => LET t == sessions[s].target
                    outbox == sessions[s].outbox
                IN  IF t \in sessions'[s].bound
                    THEN /\ connections'[t].state = "Connected"
                         /\ sessions'[s].outbox = Append(outbox, Message("State", t))
                    ELSE /\ connections'[t].state = "Unavailable"
                         /\ sessions'[s].outbox = outbox
  BY <1>1
<1> QED
  BY <1>2, RelayInvariant, ApartInvariant, PTL DEF Spec, BindingsSettle
=============================================================================
