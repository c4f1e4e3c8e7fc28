------------------------------- MODULE Relay --------------------------------
(***************************************************************************)
(* The relay process (src/src/main.rs): the registration task, the         *)
(* dashboard sessions and the registry they share.  Its steps are those of *)
(* the components, and time passes at any point between them.              *)
(***************************************************************************)
EXTENDS RegistrationLoop, Session

vars == <<registrations, connections, clock, lock, loop, sessions, read_from>>

Init == RegistryInit /\ SessionInit /\ LoopInit

RegistrationStep == LoopNext /\ UNCHANGED <<clock, sessionVars>>

SessionStep(s) == SessionNext(s) /\ UNCHANGED <<clock, loop>>

TimePasses == Tick /\ UNCHANGED <<lock, loop, sessionVars>>

Next ==
    \/ RegistrationStep
    \/ \E s \in Sessions : SessionStep(s)
    \/ TimePasses

Spec == Init /\ [][Next]_vars

-----------------------------------------------------------------------------
(* What the relay promises of its calls to targets.                        *)

\* A session that holds the mutex over IPC is in an exchange: with a command
\* while it forwards one, to read a state otherwise.
ExchangeOf(s) ==
    [session |-> s, target |-> sessions[s].target, key |-> KeyOf[sessions[s].path],
     kind |-> IF sessions[s].pc = "forward" THEN "command" ELSE "read"]

\* An exchange is something.
ASSUME ExchangeAssumption ==
    None \notin [session: Sessions, target: Targets, key: {KeyOf[p] : p \in AllowedPaths},
                 kind: {"read", "command"}]

Results(audit) == [i \in DOMAIN audit |-> audit[i].result]

Contract == INSTANCE ControlContract WITH
    Keys <- {KeyOf[p] : p \in AllowedPaths},
    sockets <- [t \in Registered |-> registrations[t].ipc_path_key],
    exchange <- IF lock = None THEN None ELSE ExchangeOf(lock),
    trail <- [s \in Sessions |-> Results(sessions[s].audit)]

\* Every step of the registration task, of a session or of time is one the
\* contract allows: a socket changes only while nobody is asked, each exchange is
\* with the socket in force, and the audit pairs (the mutex held across
\* bind_target and handle_command, and the audit calls of handle_command).
ImplementsContract == Contract!Spec

\* What the contract promises, said of the relay.
KeepsPromises == Contract!Promises

-----------------------------------------------------------------------------
(* Fairness.                                                               *)

\* tokio schedules every runnable task, and its mutex is fair: a task that waits
\* for the mutex gets it in its turn.
MutexFairness ==
    /\ SF_vars(RegistrationStep /\ loop.pc = "lock")
    /\ \A s \in Sessions : SF_vars(SessionStep(s) /\ sessions[s].pc \in Acquiring)

\* Every IPC exchange ends: targets answer, or their sockets fail.  The code has
\* no timeout that would ensure this.
TargetsAnswer ==
    \A s \in Sessions : WF_vars(SessionStep(s) /\ sessions[s].pc \in InIpc)

\* Nothing is assumed of clients, registrants or the clock.
FairSpec == Spec /\ MutexFairness

AnsweringSpec == FairSpec /\ TargetsAnswer

-----------------------------------------------------------------------------
(* Liveness.                                                               *)

\* If targets answer, everyone who waits for the registry is served: a
\* registrant gets its answer, a greeted dashboard gets its list with every
\* active target tried, and a command gets a result, however many others
\* compete for the mutex (run_registration_loop, run_dashboard_session).
RegistrantServed == loop.pc = "lock" ~> loop.pc = "ack"

DashboardServed ==
    \A s \in Sessions :
        sessions[s].pc \in Acquiring \cup InIpc ~> sessions[s].pc \in Talking

-----------------------------------------------------------------------------
(* What documentation and comments say, and the program does not do.       *)

\* session.rs:3: a session sends the target process list before it binds target
\* IPC.
ListSentBeforeBinding ==
    \A s \in Sessions :
        sessions[s].pc \in {"state", "subscribe"} =>
            \E i \in DOMAIN sessions[s].wire : sessions[s].wire[i].type = "TargetList"

\* registry.rs:158: register returns the active registration record, which the
\* registrant is then told of.
RegisteredIsActive ==
    [][loop.pc = "lock" /\ loop'.accepted =>
          loop.request.target_id \in active_targets(clock)']_vars

\* registry.rs:40: Reconnecting means that a retry is in progress, so it is left.
ReconnectingResolves ==
    \A t \in Targets :
        LET Reconnecting == t \in Registered /\ connections[t].state = "Reconnecting"
        IN  Reconnecting ~> ~Reconnecting

\* registration.rs:22: the relay waits for a command's result for a declared
\* time only.
ForwardEnds ==
    \A s \in Sessions : sessions[s].pc = "forward" ~> sessions[s].pc # "forward"

=============================================================================
