-------------------------- MODULE RegistrationLoop --------------------------
(***************************************************************************)
(* The task that serves the registration socket (run_registration_loop of  *)
(* src/src/main.rs): it accepts one registrant at a time, reads one line,  *)
(* takes the time, waits for the registry's mutex, registers and writes    *)
(* the acknowledgement.  Any error that is not the registry's own answer   *)
(* ends the task.                                                          *)
(***************************************************************************)
EXTENDS SharedRegistry

ASSUME LoopAssumption == None \notin Requests

VARIABLE loop   \* program counter and locals of the task

LoopPcs == {"accept", "read", "lock", "ack", "exited"}

Accepting == [pc |-> "accept", request |-> None, owner |-> None,
              received_at |-> None, accepted |-> FALSE]

LoopInit == loop = Accepting

\* A registrant connects; the peer credential of its socket is its identity.
AcceptConnection ==
    /\ loop.pc = "accept"
    /\ \E owner \in Owners : loop' = [loop EXCEPT !.pc = "read", !.owner = owner]
    /\ UNCHANGED sharedVars

\* Mutant: the time of the request is not taken.
ReadRequestUntimed ==
    /\ loop.pc = "read"
    /\ \E request \in Requests :
          loop' = [loop EXCEPT !.pc = "lock", !.request = request]
    /\ UNCHANGED sharedVars

\* The line is decoded, and the time is read before the mutex is awaited.
ReadRequest ==
    /\ loop.pc = "read"
    /\ \E request \in Requests :
          loop' = [loop EXCEPT !.pc = "lock", !.request = request, !.received_at = clock]
    /\ UNCHANGED sharedVars

\* Accepting or reading fails, or the line is not a request: `?' leaves the loop.
ReadFails ==
    /\ loop.pc \in {"accept", "read"}
    /\ loop' = [Accepting EXCEPT !.pc = "exited"]
    /\ UNCHANGED sharedVars

RegisterAccepted ==
    /\ loop.pc = "lock"
    /\ Unlocked
    /\ Register(loop.request, loop.owner, loop.received_at)
    /\ loop' = [loop EXCEPT !.pc = "ack", !.accepted = TRUE]
    /\ UNCHANGED lock

\* Mutant: the answer of register is not looked at.
RegisterRejectedAsAccepted ==
    /\ loop.pc = "lock"
    /\ Unlocked
    /\ ~MayRegister(loop.request, loop.owner)
    /\ loop' = [loop EXCEPT !.pc = "ack", !.accepted = TRUE]
    /\ UNCHANGED sharedVars

RegisterRejected ==
    /\ loop.pc = "lock"
    /\ Unlocked
    /\ ~MayRegister(loop.request, loop.owner)
    /\ loop' = [loop EXCEPT !.pc = "ack"]
    /\ UNCHANGED sharedVars

WriteAck ==
    /\ loop.pc = "ack"
    /\ loop' = Accepting
    /\ UNCHANGED sharedVars

\* The registrant has gone: `?' leaves the loop after the registry was changed.
AckFails ==
    /\ loop.pc = "ack"
    /\ loop' = [Accepting EXCEPT !.pc = "exited"]
    /\ UNCHANGED sharedVars

LoopNext ==
    \/ AcceptConnection
    \/ ReadRequest
    \/ ReadFails
    \/ RegisterAccepted
    \/ RegisterRejected
    \/ WriteAck
    \/ AckFails

-----------------------------------------------------------------------------
(* Properties.                                                             *)

\* The locals of the task are those of its current await (type invariant).
LoopTypeOK ==
    /\ loop.pc \in LoopPcs
    /\ loop.request \in Requests \cup {None}
    /\ loop.owner \in Owners \cup {None}
    /\ loop.received_at \in Nat \cup {None}
    /\ loop.accepted \in BOOLEAN
    /\ loop.pc \in {"lock", "ack"} => /\ loop.request # None
                                      /\ loop.owner # None
                                      /\ loop.received_at \in 0 .. clock

\* Whatever the registrant was told, the registry still agrees when the answer
\* is written, after the mutex was released: an accepted request is the
\* registration in force, under its owner, socket and lease, and a refused one
\* would be refused again (run_registration_loop, write_registration_ack).
AckTruthful ==
    loop.pc = "ack" =>
        IF loop.accepted
        THEN /\ loop.request.target_id \in Registered
             /\ LET r == registrations[loop.request.target_id]
                IN  /\ r.owner_identity = loop.owner
                    /\ r.ipc_path = loop.request.ipc_path
                    /\ r.expires_at = loop.received_at + loop.request.lease_seconds
        ELSE ~MayRegister(loop.request, loop.owner)

\* README.md:29: the relay binds the registration socket and then waits for
\* shutdown, so the task that serves the socket does not end by itself.
KeepsServing == loop.pc # "exited"
=============================================================================
