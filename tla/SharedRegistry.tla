--------------------------- MODULE SharedRegistry ---------------------------
(***************************************************************************)
(* The registry behind Arc<tokio::sync::Mutex<..>> (src/src/main.rs).      *)
(*                                                                         *)
(* A critical section that waits for nobody is one step, possible when the *)
(* mutex is free.  A dashboard session also keeps the mutex while it waits *)
(* for a target over IPC: `lock' is then that session.                     *)
(***************************************************************************)
EXTENDS Registry

CONSTANT Sessions   \* dashboard connections; a closed one may be opened again

VARIABLE lock       \* the session that holds the mutex over IPC, or None

sharedVars == <<registrations, connections, lock>>

ASSUME SessionsAssumption == None \notin Sessions

Unlocked == lock = None
=============================================================================
