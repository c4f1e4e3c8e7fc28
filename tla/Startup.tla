------------------------------- MODULE Startup -------------------------------
(***************************************************************************)
(* Relay processes from launch to exit (run of src/src/main.rs): arguments,*)
(* configuration, the registration socket (RegistrationListener::bind of   *)
(* src/src/registration.rs), TLS, the wss listener, and the connections    *)
(* they accept until each becomes a dashboard session.                     *)
(*                                                                         *)
(* Processes share the file system and the ports.  A process may be killed *)
(* at any point; its socket file stays behind, its port does not.          *)
(***************************************************************************)
EXTENDS Admission

CONSTANTS
    Relays,         \* launches of the program
    Launches,       \* argument lists they may be started with
    Links,          \* connections of clients
    Clients,        \* what a client may be and send
    SocketPaths,    \* paths of registration sockets
    Addresses       \* addresses of wss listeners

VARIABLES
    relays,         \* relay -> where run() is, its settings, why it ended
    socket_files,   \* path -> the relay whose listener made the file, "old", None
    ports,          \* address -> the relay that listens, or None
    links           \* connection -> how far it is, its relay, client, identity

startupVars == <<relays, socket_files, ports, links>>

Starting == {"parse", "load", "probe", "remove", "bind", "tls", "listen"}

Up(i) == relays[i].pc \in Starting \cup {"serving"}

Serving(i) == relays[i].pc = "serving"

\* Why a process ends; the last three are not the program's own decision.
Causes == {"args", "config", "checked", "socket", "tls", "port",
           "failed", "killed", "stopped"}

NoLink == [pc |-> "closed", relay |-> None, client |-> None, identity |-> None]

Unstarted == [pc |-> "off", args |-> <<>>, config |-> None, cause |-> None]

ASSUME RelayAssumption == {None, "old"} \cap Relays = {} /\ None \notin Causes

\* The addresses and socket paths are those of the configurations.
ASSUME ConfigAssumption ==
    \A path \in DOMAIN ConfigFiles :
        LET config == ConfigFiles[path]
        IN  validate(config) => /\ config.listen.bind \in Addresses
                                /\ config.registration.listen_path.name \in SocketPaths

\* A file may be left from an earlier life.
StartupInit ==
    /\ relays = [i \in Relays |-> Unstarted]
    /\ socket_files \in [SocketPaths -> {None, "old"}]
    /\ ports = [a \in Addresses |-> None]
    /\ links = [c \in Links |-> NoLink]

Advance(i, pc) == relays' = [relays EXCEPT ![i].pc = pc]

\* The process ends: its port is free and its tasks are gone; the socket file
\* stays, with nobody behind it.
Exit(i, cause) ==
    /\ relays' = [relays EXCEPT ![i] = [Unstarted EXCEPT !.pc = "exited", !.cause = cause]]
    /\ ports' = [a \in Addresses |-> IF ports[a] = i THEN None ELSE ports[a]]
    /\ links' = [c \in Links |-> IF links[c].relay = i THEN NoLink ELSE links[c]]
    /\ UNCHANGED socket_files

SocketPath(i) == relays[i].config.registration.listen_path.name

Address(i) == relays[i].config.listen.bind

-----------------------------------------------------------------------------
(* Starting.                                                               *)

Launch(i) ==
    /\ relays[i].pc = "off"
    /\ \E args \in Launches :
          relays' = [relays EXCEPT ![i].pc = "parse", ![i].args = args]
    /\ UNCHANGED <<socket_files, ports, links>>

ParseArgs(i) ==
    /\ relays[i].pc = "parse"
    /\ IF ArgsAccepted(relays[i].args)
       THEN Advance(i, "load") /\ UNCHANGED <<socket_files, ports, links>>
       ELSE Exit(i, "args")

CheckOnly(i) == ParseFrom(relays[i].args).check_only

\* Mutant: --check is looked at after the socket was bound.
LoadConfigUnchecked(i) ==
    /\ relays[i].pc = "load"
    /\ LET path == ParseFrom(relays[i].args).config_path
       IN  IF path \in DOMAIN ConfigFiles /\ validate(ConfigFiles[path])
           THEN /\ relays' = [relays EXCEPT ![i].pc = "probe", ![i].config = ConfigFiles[path]]
                /\ UNCHANGED <<socket_files, ports, links>>
           ELSE Exit(i, "config")

\* load_from_path, validate, and the end of a mere check.
LoadConfig(i) ==
    /\ relays[i].pc = "load"
    /\ LET path == ParseFrom(relays[i].args).config_path
       IN  CASE path \notin DOMAIN ConfigFiles \/ ~validate(ConfigFiles[path]) -> Exit(i, "config")
             [] path \in DOMAIN ConfigFiles /\ validate(ConfigFiles[path]) /\ CheckOnly(i) ->
                    Exit(i, "checked")
             [] OTHER ->
                    /\ relays' = [relays EXCEPT ![i].pc = "probe",
                                                ![i].config = ConfigFiles[path]]
                    /\ UNCHANGED <<socket_files, ports, links>>

\* Mutants: an old socket is left alone; an existing one is taken for a relay.
ProbeSocketOnly(i) ==
    /\ relays[i].pc = "probe"
    /\ Advance(i, "bind")
    /\ UNCHANGED <<socket_files, ports, links>>

ProbeSocketTaken(i) ==
    /\ relays[i].pc = "probe"
    /\ IF socket_files[SocketPath(i)] = None
       THEN Advance(i, "bind") /\ UNCHANGED <<socket_files, ports, links>>
       ELSE Exit(i, "socket")

\* listen_path.exists(): whose socket it is makes no difference.
ProbeSocket(i) ==
    /\ relays[i].pc = "probe"
    /\ Advance(i, IF socket_files[SocketPath(i)] = None THEN "bind" ELSE "remove")
    /\ UNCHANGED <<socket_files, ports, links>>

\* remove_file fails if another process has just removed the file.
RemoveSocket(i) ==
    /\ relays[i].pc = "remove"
    /\ IF socket_files[SocketPath(i)] # None
       THEN /\ socket_files' = [socket_files EXCEPT ![SocketPath(i)] = None]
            /\ Advance(i, "bind")
            /\ UNCHANGED <<ports, links>>
       ELSE Exit(i, "socket")

\* UnixListener::bind fails if another process has just made the file.  From
\* here on the registration task runs.
BindSocket(i) ==
    /\ relays[i].pc = "bind"
    /\ IF socket_files[SocketPath(i)] = None
       THEN /\ socket_files' = [socket_files EXCEPT ![SocketPath(i)] = i]
            /\ Advance(i, "tls")
            /\ UNCHANGED <<ports, links>>
       ELSE Exit(i, "socket")

BuildTls(i) ==
    /\ relays[i].pc = "tls"
    /\ IF ServerConfigBuilt(relays[i].config)
       THEN Advance(i, "listen") /\ UNCHANGED <<socket_files, ports, links>>
       ELSE Exit(i, "tls")

\* Mutant: the port is shared.
BindPortShared(i) ==
    /\ relays[i].pc = "listen"
    /\ ports' = [ports EXCEPT ![Address(i)] = i]
    /\ Advance(i, "serving")
    /\ UNCHANGED <<socket_files, links>>

\* TcpListener::bind.
BindPort(i) ==
    /\ relays[i].pc = "listen"
    /\ IF ports[Address(i)] = None
       THEN /\ ports' = [ports EXCEPT ![Address(i)] = i]
            /\ Advance(i, "serving")
            /\ UNCHANGED <<socket_files, links>>
       ELSE Exit(i, "port")

Start(i) ==
    \/ ParseArgs(i)
    \/ LoadConfig(i)
    \/ ProbeSocket(i)
    \/ RemoveSocket(i)
    \/ BindSocket(i)
    \/ BuildTls(i)
    \/ BindPort(i)

-----------------------------------------------------------------------------
(* Ending.                                                                 *)

Kill(i) == Up(i) /\ Exit(i, "killed")

\* A file or an address cannot be used, for reasons of the system.
SystemFails(i) ==
    relays[i].pc \in {"load", "remove", "bind", "tls", "listen"} /\ Exit(i, "failed")

\* ctrl_c leaves the accept loop; so does any error of accept.
Stop(i) == Serving(i) /\ \E cause \in {"stopped", "failed"} : Exit(i, cause)

-----------------------------------------------------------------------------
(* Connections.                                                            *)

\* The kernel queues a connection to a bound port.
Dial(c) ==
    /\ links[c] = NoLink
    /\ \E a \in Addresses, client \in Clients :
          /\ ports[a] # None
          /\ links' = [links EXCEPT ![c] = [NoLink EXCEPT !.pc = "queued",
                                               !.relay = ports[a], !.client = client]]
    /\ UNCHANGED <<relays, socket_files, ports>>

\* Mutant: the handshake is awaited in the accept loop.
AcceptLinkAlone(c) ==
    /\ links[c].pc = "queued"
    /\ \A d \in Links : links[d].relay = links[c].relay => links[d].pc \notin {"tls", "upgrade"}
    /\ links' = [links EXCEPT ![c].pc = "tls"]
    /\ UNCHANGED <<relays, socket_files, ports>>

\* The accept loop spawns a task and goes on.
AcceptLink(c) ==
    /\ links[c].pc = "queued"
    /\ links' = [links EXCEPT ![c].pc = "tls"]
    /\ UNCHANGED <<relays, socket_files, ports>>

ConfigOf(c) == relays[links[c].relay].config

Handshake(c) ==
    /\ links[c].pc = "tls"
    /\ Handshakes(ConfigOf(c), links[c].client)
    /\ links' = [links EXCEPT ![c].pc = "upgrade"]
    /\ UNCHANGED <<relays, socket_files, ports>>

\* The upgrade request with its headers arrives, and the identity is derived:
\* this is where a dashboard session opens.
Upgrade(c) ==
    /\ links[c].pc = "upgrade"
    /\ LET identity == IdentityOf(ConfigOf(c), links[c].client)
       IN  links' = [links EXCEPT ![c] =
                        IF identity = None THEN NoLink
                        ELSE [@ EXCEPT !.pc = "session", !.identity = identity]]
    /\ UNCHANGED <<relays, socket_files, ports>>

\* The client leaves, or TLS or the upgrade fails.
Hangup(c) ==
    /\ links[c] # NoLink
    /\ links' = [links EXCEPT ![c] = NoLink]
    /\ UNCHANGED <<relays, socket_files, ports>>

-----------------------------------------------------------------------------

StartupNext ==
    \/ \E i \in Relays : Launch(i) \/ Start(i) \/ Kill(i) \/ SystemFails(i) \/ Stop(i)
    \/ \E c \in Links : Dial(c) \/ AcceptLink(c) \/ Handshake(c) \/ Upgrade(c) \/ Hangup(c)

\* A process that was started goes on, and so does its accept loop.  Clients may
\* stall, and nobody must start, stop or dial anything.
StartupFairness ==
    /\ \A i \in Relays : WF_startupVars(Start(i))
    /\ \A c \in Links : WF_startupVars(AcceptLink(c))

StartupSpec == StartupInit /\ [][StartupNext]_startupVars /\ StartupFairness

-----------------------------------------------------------------------------
(* Properties.                                                             *)

\* What each process and connection holds fits how far it is (type invariant).
StartupTypeOK ==
    /\ \A i \in Relays :
          /\ relays[i].pc \in Starting \cup {"off", "serving", "exited"}
          /\ relays[i].pc = "exited" <=> relays[i].cause \in Causes
          /\ Serving(i) <=> \E a \in Addresses : ports[a] = i
          /\ Up(i) /\ relays[i].pc \notin {"parse", "load"} => validate(relays[i].config)
    /\ \A p \in SocketPaths : socket_files[p] \in Relays \cup {"old", None}
    /\ \A c \in Links :
          /\ links[c].pc \in {"closed", "queued", "tls", "upgrade", "session"}
          /\ links[c].pc # "closed" =>
                links[c].relay \in Relays /\ links[c].client \in Clients /\ Serving(links[c].relay)

\* Whoever has a session was vouched for by the source the relay was configured
\* with: by a proxy at a named address, whatever else the client shows, or by an
\* issuer of the configured file (validate, build_server_config,
\* handle_wss_connection and AuthContext, over the whole way of a connection).
VouchedFor ==
    \A c \in Links : links[c].pc = "session" =>
        LET config == ConfigOf(c)
            client == links[c].client
            identity == links[c].identity
        IN  \/ /\ config.trusted_proxy.enabled
               /\ identity = Identity("TrustedProxy",
                                 client.headers[config.trusted_proxy.identity_header])
               /\ client.addr \in config.trusted_proxy.allowed_remote_addrs
            \/ /\ ~config.trusted_proxy.enabled
               /\ identity = Identity("Mtls", client.certificate.subject)
               /\ client.certificate.issuer \in Authorities[config.tls.client_ca_path]

\* A mere check of the configuration disturbs no relay: socket files and ports
\* change hands only through processes started to serve (the early return of run).
CheckDisturbsNothing ==
    [][<<socket_files, ports>>' # <<socket_files, ports>> =>
          \E i \in Relays : relays[i].pc # relays'[i].pc /\ ~CheckOnly(i)]_startupVars

OwnDecision(i) == relays[i].cause \in {"socket", "port"}

\* A relay that starts while no other runs comes to serve, although the one
\* before it was killed at any point and left its socket file (bind of
\* RegistrationListener).
RestartServes ==
    \A i \in Relays :
        LET Alone == \A j \in Relays \ {i} : ~Up(j)
        IN  relays[i].pc = "probe" /\ Alone ~>
                \/ Serving(i)
                \/ relays[i].pc = "exited" /\ ~OwnDecision(i)
                \/ ~Alone

\* Relays that start together do not all give up because of each other: in the
\* races for the socket file and the port one of them comes to serve, unless one
\* was stopped from outside or by its files.
OneOfThemServes ==
    (\E i \in Relays : relays[i].pc = "probe") ~>
        \/ \E i \in Relays : Serving(i)
        \/ \E i \in Relays : relays[i].cause \in {"tls", "killed", "failed", "stopped"}

\* A client that stalls in its handshake holds up no other: every queued
\* connection is taken while its relay serves (the spawn in the accept loop).
ConnectionsTaken == \A c \in Links : links[c].pc = "queued" ~> links[c].pc # "queued"
=============================================================================
