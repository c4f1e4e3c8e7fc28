---------------------------- MODULE StartupProofs ----------------------------
(***************************************************************************)
(* Theorems about start-up, for all numbers of processes, connections,     *)
(* configuration files, addresses and clients: what a process holds fits   *)
(* how far it is, whoever has a session was vouched for, and a mere check  *)
(* of the configuration disturbs nobody.                                   *)
(***************************************************************************)
EXTENDS Startup, TLAPS

-----------------------------------------------------------------------------
(* The inductive invariant.                                                *)

\* How far run() is once its configuration was accepted and the early return of
\* --check was passed.
Configured == {"probe", "remove", "bind", "tls", "listen", "serving"}

ProcessRecords ==
    [pc: Starting \cup {"off", "serving", "exited"}, args: Launches \cup {<<>>},
     config: {ConfigFiles[path] : path \in DOMAIN ConfigFiles} \cup {None},
     cause: Causes \cup {None}]

ProcessesFit ==
    /\ relays \in [Relays -> ProcessRecords]
    /\ \A i \in Relays : relays[i].pc = "exited" <=> relays[i].cause \in Causes

\* A process past the check has an accepted configuration and is to serve.
FitToServe(process) ==
    /\ validate(process.config)
    /\ process.config.listen.bind \in Addresses
    /\ ~ParseFrom(process.args).check_only

SettingsFit == \A i \in Relays : relays[i].pc \in Configured => FitToServe(relays[i])

\* Exactly the serving processes hold ports, each the one it is configured with.
PortsFit ==
    /\ ports \in [Addresses -> Relays \cup {None}]
    /\ \A i \in Relays : Serving(i) => ports[Address(i)] = i
    /\ \A a \in Addresses, i \in Relays : ports[a] = i => Serving(i)

FilesFit == socket_files \in [SocketPaths -> Relays \cup {"old", None}]

LinkFields == {"pc", "relay", "client", "identity"}

LinkFits(link) ==
    /\ DOMAIN link = LinkFields
    /\ link.pc \in {"closed", "queued", "tls", "upgrade", "session"}
    /\ link.pc # "closed" => link.relay \in Relays /\ link.client \in Clients

LinksFit ==
    /\ DOMAIN links = Links
    /\ \A c \in Links : LinkFits(links[c])
    /\ \A c \in Links : links[c].pc # "closed" => Serving(links[c].relay)

\* A connection past its handshake met the demands of the configuration, and the
\* identity of a session is the one derived from it.
Admitted(link, config) ==
    /\ link.pc \in {"upgrade", "session"} => Handshakes(config, link.client)
    /\ link.pc = "session" => link.identity = IdentityOf(config, link.client)
                                 /\ link.identity # None

AdmissionHolds == \A c \in Links : links[c].pc # "closed" => Admitted(links[c], ConfigOf(c))

StartupInv ==
    /\ ProcessesFit
    /\ SettingsFit
    /\ PortsFit
    /\ FilesFit
    /\ LinksFit
    /\ AdmissionHolds

-----------------------------------------------------------------------------
(* What a step of a process amounts to.                                    *)

\* A process that was not serving goes on.
Proceeds(i) ==
    /\ ~Serving(i)
    /\ relays' \in [Relays -> ProcessRecords]
    /\ \A j \in Relays \ {i} : relays'[j] = relays[j]
    /\ relays'[i].pc \in Starting \cup {"serving"}
    /\ relays'[i].cause \notin Causes
    /\ relays'[i].pc \in Configured => FitToServe(relays'[i])
    /\ FilesFit'
    /\ IF relays'[i].pc = "serving"
       THEN /\ ports[relays'[i].config.listen.bind] = None
            /\ ports' = [ports EXCEPT ![relays'[i].config.listen.bind] = i]
       ELSE UNCHANGED ports
    /\ UNCHANGED links

Ends(i) == \E cause \in Causes : Exit(i, cause)

\* Where a process may go on to, and what it must have been before: the step
\* changes its place alone.
LEMMA AdvanceEffect ==
    ASSUME ProcessesFit, SettingsFit, NEW i \in Relays,
           NEW pc \in Starting \cup {"serving"}, Advance(i, pc),
           relays[i].pc \notin {"off", "exited"},
           pc \in Configured => relays[i].pc \in Configured
    PROVE  /\ relays' \in [Relays -> ProcessRecords]
           /\ \A j \in Relays \ {i} : relays'[j] = relays[j]
           /\ relays'[i].pc = pc
           /\ relays'[i].config = relays[i].config
           /\ relays'[i].cause \notin Causes
           /\ pc \in Configured => FitToServe(relays'[i])
<1>1. /\ relays[i] \in ProcessRecords
      /\ relays[i].cause \notin Causes
  BY DEF ProcessesFit
<1> DEFINE process == [relays[i] EXCEPT !.pc = pc]
<1>2. /\ process \in ProcessRecords
      /\ process.pc = pc
      /\ process.config = relays[i].config
      /\ process.args = relays[i].args
      /\ process.cause = relays[i].cause
  BY <1>1 DEF ProcessRecords
<1>3. relays' = [relays EXCEPT ![i] = process]
  BY Zenon DEF Advance
<1>4. pc \in Configured => FitToServe(process)
  BY <1>2, Zenon DEF SettingsFit, FitToServe
<1> HIDE DEF process
<1>5. /\ relays' \in [Relays -> ProcessRecords]
      /\ \A j \in Relays \ {i} : relays'[j] = relays[j]
      /\ relays'[i] = process
  BY <1>2, <1>3 DEF ProcessesFit
<1> QED
  BY <1>1, <1>2, <1>4, <1>5, Zenon

\* Launch: a process that is off takes its arguments.
LEMMA LaunchEffect ==
    ASSUME StartupInv, NEW i \in Relays, Launch(i)
    PROVE  Proceeds(i)
<1>1. PICK args \in Launches : relays' = [relays EXCEPT ![i].pc = "parse", ![i].args = args]
  BY Zenon DEF Launch
<1>2. relays[i].pc = "off" /\ relays[i] \in ProcessRecords /\ relays[i].cause \notin Causes
  BY DEF Launch, StartupInv, ProcessesFit
<1> DEFINE process == [relays[i] EXCEPT !.pc = "parse", !.args = args]
<1>3. process \in ProcessRecords /\ process.pc = "parse" /\ process.cause = relays[i].cause
  BY <1>2 DEF ProcessRecords, Starting
<1>4. relays' = [relays EXCEPT ![i] = process]
  BY <1>1, <1>2 DEF StartupInv, ProcessesFit, ProcessRecords
<1> HIDE DEF process
<1>5. /\ relays' \in [Relays -> ProcessRecords]
      /\ \A j \in Relays \ {i} : relays'[j] = relays[j]
      /\ relays'[i] = process
  BY <1>3, <1>4 DEF StartupInv, ProcessesFit
<1>6. UNCHANGED <<socket_files, ports, links>>
  BY DEF Launch
<1> QED
  BY <1>2, <1>3, <1>5, <1>6 DEF Proceeds, Serving, Starting, Configured, StartupInv, FilesFit

\* LoadConfig: an accepted configuration is kept by a process that is to serve.
LEMMA LoadConfigEffect ==
    ASSUME StartupInv, NEW i \in Relays, LoadConfig(i)
    PROVE  Proceeds(i) \/ Ends(i)
<1> DEFINE path == ParseFrom(relays[i].args).config_path
           process == [relays[i] EXCEPT !.pc = "probe", !.config = ConfigFiles[path]]
<1>1. relays[i].pc = "load" /\ relays[i] \in ProcessRecords /\ relays[i].cause \notin Causes
  BY DEF LoadConfig, StartupInv, ProcessesFit
<1>2. CASE path \notin DOMAIN ConfigFiles \/ ~validate(ConfigFiles[path])
  BY <1>2, Zenon DEF LoadConfig, Ends, Causes
<1>3. CASE path \in DOMAIN ConfigFiles /\ validate(ConfigFiles[path]) /\ CheckOnly(i)
  <2>1. Exit(i, "checked")
    BY <1>3, Zenon DEF LoadConfig
  <2> QED
    BY <2>1 DEF Ends, Causes
<1>4. CASE path \in DOMAIN ConfigFiles /\ validate(ConfigFiles[path]) /\ ~CheckOnly(i)
  <2>1. /\ relays' = [relays EXCEPT ![i].pc = "probe", ![i].config = ConfigFiles[path]]
        /\ UNCHANGED <<socket_files, ports, links>>
    BY <1>4, Zenon DEF LoadConfig
  <2>2. /\ process \in ProcessRecords
        /\ process.pc = "probe"
        /\ process.config = ConfigFiles[path]
        /\ process.args = relays[i].args
        /\ process.cause = relays[i].cause
    BY <1>1, <1>4 DEF ProcessRecords, Starting
  <2>3. relays' = [relays EXCEPT ![i] = process]
    BY <1>1, <2>1 DEF StartupInv, ProcessesFit, ProcessRecords
  <2>4. FitToServe(process)
    BY <1>4, <2>2, ConfigAssumption, Zenon DEF FitToServe, CheckOnly
  <2> HIDE DEF process, path
  <2>5. /\ relays' \in [Relays -> ProcessRecords]
        /\ \A j \in Relays \ {i} : relays'[j] = relays[j]
        /\ relays'[i] = process
    BY <2>2, <2>3 DEF StartupInv, ProcessesFit
  <2> QED
    BY <1>1, <2>1, <2>2, <2>4, <2>5 DEF Proceeds, Serving, Starting, StartupInv, FilesFit
<1> QED
  BY <1>2, <1>3, <1>4

\* The other steps of run(): the process gives up, or takes its next place with
\* or without the socket file or the port.
LEMMA StartEffect ==
    ASSUME StartupInv, NEW i \in Relays, Start(i)
    PROVE  Proceeds(i) \/ Ends(i)
<1> USE DEF StartupInv
<1> relays[i].pc \in Starting
  BY DEF Start, ParseArgs, LoadConfig, ProbeSocket, RemoveSocket, BindSocket, BuildTls,
         BindPort, Starting
<1>1. ASSUME NEW pc \in Starting, Advance(i, pc), FilesFit', UNCHANGED <<ports, links>>,
             pc \in Configured => relays[i].pc \in Configured
      PROVE  Proceeds(i)
  <2>1. relays[i].pc \notin {"off", "exited"} /\ ~Serving(i) /\ pc # "serving"
    BY DEF Starting, Serving
  <2>2. /\ relays' \in [Relays -> ProcessRecords]
        /\ \A j \in Relays \ {i} : relays'[j] = relays[j]
        /\ relays'[i].pc = pc
        /\ relays'[i].cause \notin Causes
        /\ pc \in Configured => FitToServe(relays'[i])
    BY <1>1, <2>1, AdvanceEffect
  <2> QED
    BY <1>1, <2>1, <2>2 DEF Proceeds
<1>2. CASE ParseArgs(i)
  <2>1. CASE ArgsAccepted(relays[i].args)
    <3>1. Advance(i, "load") /\ UNCHANGED <<socket_files, ports, links>>
      BY <1>2, <2>1, Zenon DEF ParseArgs
    <3> QED
      BY <1>1, <3>1 DEF FilesFit, Starting, Configured
  <2>2. CASE ~ArgsAccepted(relays[i].args)
    BY <1>2, <2>2, Zenon DEF ParseArgs, Ends, Causes
  <2> QED
    BY <2>1, <2>2
<1>3. CASE LoadConfig(i)
  BY <1>3, LoadConfigEffect
<1>4. CASE ProbeSocket(i)
  <2>1. PICK pc \in {"bind", "remove"} :
            Advance(i, pc) /\ UNCHANGED <<socket_files, ports, links>>
    BY <1>4 DEF ProbeSocket
  <2> QED
    BY <1>1, <1>4, <2>1 DEF ProbeSocket, FilesFit, Starting, Configured
<1>5. CASE RemoveSocket(i)
  <2>1. CASE socket_files[SocketPath(i)] # None
    <3>1. /\ relays[i].pc = "remove"
          /\ socket_files' = [socket_files EXCEPT ![SocketPath(i)] = None]
          /\ Advance(i, "bind") /\ UNCHANGED <<ports, links>>
      BY <1>5, <2>1, Zenon DEF RemoveSocket
    <3>2. FilesFit'
      BY <3>1 DEF FilesFit
    <3> QED
      BY <1>1, <3>1, <3>2 DEF Starting, Configured
  <2>2. CASE socket_files[SocketPath(i)] = None
    BY <1>5, <2>2, Zenon DEF RemoveSocket, Ends, Causes
  <2> QED
    BY <2>1, <2>2
<1>6. CASE BindSocket(i)
  <2>1. CASE socket_files[SocketPath(i)] = None
    <3>1. /\ relays[i].pc = "bind"
          /\ socket_files' = [socket_files EXCEPT ![SocketPath(i)] = i]
          /\ Advance(i, "tls") /\ UNCHANGED <<ports, links>>
      BY <1>6, <2>1, Zenon DEF BindSocket
    <3>2. FilesFit'
      BY <3>1 DEF FilesFit
    <3> QED
      BY <1>1, <3>1, <3>2 DEF Starting, Configured
  <2>2. CASE socket_files[SocketPath(i)] # None
    BY <1>6, <2>2, Zenon DEF BindSocket, Ends, Causes
  <2> QED
    BY <2>1, <2>2
<1>7. CASE BuildTls(i)
  <2>1. CASE ServerConfigBuilt(relays[i].config)
    <3>1. /\ relays[i].pc = "tls"
          /\ Advance(i, "listen") /\ UNCHANGED <<socket_files, ports, links>>
      BY <1>7, <2>1, Zenon DEF BuildTls
    <3> QED
      BY <1>1, <3>1 DEF FilesFit, Starting, Configured
  <2>2. CASE ~ServerConfigBuilt(relays[i].config)
    BY <1>7, <2>2, Zenon DEF BuildTls, Ends, Causes
  <2> QED
    BY <2>1, <2>2
<1>8. CASE BindPort(i)
  <2>1. CASE ports[Address(i)] = None
    <3>1. /\ relays[i].pc = "listen"
          /\ ports' = [ports EXCEPT ![Address(i)] = i]
          /\ Advance(i, "serving") /\ UNCHANGED <<socket_files, links>>
      BY <1>8, <2>1, Zenon DEF BindPort
    <3>2. relays[i].pc \in Configured /\ relays[i].pc \notin {"off", "exited", "serving"}
      BY <3>1 DEF Configured
    <3>3. /\ relays' \in [Relays -> ProcessRecords]
          /\ \A j \in Relays \ {i} : relays'[j] = relays[j]
          /\ relays'[i].pc = "serving"
          /\ relays'[i].config = relays[i].config
          /\ relays'[i].cause \notin Causes
          /\ FitToServe(relays'[i])
      BY <3>1, <3>2, AdvanceEffect DEF Configured
    <3> QED
      BY <2>1, <3>1, <3>2, <3>3 DEF Proceeds, Serving, Address, FilesFit
  <2>2. CASE ports[Address(i)] # None
    BY <1>8, <2>2, Zenon DEF BindPort, Ends, Causes
  <2> QED
    BY <2>1, <2>2
<1> QED
  BY <1>2, <1>3, <1>4, <1>5, <1>6, <1>7, <1>8 DEF Start

-----------------------------------------------------------------------------
(* Processes keep the invariant.                                           *)

LEMMA ProceedsKeeps ==
    ASSUME StartupInv, NEW i \in Relays, Proceeds(i)
    PROVE  StartupInv'
<1> DEFINE process == relays'[i]
<1>1. /\ relays' \in [Relays -> ProcessRecords]
      /\ \A j \in Relays \ {i} : relays'[j] = relays[j]
      /\ process.pc \in Starting \cup {"serving"}
      /\ process.cause \notin Causes
      /\ process.pc \in Configured => FitToServe(process)
      /\ UNCHANGED links
      /\ ~Serving(i)
  BY Zenon DEF Proceeds
<1>2. process.pc # "exited"
  BY <1>1 DEF Starting
<1>3. ProcessesFit'
  BY <1>1, <1>2 DEF StartupInv, ProcessesFit
<1>4. SettingsFit'
  BY <1>1, Zenon DEF StartupInv, SettingsFit
<1>5. PortsFit'
  <2> DEFINE bind == process.config.listen.bind
  <2>1. \A j \in Relays \ {i} : Serving(j)' <=> Serving(j)
    BY <1>1, Zenon DEF Serving
  <2>2. \A j \in Relays \ {i} : Address(j)' = Address(j)
    BY <1>1, Zenon DEF Address
  <2>3. Address(i)' = bind /\ (Serving(i)' <=> process.pc = "serving")
    BY DEF Address, Serving
  <2>4. \A a \in Addresses : ports[a] # i
    BY <1>1, Zenon DEF StartupInv, PortsFit
  <2>5. None \notin Relays
    BY RelayAssumption
  <2>6. CASE process.pc = "serving"
    <3>1. ports[bind] = None /\ ports' = [ports EXCEPT ![bind] = i] /\ bind \in Addresses
      BY <1>1, <2>6 DEF Proceeds, FitToServe, Configured
    <3> HIDE DEF process, bind
    <3>2. ports' \in [Addresses -> Relays \cup {None}]
      BY <3>1 DEF StartupInv, PortsFit
    <3>3. ASSUME NEW j \in Relays, Serving(j)'
          PROVE  ports'[Address(j)'] = j
      <4>1. CASE j = i
        BY <2>3, <3>1, <4>1 DEF StartupInv, PortsFit
      <4>2. CASE j # i
        <5>1. ports[Address(j)] = j
          BY <2>1, <3>3, <4>2, Zenon DEF StartupInv, PortsFit
        <5>2. Address(j) # bind
          BY <2>5, <3>1, <5>1
        <5> QED
          BY <2>2, <3>1, <4>2, <5>1, <5>2 DEF StartupInv, PortsFit
      <4> QED
        BY <4>1, <4>2
    <3>4. ASSUME NEW a \in Addresses, NEW j \in Relays, ports'[a] = j
          PROVE  Serving(j)'
      <4>1. CASE j = i
        BY <2>3, <2>6, <4>1
      <4>2. CASE j # i
        <5>1. ports[a] = j
          BY <3>1, <3>4, <4>2 DEF StartupInv, PortsFit
        <5> QED
          BY <2>1, <4>2, <5>1, Zenon DEF StartupInv, PortsFit
      <4> QED
        BY <4>1, <4>2
    <3> QED
      BY <3>2, <3>3, <3>4, Zenon DEF PortsFit
  <2>7. CASE process.pc # "serving"
    <3>1. UNCHANGED ports
      BY <2>7, Zenon DEF Proceeds
    <3>2. ASSUME NEW j \in Relays, Serving(j)'
          PROVE  ports'[Address(j)'] = j
      BY <2>1, <2>2, <2>3, <2>7, <3>1, <3>2, Zenon DEF StartupInv, PortsFit
    <3>3. ASSUME NEW a \in Addresses, NEW j \in Relays, ports'[a] = j
          PROVE  Serving(j)'
      BY <2>1, <2>4, <3>1, <3>3, Zenon DEF StartupInv, PortsFit
    <3> QED
      BY <3>1, <3>2, <3>3, Zenon DEF StartupInv, PortsFit
  <2> QED
    BY <2>6, <2>7
<1>6. FilesFit'
  BY Zenon DEF Proceeds
<1>7. \A c \in Links : links[c].pc # "closed" =>
          links[c].relay \in Relays \ {i} /\ relays'[links[c].relay] = relays[links[c].relay]
  BY <1>1 DEF StartupInv, LinksFit, LinkFits
<1>8. LinksFit'
  BY <1>1, <1>7, Zenon DEF StartupInv, LinksFit, Serving
<1>9. AdmissionHolds'
  BY <1>1, <1>7, Zenon DEF StartupInv, AdmissionHolds, ConfigOf
<1> QED
  BY <1>3, <1>4, <1>5, <1>6, <1>8, <1>9 DEF StartupInv

\* The end of a process takes its port and its connections with it, and nobody
\* else's.
LEMMA EndsKeeps ==
    ASSUME StartupInv, NEW i \in Relays, Ends(i)
    PROVE  StartupInv'
<1>1. PICK cause \in Causes : Exit(i, cause)
  BY DEF Ends
<1> DEFINE process == [Unstarted EXCEPT !.pc = "exited", !.cause = cause]
<1>2. /\ process \in ProcessRecords
      /\ process.pc = "exited"
      /\ process.cause = cause
  BY DEF ProcessRecords, Unstarted
<1>3. relays' = [relays EXCEPT ![i] = process]
  BY <1>1, Zenon DEF Exit
<1> HIDE DEF process
<1>4. /\ relays' \in [Relays -> ProcessRecords]
      /\ \A j \in Relays \ {i} : relays'[j] = relays[j]
      /\ relays'[i] = process
  BY <1>2, <1>3 DEF StartupInv, ProcessesFit
<1>5. ProcessesFit'
  BY <1>2, <1>4 DEF StartupInv, ProcessesFit
<1>6. SettingsFit'
  BY <1>2, <1>4 DEF StartupInv, SettingsFit, Configured
<1>7. ~Serving(i)' /\ \A j \in Relays \ {i} : (Serving(j)' <=> Serving(j)) /\ Address(j)' = Address(j)
  BY <1>2, <1>4 DEF Serving, Address
<1>8. ports' = [a \in Addresses |-> IF ports[a] = i THEN None ELSE ports[a]]
  BY <1>1 DEF Exit
<1>9. None \notin Relays
  BY RelayAssumption
<1>10. PortsFit'
  <2>1. ports' \in [Addresses -> Relays \cup {None}]
    BY <1>8 DEF StartupInv, PortsFit
  <2>2. ASSUME NEW j \in Relays, Serving(j)'
        PROVE  ports'[Address(j)'] = j
    <3>1. j # i /\ Serving(j) /\ Address(j)' = Address(j)
      BY <1>7, <2>2
    <3>2. Address(j) \in Addresses
      BY <3>1 DEF StartupInv, SettingsFit, Configured, Serving, FitToServe, Address
    <3> QED
      BY <1>8, <3>1, <3>2 DEF StartupInv, PortsFit
  <2>3. ASSUME NEW a \in Addresses, NEW j \in Relays, ports'[a] = j
        PROVE  Serving(j)'
    <3>1. ports[a] = j /\ j # i
      BY <1>8, <1>9, <2>3
    <3> QED
      BY <1>7, <3>1 DEF StartupInv, PortsFit
  <2> QED
    BY <2>1, <2>2, <2>3, Zenon DEF PortsFit
<1>11. FilesFit'
  BY <1>1 DEF Exit, StartupInv, FilesFit
<1>12. links' = [c \in Links |-> IF links[c].relay = i THEN NoLink ELSE links[c]]
  BY <1>1 DEF Exit
<1>13. LinkFits(NoLink) /\ NoLink.pc = "closed"
  BY DEF LinkFits, LinkFields, NoLink
<1>14. ASSUME NEW c \in Links, links'[c].pc # "closed"
       PROVE  /\ links'[c] = links[c]
              /\ links[c].relay \in Relays \ {i}
  <2>1. links[c].relay # i /\ links'[c] = links[c]
    BY <1>12, <1>13, <1>14
  <2> QED
    BY <1>14, <2>1, Zenon DEF StartupInv, LinksFit, LinkFits
<1>15. LinksFit'
  <2>1. DOMAIN links' = Links /\ \A c \in Links : LinkFits(links'[c])
    BY <1>12, <1>13, Zenon DEF StartupInv, LinksFit
  <2>2. ASSUME NEW c \in Links, links'[c].pc # "closed"
        PROVE  relays'[links'[c].relay].pc = "serving"
    BY <1>4, <1>14, <2>2, Zenon DEF StartupInv, LinksFit, Serving
  <2> QED
    BY <2>1, <2>2, Zenon DEF LinksFit, Serving
<1>16. AdmissionHolds'
  BY <1>4, <1>14, Zenon DEF StartupInv, AdmissionHolds, ConfigOf
<1> QED
  BY <1>5, <1>6, <1>10, <1>11, <1>15, <1>16 DEF StartupInv

-----------------------------------------------------------------------------
(* Connections keep the invariant.                                         *)

\* A step of one connection that leaves it fitting and admitted.
LEMMA LinkStepKeeps ==
    ASSUME StartupInv, NEW c \in Links, NEW link, LinkFits(link),
           links' = [links EXCEPT ![c] = link],
           UNCHANGED <<relays, socket_files, ports>>,
           link.pc # "closed" =>
               /\ Serving(link.relay)
               /\ Admitted(link, relays[link.relay].config)
    PROVE  StartupInv'
<1>1. ProcessesFit' /\ FilesFit'
  BY DEF StartupInv, ProcessesFit, FilesFit
<1>2. SettingsFit'
  BY DEF StartupInv, SettingsFit
<1>3. PortsFit'
  BY Zenon DEF StartupInv, PortsFit, Serving, Address
<1>4. /\ DOMAIN links' = Links
      /\ links'[c] = link
      /\ \A d \in Links \ {c} : links'[d] = links[d]
  BY DEF StartupInv, LinksFit
<1>5. LinksFit'
  BY <1>4, Zenon DEF StartupInv, LinksFit, Serving
<1>6. AdmissionHolds'
  BY <1>4, Zenon DEF StartupInv, AdmissionHolds, ConfigOf
<1> QED
  BY <1>1, <1>2, <1>3, <1>5, <1>6 DEF StartupInv

LEMMA NoLinkFits ==
    LinkFits(NoLink) /\ NoLink.pc = "closed"
BY DEF LinkFits, LinkFields, NoLink

\* The kernel queues a connection only where a relay serves.
LEMMA DialKeeps ==
    ASSUME StartupInv, NEW c \in Links, Dial(c)
    PROVE  StartupInv'
<1>1. PICK a \in Addresses, client \in Clients :
          /\ ports[a] # None
          /\ links' = [links EXCEPT ![c] = [NoLink EXCEPT !.pc = "queued",
                                               !.relay = ports[a], !.client = client]]
  BY Zenon DEF Dial
<1> DEFINE link == [NoLink EXCEPT !.pc = "queued", !.relay = ports[a], !.client = client]
<1>2. ports[a] \in Relays /\ Serving(ports[a])
  BY <1>1 DEF StartupInv, PortsFit
<1>3. DOMAIN link = LinkFields /\ link.pc = "queued" /\ link.relay = ports[a] /\ link.client = client
  BY DEF NoLink, LinkFields
<1>4. links' = [links EXCEPT ![c] = link]
  BY <1>1, Zenon
<1>5. UNCHANGED <<relays, socket_files, ports>>
  BY DEF Dial
<1> HIDE DEF link
<1>6. LinkFits(link) /\ Admitted(link, relays[link.relay].config)
  BY <1>2, <1>3 DEF LinkFits, Admitted
<1> QED
  BY <1>2, <1>3, <1>4, <1>5, <1>6, LinkStepKeeps

\* The accept loop and the TLS handshake move a connection on.
LEMMA MoveKeeps ==
    ASSUME StartupInv, NEW c \in Links, AcceptLink(c) \/ Handshake(c)
    PROVE  StartupInv'
<1>1. PICK pc \in {"tls", "upgrade"} :
          /\ links' = [links EXCEPT ![c].pc = pc]
          /\ links[c].pc \in {"queued", "tls"}
          /\ pc = "upgrade" => Handshakes(ConfigOf(c), links[c].client)
          /\ UNCHANGED <<relays, socket_files, ports>>
  <2>1. CASE AcceptLink(c)
    BY <2>1 DEF AcceptLink
  <2>2. CASE Handshake(c)
    BY <2>2 DEF Handshake
  <2> QED
    BY <2>1, <2>2
<1> DEFINE link == [links[c] EXCEPT !.pc = pc]
<1>2. LinkFits(links[c]) /\ Serving(links[c].relay)
  BY <1>1 DEF StartupInv, LinksFit
<1>3. /\ DOMAIN link = LinkFields
      /\ link.pc = pc
      /\ link.relay = links[c].relay
      /\ link.client = links[c].client
  BY <1>2 DEF LinkFits, LinkFields
<1>4. links' = [links EXCEPT ![c] = link]
  BY <1>1, Zenon
<1> HIDE DEF link
<1>5. LinkFits(link)
  BY <1>1, <1>2, <1>3 DEF LinkFits
<1>6. Admitted(link, relays[link.relay].config)
  BY <1>1, <1>3 DEF Admitted, ConfigOf
<1> QED
  BY <1>1, <1>2, <1>3, <1>4, <1>5, <1>6, LinkStepKeeps

\* A session opens with the identity that the configuration derives.
LEMMA UpgradeKeeps ==
    ASSUME StartupInv, NEW c \in Links, Upgrade(c)
    PROVE  StartupInv'
<1> DEFINE identity == IdentityOf(ConfigOf(c), links[c].client)
<1>1. links[c].pc = "upgrade" /\ UNCHANGED <<relays, socket_files, ports>>
  BY DEF Upgrade
<1>2. CASE identity = None
  <2>1. links' = [links EXCEPT ![c] = NoLink]
    BY <1>2, Zenon DEF Upgrade
  <2> QED
    BY <1>1, <2>1, NoLinkFits, LinkStepKeeps
<1>3. CASE identity # None
  <2> DEFINE link == [links[c] EXCEPT !.pc = "session", !.identity = identity]
  <2>1. links' = [links EXCEPT ![c] = link]
    BY <1>3, Zenon DEF Upgrade
  <2>2. /\ LinkFits(links[c])
        /\ Serving(links[c].relay)
        /\ Admitted(links[c], ConfigOf(c))
    BY <1>1 DEF StartupInv, LinksFit, AdmissionHolds
  <2> HIDE DEF identity
  <2>3. /\ DOMAIN link = LinkFields
        /\ link.pc = "session"
        /\ link.relay = links[c].relay
        /\ link.client = links[c].client
        /\ link.identity = identity
    BY <2>2 DEF LinkFits, LinkFields
  <2> HIDE DEF link
  <2>4. LinkFits(link)
    BY <1>1, <2>2, <2>3 DEF LinkFits
  <2>5. Handshakes(ConfigOf(c), links[c].client)
    BY <1>1, <2>2, Zenon DEF Admitted
  <2>6. ConfigOf(c) = relays[link.relay].config
    BY <2>3, Zenon DEF ConfigOf
  <2>7. Admitted(link, relays[link.relay].config)
    BY <1>3, <2>3, <2>5, <2>6, Zenon DEF Admitted, identity
  <2> QED
    BY <1>1, <2>1, <2>2, <2>3, <2>4, <2>7, LinkStepKeeps
<1> QED
  BY <1>2, <1>3

LEMMA StartupInvInit ==
    StartupInit => StartupInv
<1> SUFFICES ASSUME StartupInit
             PROVE  StartupInv
  OBVIOUS
<1>1. /\ Unstarted \in ProcessRecords
      /\ Unstarted.pc = "off"
      /\ Unstarted.cause \notin Causes
  BY RelayAssumption DEF Unstarted, ProcessRecords
<1>2. ProcessesFit /\ SettingsFit
  BY <1>1 DEF StartupInit, ProcessesFit, SettingsFit, Configured
<1>3. PortsFit /\ FilesFit
  BY <1>1, RelayAssumption DEF StartupInit, PortsFit, FilesFit, Serving
<1>4. LinksFit /\ AdmissionHolds
  BY NoLinkFits DEF StartupInit, LinksFit, AdmissionHolds
<1> QED
  BY <1>2, <1>3, <1>4 DEF StartupInv

\* Every step of a process or a connection is one of those above.
LEMMA ProcessSteps ==
    ASSUME StartupInv, NEW i \in Relays,
           Launch(i) \/ Start(i) \/ Kill(i) \/ SystemFails(i) \/ Stop(i)
    PROVE  Proceeds(i) \/ Ends(i)
BY LaunchEffect, StartEffect DEF Kill, SystemFails, Stop, Ends, Causes

LEMMA StartupInvStep ==
    StartupInv /\ [StartupNext]_startupVars => StartupInv'
<1> SUFFICES ASSUME StartupInv, [StartupNext]_startupVars
             PROVE  StartupInv'
  OBVIOUS
<1>1. ASSUME NEW i \in Relays,
             Launch(i) \/ Start(i) \/ Kill(i) \/ SystemFails(i) \/ Stop(i)
      PROVE  StartupInv'
  BY <1>1, ProcessSteps, ProceedsKeeps, EndsKeeps
<1>2. ASSUME NEW c \in Links, Dial(c)
      PROVE  StartupInv'
  BY <1>2, DialKeeps
<1>3. ASSUME NEW c \in Links, AcceptLink(c) \/ Handshake(c)
      PROVE  StartupInv'
  BY <1>3, MoveKeeps
<1>4. ASSUME NEW c \in Links, Upgrade(c)
      PROVE  StartupInv'
  BY <1>4, UpgradeKeeps
<1>5. ASSUME NEW c \in Links, Hangup(c)
      PROVE  StartupInv'
  <2>1. links' = [links EXCEPT ![c] = NoLink] /\ UNCHANGED <<relays, socket_files, ports>>
    BY <1>5, Zenon DEF Hangup
  <2> QED
    BY <2>1, NoLinkFits, LinkStepKeeps
<1>6. CASE UNCHANGED startupVars
  <2>1. UNCHANGED relays /\ UNCHANGED socket_files /\ UNCHANGED ports /\ UNCHANGED links
    BY <1>6 DEF startupVars
  <2> QED
    BY <2>1, Zenon DEF StartupInv, ProcessesFit, SettingsFit, PortsFit, FilesFit, LinksFit,
         AdmissionHolds, Serving, Address, ConfigOf
<1> QED
  BY <1>1, <1>2, <1>3, <1>4, <1>5, <1>6 DEF StartupNext

LEMMA StartupInvariant ==
    StartupSpec => []StartupInv
BY StartupInvInit, StartupInvStep, PTL DEF StartupSpec

-----------------------------------------------------------------------------
(* What follows.                                                           *)

\* A process holds what fits how far it is: exactly the serving ones have a
\* port, whoever got past load_from_path has an accepted configuration, and a
\* connection that is open belongs to a relay that serves (run of main.rs).
THEOREM StartupTypeCorrect ==
    StartupSpec => []StartupTypeOK
<1>1. ASSUME StartupInv
      PROVE  StartupTypeOK
  <2>1. ASSUME NEW i \in Relays
        PROVE  /\ relays[i].pc \in Starting \cup {"off", "serving", "exited"}
               /\ relays[i].pc = "exited" <=> relays[i].cause \in Causes
    BY <1>1 DEF StartupInv, ProcessesFit, ProcessRecords
  <2>2. ASSUME NEW i \in Relays
        PROVE  Serving(i) <=> \E a \in Addresses : ports[a] = i
    <3>1. Serving(i) => Address(i) \in Addresses
      BY <1>1 DEF StartupInv, SettingsFit, Serving, Configured, FitToServe, Address
    <3> QED
      BY <1>1, <3>1, Zenon DEF StartupInv, PortsFit
  <2>3. ASSUME NEW i \in Relays, Up(i), relays[i].pc \notin {"parse", "load"}
        PROVE  validate(relays[i].config)
    BY <1>1, <2>3 DEF StartupInv, SettingsFit, Up, Starting, Configured, FitToServe
  <2>4. \A p \in SocketPaths : socket_files[p] \in Relays \cup {"old", None}
    BY <1>1 DEF StartupInv, FilesFit
  <2>5. \A c \in Links :
           /\ links[c].pc \in {"closed", "queued", "tls", "upgrade", "session"}
           /\ links[c].pc # "closed" =>
                 links[c].relay \in Relays /\ links[c].client \in Clients /\ Serving(links[c].relay)
    BY <1>1, Zenon DEF StartupInv, LinksFit, LinkFits
  <2> QED
    BY <2>1, <2>2, <2>3, <2>4, <2>5, Zenon DEF StartupTypeOK
<1> QED
  BY <1>1, StartupInvariant, PTL

\* Whoever has a session was vouched for by the configured source: a named proxy
\* or an issuer of the configured file (validate, build_server_config,
\* handle_wss_connection and AuthContext).
THEOREM SessionsAreVouchedFor ==
    StartupSpec => []VouchedFor
<1>1. ASSUME StartupInv
      PROVE  VouchedFor
  <2> SUFFICES ASSUME NEW c \in Links, links[c].pc = "session"
               PROVE  LET config == ConfigOf(c)
                          client == links[c].client
                          identity == links[c].identity
                      IN  \/ /\ config.trusted_proxy.enabled
                             /\ identity = Identity("TrustedProxy",
                                    client.headers[config.trusted_proxy.identity_header])
                             /\ client.addr \in config.trusted_proxy.allowed_remote_addrs
                          \/ /\ ~config.trusted_proxy.enabled
                             /\ identity = Identity("Mtls", client.certificate.subject)
                             /\ client.certificate.issuer
                                    \in Authorities[config.tls.client_ca_path]
    BY Zenon DEF VouchedFor
  <2> DEFINE config == ConfigOf(c)
             client == links[c].client
             identity == links[c].identity
  <2>1. /\ Handshakes(config, client)
        /\ identity = IdentityOf(config, client)
        /\ identity # None
    BY <1>1 DEF StartupInv, AdmissionHolds, Admitted
  <2> HIDE DEF config, client, identity
  <2>2. CASE config.trusted_proxy.enabled
    <3>1. identity = identity_from_trusted_proxy(config.trusted_proxy, client)
      BY <2>1, <2>2, Zenon DEF IdentityOf
    <3>2. /\ is_allowed_remote_addr(config.trusted_proxy, client.addr)
          /\ HeaderValue(client, config.trusted_proxy.identity_header) # None
          /\ identity = Identity("TrustedProxy",
                            HeaderValue(client, config.trusted_proxy.identity_header))
      BY <2>1, <3>1, Zenon DEF identity_from_trusted_proxy
    <3>3. HeaderValue(client, config.trusted_proxy.identity_header)
              = client.headers[config.trusted_proxy.identity_header]
      BY <3>2, Zenon DEF HeaderValue
    <3>4. client.addr \in config.trusted_proxy.allowed_remote_addrs
      BY <3>2, Zenon DEF is_allowed_remote_addr
    <3> QED
      BY <2>2, <3>2, <3>3, <3>4, Zenon DEF config, client, identity
  <2>3. CASE ~config.trusted_proxy.enabled
    <3>1. identity = identity_from_mtls_der(client.certificate)
      BY <2>1, <2>3, Zenon DEF IdentityOf, PeerCertificate
    <3>2. identity = Identity("Mtls", client.certificate.subject)
      BY <2>1, <3>1, Zenon DEF identity_from_mtls_der
    <3>3. client.certificate.issuer \in Authorities[config.tls.client_ca_path]
      BY <2>1, <2>3, Zenon DEF Handshakes
    <3> QED
      BY <2>3, <3>2, <3>3, Zenon DEF config, client, identity
  <2> QED
    BY <2>2, <2>3
<1> QED
  BY <1>1, StartupInvariant, PTL

\* The step that changes a file or a port is one of a process past the early
\* return of --check.
LEMMA OnlyServersDisturb ==
    ASSUME StartupInv, NEW i \in Relays,
           Launch(i) \/ Start(i) \/ Kill(i) \/ SystemFails(i) \/ Stop(i),
           <<socket_files, ports>>' # <<socket_files, ports>>
    PROVE  relays[i].pc # relays'[i].pc /\ ~CheckOnly(i)
<1>1. relays[i].pc \in Configured => ~CheckOnly(i)
  BY Zenon DEF StartupInv, SettingsFit, FitToServe, CheckOnly
<1>2. ASSUME NEW cause, Exit(i, cause)
      PROVE  relays[i].pc # relays'[i].pc /\ ~CheckOnly(i)
  <2>1. ~(UNCHANGED ports)
    BY <1>2, Zenon DEF Exit
  <2>2. ports' = [a \in Addresses |-> IF ports[a] = i THEN None ELSE ports[a]]
    BY <1>2 DEF Exit
  <2>3. \E a \in Addresses : ports[a] = i
    BY <2>1, <2>2 DEF StartupInv, PortsFit
  <2>4. relays[i].pc = "serving"
    BY <2>3 DEF StartupInv, PortsFit, Serving
  <2>5. relays'[i].pc = "exited"
    BY <1>2 DEF Exit, Unstarted, StartupInv, ProcessesFit
  <2> QED
    BY <1>1, <2>4, <2>5 DEF Configured
<1>3. ASSUME NEW from \in Configured, NEW to, from # to, relays[i].pc = from, Advance(i, to)
      PROVE  relays[i].pc # relays'[i].pc /\ ~CheckOnly(i)
  BY <1>1, <1>3 DEF Advance, StartupInv, ProcessesFit, ProcessRecords
<1>4. CASE RemoveSocket(i)
  <2>1. relays[i].pc = "remove" /\ (Advance(i, "bind") \/ Exit(i, "socket"))
    BY <1>4, Zenon DEF RemoveSocket
  <2> QED
    BY <1>2, <1>3, <2>1 DEF Configured
<1>5. CASE BindSocket(i)
  <2>1. relays[i].pc = "bind" /\ (Advance(i, "tls") \/ Exit(i, "socket"))
    BY <1>5, Zenon DEF BindSocket
  <2> QED
    BY <1>2, <1>3, <2>1 DEF Configured
<1>6. CASE BindPort(i)
  <2>1. relays[i].pc = "listen" /\ (Advance(i, "serving") \/ Exit(i, "port"))
    BY <1>6, Zenon DEF BindPort
  <2> QED
    BY <1>2, <1>3, <2>1 DEF Configured
<1>7. CASE Launch(i) \/ ParseArgs(i) \/ LoadConfig(i) \/ ProbeSocket(i) \/ BuildTls(i)
  <2>1. UNCHANGED <<socket_files, ports, links>> \/ \E cause : Exit(i, cause)
    BY <1>7, Zenon DEF Launch, ParseArgs, LoadConfig, ProbeSocket, BuildTls
  <2> QED
    BY <1>2, <2>1
<1>8. CASE Kill(i) \/ SystemFails(i) \/ Stop(i)
  BY <1>2, <1>8, Zenon DEF Kill, SystemFails, Stop
<1> QED
  BY <1>4, <1>5, <1>6, <1>7, <1>8 DEF Start

\* A mere check of the configuration disturbs no relay: socket files and ports
\* change hands only through processes started to serve (run of main.rs).
THEOREM ChecksDisturbNothing ==
    StartupSpec => CheckDisturbsNothing
<1>1. StartupInv /\ [StartupNext]_startupVars =>
          [<<socket_files, ports>>' # <<socket_files, ports>> =>
              \E i \in Relays : relays[i].pc # relays'[i].pc /\ ~CheckOnly(i)]_startupVars
  <2> SUFFICES ASSUME StartupInv, StartupNext, <<socket_files, ports>>' # <<socket_files, ports>>
               PROVE  \E i \in Relays : relays[i].pc # relays'[i].pc /\ ~CheckOnly(i)
    BY Zenon
  <2>1. ASSUME NEW c \in Links,
               Dial(c) \/ AcceptLink(c) \/ Handshake(c) \/ Upgrade(c) \/ Hangup(c)
        PROVE  FALSE
    BY <2>1 DEF Dial, AcceptLink, Handshake, Upgrade, Hangup
  <2> QED
    BY <2>1, OnlyServersDisturb, Zenon DEF StartupNext
<1> QED
  BY <1>1, StartupInvariant, PTL DEF StartupSpec, CheckDisturbsNothing

=============================================================================
