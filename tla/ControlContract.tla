--------------------------- MODULE ControlContract ---------------------------
(***************************************************************************)
(* What the relay promises of its calls to targets, without saying how:    *)
(* one exchange at a time, with the socket the target is registered at     *)
(* then and until the end, no two targets at one socket, and a trail of    *)
(* each session in which every accepted command is followed by exactly one *)
(* outcome before anything else happens.                                   *)
(***************************************************************************)
EXTENDS Naturals, Sequences, TLAPS

CONSTANTS Targets, Sessions, Keys, None

VARIABLES
    sockets,    \* target -> key of the socket it is reached at
    exchange,   \* the exchange under way, or None
    trail       \* session -> what was recorded of its commands

contractVars == <<sockets, exchange, trail>>

Exchange(s, t, kind) == [session |-> s, target |-> t, key |-> sockets[t], kind |-> kind]

Init ==
    /\ sockets = [t \in {} |-> None]
    /\ exchange = None
    /\ trail = [s \in Sessions |-> <<>>]

\* A target registers or moves to a free socket, while nobody is asked anything.
Place(t, key) ==
    /\ exchange = None
    /\ \A u \in DOMAIN sockets \ {t} : sockets[u] # key
    /\ sockets' = [u \in DOMAIN sockets \cup {t} |-> IF u = t THEN key ELSE sockets[u]]
    /\ UNCHANGED <<exchange, trail>>

BeginRead(s, t) ==
    /\ exchange = None
    /\ exchange' = Exchange(s, t, "read")
    /\ UNCHANGED <<sockets, trail>>

Accept(s, t) ==
    /\ exchange = None
    /\ exchange' = Exchange(s, t, "command")
    /\ trail' = [trail EXCEPT ![s] = Append(@, "Accepted")]
    /\ UNCHANGED sockets

EndRead ==
    /\ exchange # None /\ exchange.kind = "read"
    /\ exchange' = None
    /\ UNCHANGED <<sockets, trail>>

\* The outcome is recorded; a completed command may be followed by a read.
Conclude ==
    /\ exchange # None /\ exchange.kind = "command"
    /\ \/ /\ exchange' = None
          /\ \E outcome \in {"Rejected", "Completed"} :
                trail' = [trail EXCEPT ![exchange.session] = Append(@, outcome)]
       \/ /\ \E t \in DOMAIN sockets : exchange' = Exchange(exchange.session, t, "read")
          /\ trail' = [trail EXCEPT ![exchange.session] = Append(@, "Completed")]
    /\ UNCHANGED sockets

\* A session that is in no exchange leaves, and its trail with it.
Leave(s) ==
    /\ exchange # None => exchange.session # s
    /\ trail' = [trail EXCEPT ![s] = <<>>]
    /\ UNCHANGED <<sockets, exchange>>

Next ==
    \/ \E t \in Targets, key \in Keys : Place(t, key)
    \/ \E s \in Sessions, t \in DOMAIN sockets : BeginRead(s, t) \/ Accept(s, t)
    \/ EndRead
    \/ Conclude
    \/ \E s \in Sessions : Leave(s)

Spec == Init /\ [][Next]_contractVars

-----------------------------------------------------------------------------
(* What follows from the contract.                                         *)

Commanding(s) == exchange # None /\ exchange.session = s /\ exchange.kind = "command"

\* Records alternate: acceptances at odd places, outcomes at even ones, and the
\* last acceptance lacks its outcome only while the command is with the target.
Paired(s) ==
    /\ \A i \in DOMAIN trail[s] : i % 2 = 1 <=> trail[s][i] = "Accepted"
    /\ Len(trail[s]) % 2 = 1 <=> Commanding(s)

\* No two targets at one socket, a target is asked at the socket it is
\* registered at, and the records of every session are paired (the promises of
\* bind_target and handle_command under the registry's mutex).
Promises ==
    /\ \A t, u \in DOMAIN sockets : t # u => sockets[t] # sockets[u]
    /\ exchange # None => /\ exchange.target \in DOMAIN sockets
                          /\ exchange.key = sockets[exchange.target]
    /\ \A s \in Sessions : Paired(s)

-----------------------------------------------------------------------------
(* The contract keeps its promises.                                        *)

Exchanges ==
    [session: Sessions, target: Targets, key: Keys, kind: {"read", "command"}]

ContractInv ==
    /\ DOMAIN sockets \subseteq Targets
    /\ \A t \in DOMAIN sockets : sockets[t] \in Keys
    /\ exchange \in Exchanges \cup {None}
    /\ trail \in [Sessions -> Seq({"Accepted", "Rejected", "Completed"})]
    /\ Promises

LEMMA Parity ==
    /\ 0 % 2 = 0
    /\ \A n \in Nat : (n + 1) % 2 = 1 <=> n % 2 # 1
OBVIOUS

\* One more record at the end of a paired trail.
LEMMA PairedAppend ==
    ASSUME NEW S, NEW records \in Seq(S), NEW result \in S,
           NEW more, more = Append(records, result),
           \A i \in DOMAIN records : i % 2 = 1 <=> records[i] = "Accepted",
           (Len(records) % 2 = 1) <=> result # "Accepted"
    PROVE  /\ \A i \in DOMAIN more : i % 2 = 1 <=> more[i] = "Accepted"
           /\ Len(more) % 2 = 1 <=> result = "Accepted"
<1> DEFINE n == Len(records)
<1>1. /\ n \in Nat /\ Len(more) = n + 1 /\ DOMAIN more = 1 .. n + 1
      /\ DOMAIN records = 1 .. n
      /\ \A i \in 1 .. n : more[i] = records[i]
      /\ more[n + 1] = result
  OBVIOUS
<1>2. (n + 1) % 2 = 1 <=> result = "Accepted"
  BY <1>1, Parity
<1> HIDE DEF n
<1>3. ASSUME NEW i \in 1 .. n + 1
      PROVE  i % 2 = 1 <=> more[i] = "Accepted"
  <2>1. CASE i = n + 1
    BY <1>1, <1>2, <2>1
  <2>2. CASE i # n + 1
    <3>1. i \in 1 .. n
      BY <1>1, <2>2
    <3> QED
      BY <1>1, <3>1, Zenon
  <2> QED
    BY <2>1, <2>2
<1> QED
  BY <1>1, <1>2, <1>3

\* The steps of the contract, one by one.
LEMMA ContractInvStep ==
    ASSUME None \notin Exchanges, ContractInv, [Next]_contractVars
    PROVE  ContractInv'
<1> USE DEF ContractInv
<1> DEFINE Sockets ==
        \A t, u \in DOMAIN sockets : t # u => sockets[t] # sockets[u]
<1>p. Promises <=>
        /\ Sockets
        /\ exchange # None => /\ exchange.target \in DOMAIN sockets
                              /\ exchange.key = sockets[exchange.target]
        /\ \A s \in Sessions : Paired(s)
  BY Zenon DEF Promises
<1>e. ASSUME NEW s \in Sessions, NEW t \in DOMAIN sockets, NEW kind \in {"read", "command"}
      PROVE  /\ Exchange(s, t, kind) \in Exchanges
             /\ Exchange(s, t, kind) # None
             /\ Exchange(s, t, kind).session = s /\ Exchange(s, t, kind).kind = kind
             /\ Exchange(s, t, kind).target = t /\ Exchange(s, t, kind).key = sockets[t]
  <2>1. Exchange(s, t, kind) \in Exchanges
    BY DEF Exchange, Exchanges
  <2> QED
    BY <2>1 DEF Exchange
<1>1. ASSUME NEW t \in Targets, NEW key \in Keys, Place(t, key)
      PROVE  ContractInv'
  <2>1. /\ \A s \in Sessions : Paired(s)'
        /\ exchange' = None /\ UNCHANGED trail
    BY <1>1, <1>p, Zenon DEF Place, Paired, Commanding
  <2>2. /\ DOMAIN sockets' = DOMAIN sockets \cup {t}
        /\ sockets'[t] = key
        /\ \A u \in DOMAIN sockets \ {t} : sockets'[u] = sockets[u] /\ sockets[u] # key
    BY <1>1 DEF Place
  <2>3. Sockets'
    BY <1>p, <2>2
  <2>4. DOMAIN sockets' \subseteq Targets /\ \A u \in DOMAIN sockets' : sockets'[u] \in Keys
    BY <2>2
  <2> QED
    BY <2>1, <2>3, <2>4 DEF Promises
<1>2. ASSUME NEW s \in Sessions, NEW t \in DOMAIN sockets, BeginRead(s, t)
      PROVE  ContractInv'
  <2>1. exchange' = Exchange(s, t, "read") /\ UNCHANGED <<sockets, trail>> /\ exchange = None
    BY <1>2 DEF BeginRead
  <2>2. /\ exchange' \in Exchanges /\ exchange'.target = t /\ exchange'.key = sockets[t]
        /\ exchange'.kind = "read"
    BY <2>1, <1>e
  <2>3. ASSUME NEW o \in Sessions
        PROVE  Paired(o)'
    <3>1. ~Commanding(o) /\ ~Commanding(o)'
      BY <2>1, <2>2 DEF Commanding
    <3> QED
      BY <1>p, <2>1, <3>1, Zenon DEF Paired
  <2> QED
    BY <1>p, <2>1, <2>2, <2>3 DEF Promises
<1>3. ASSUME NEW s \in Sessions, NEW t \in DOMAIN sockets, Accept(s, t)
      PROVE  ContractInv'
  <2>1. /\ exchange' = Exchange(s, t, "command") /\ UNCHANGED sockets /\ exchange = None
        /\ trail' = [trail EXCEPT ![s] = Append(@, "Accepted")]
    BY <1>3 DEF Accept
  <2>2. /\ exchange' \in Exchanges /\ exchange'.target = t /\ exchange'.key = sockets[t]
        /\ exchange'.kind = "command" /\ exchange'.session = s /\ exchange' # None
    BY <2>1, <1>e
  <2>3. /\ trail' \in [Sessions -> Seq({"Accepted", "Rejected", "Completed"})]
        /\ trail'[s] = Append(trail[s], "Accepted")
        /\ \A o \in Sessions \ {s} : trail'[o] = trail[o]
    BY <2>1
  <2>4. ASSUME NEW o \in Sessions
        PROVE  Paired(o)'
    <3>1. ~Commanding(o) /\ (Commanding(o)' <=> o = s)
      BY <2>1, <2>2 DEF Commanding
    <3>2. CASE o = s
      <4>1. /\ \A i \in DOMAIN trail[s] : i % 2 = 1 <=> trail[s][i] = "Accepted"
            /\ Len(trail[s]) % 2 # 1
        BY <1>p, <3>1, <3>2, Zenon DEF Paired
      <4> DEFINE records == trail[s]
                 S == {"Accepted", "Rejected", "Completed"}
      <4>2. records \in Seq(S) /\ "Accepted" \in S
        OBVIOUS
      <4>3. /\ \A i \in DOMAIN records : i % 2 = 1 <=> records[i] = "Accepted"
            /\ (Len(records) % 2 = 1) <=> "Accepted" # "Accepted"
        BY <4>1
      <4>4. trail'[s] = Append(records, "Accepted")
        BY <2>3
      <4> HIDE DEF records, S
      <4>5. /\ \A i \in DOMAIN trail'[s] : i % 2 = 1 <=> trail'[s][i] = "Accepted"
            /\ Len(trail'[s]) % 2 = 1 <=> "Accepted" = "Accepted"
        BY <4>2, <4>3, <4>4, PairedAppend, Zenon
      <4> QED
        BY <3>1, <3>2, <4>5, Zenon DEF Paired
    <3>3. CASE o # s
      <4>1. trail'[o] = trail[o]
        BY <2>3, <3>3
      <4> QED
        BY <1>p, <3>1, <3>3, <4>1, Zenon DEF Paired
    <3> QED
      BY <3>2, <3>3
  <2> QED
    BY <1>p, <2>1, <2>2, <2>3, <2>4 DEF Promises
<1>4. CASE EndRead
  <2>1. exchange' = None /\ UNCHANGED <<sockets, trail>> /\ exchange.kind = "read"
    BY <1>4 DEF EndRead
  <2>2. \A o \in Sessions : ~Commanding(o) /\ ~Commanding(o)'
    BY <2>1 DEF Commanding
  <2>3. \A o \in Sessions : Paired(o)'
    BY <1>p, <2>1, <2>2, Zenon DEF Paired
  <2> QED
    BY <1>p, <2>1, <2>3 DEF Promises
<1>5. CASE Conclude
  <2> DEFINE s == exchange.session
  <2>1. PICK outcome \in {"Rejected", "Completed"} :
           trail' = [trail EXCEPT ![exchange.session] = Append(@, outcome)]
    BY <1>5 DEF Conclude
  <2>2. /\ exchange # None /\ exchange.kind = "command" /\ UNCHANGED sockets
        /\ s \in Sessions
    BY <1>5 DEF Conclude, Exchanges
  <2>3. \/ exchange' = None
        \/ \E t \in DOMAIN sockets : exchange' = Exchange(s, t, "read")
    BY <1>5, Zenon DEF Conclude
  <2>4. /\ exchange' \in Exchanges \cup {None}
        /\ exchange' # None => /\ exchange'.target \in DOMAIN sockets
                               /\ exchange'.key = sockets[exchange'.target]
                               /\ exchange'.kind = "read"
    BY <2>2, <2>3, <1>e
  <2> HIDE DEF s
  <2>5. /\ trail' \in [Sessions -> Seq({"Accepted", "Rejected", "Completed"})]
        /\ trail'[s] = Append(trail[s], outcome)
        /\ \A o \in Sessions \ {s} : trail'[o] = trail[o]
    BY <2>1, <2>2 DEF s
  <2>6. ASSUME NEW o \in Sessions
        PROVE  Paired(o)'
    <3>1. (Commanding(o) <=> o = s) /\ ~Commanding(o)'
      BY <2>2, <2>4 DEF Commanding, s
    <3>2. CASE o = s
      <4>1. /\ \A i \in DOMAIN trail[s] : i % 2 = 1 <=> trail[s][i] = "Accepted"
            /\ Len(trail[s]) % 2 = 1
        BY <1>p, <3>1, <3>2, Zenon DEF Paired
      <4> DEFINE records == trail[s]
                 S == {"Accepted", "Rejected", "Completed"}
      <4>2. records \in Seq(S) /\ outcome \in S /\ outcome # "Accepted"
        BY <2>2
      <4>3. /\ \A i \in DOMAIN records : i % 2 = 1 <=> records[i] = "Accepted"
            /\ (Len(records) % 2 = 1) <=> outcome # "Accepted"
        BY <4>1, <4>2
      <4>4. trail'[s] = Append(records, outcome)
        BY <2>5
      <4> HIDE DEF records, S
      <4>5. /\ \A i \in DOMAIN trail'[s] : i % 2 = 1 <=> trail'[s][i] = "Accepted"
            /\ Len(trail'[s]) % 2 = 1 <=> outcome = "Accepted"
        BY <4>2, <4>3, <4>4, PairedAppend, Zenon
      <4> QED
        BY <3>1, <3>2, <4>2, <4>5, Zenon DEF Paired
    <3>3. CASE o # s
      <4>1. trail'[o] = trail[o]
        BY <2>5, <3>3
      <4> QED
        BY <1>p, <3>1, <3>3, <4>1, Zenon DEF Paired
    <3> QED
      BY <3>2, <3>3
  <2> QED
    BY <1>p, <2>2, <2>4, <2>5, <2>6 DEF Promises
<1>6. ASSUME NEW s \in Sessions, Leave(s)
      PROVE  ContractInv'
  <2>1. /\ trail' = [trail EXCEPT ![s] = <<>>] /\ UNCHANGED <<sockets, exchange>>
        /\ exchange # None => exchange.session # s
    BY <1>6 DEF Leave
  <2>2. /\ trail' \in [Sessions -> Seq({"Accepted", "Rejected", "Completed"})]
        /\ trail'[s] = <<>>
        /\ \A o \in Sessions \ {s} : trail'[o] = trail[o]
    BY <2>1
  <2>3. ASSUME NEW o \in Sessions
        PROVE  Paired(o)'
    <3>1. CASE o = s
      BY <2>1, <2>2, <3>1, Parity DEF Paired, Commanding
    <3>2. CASE o # s
      <4>1. trail'[o] = trail[o] /\ (Commanding(o)' <=> Commanding(o))
        BY <2>1, <2>2, <3>2 DEF Commanding
      <4>2. Paired(o)
        BY <1>p
      <4> QED
        BY <4>1, <4>2 DEF Paired
    <3> QED
      BY <3>1, <3>2
  <2> QED
    BY <1>p, <2>1, <2>2, <2>3 DEF Promises
<1>7. CASE UNCHANGED contractVars
  BY <1>7 DEF contractVars, Promises, Paired, Commanding
<1> QED
  BY <1>1, <1>2, <1>3, <1>4, <1>5, <1>6, <1>7 DEF Next

\* Whoever follows the contract keeps sockets apart, asks targets where they are
\* registered, and pairs acceptances with outcomes.
THEOREM ContractKept ==
    ASSUME None \notin Exchanges
    PROVE  Spec => []Promises
<1>1. Init => ContractInv
  BY Parity DEF Init, ContractInv, Promises, Paired, Commanding
<1>2. ContractInv /\ [Next]_contractVars => ContractInv'
  BY ContractInvStep
<1>3. ContractInv => Promises
  BY DEF ContractInv
<1> QED
  BY <1>1, <1>2, <1>3, PTL DEF Spec
=============================================================================
