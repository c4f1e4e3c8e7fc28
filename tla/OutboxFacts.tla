----------------------------- MODULE OutboxFacts ------------------------------
(***************************************************************************)
(* Facts about the messages queued for a dashboard: what an append adds,   *)
(* what stays, and what was heard last of a target.  A message has a type  *)
(* and is about something; p is an outbox and q the outbox after a step.   *)
(***************************************************************************)
EXTENDS Integers, Sequences, SequenceTheorems, TLAPS

LEMMA AppendFacts ==
    ASSUME NEW S, NEW p \in Seq(S), NEW e \in S, NEW q, q = Append(p, e)
    PROVE  /\ q \in Seq(S)
           /\ Len(p) \in Nat /\ DOMAIN p = 1 .. Len(p)
           /\ Len(q) = Len(p) + 1 /\ DOMAIN q = 1 .. Len(p) + 1
           /\ \A i \in 1 .. Len(p) : q[i] = p[i]
           /\ q[Len(p) + 1] = e
OBVIOUS

LEMMA ConcatOne ==
    ASSUME NEW S, NEW p \in Seq(S), NEW e \in S
    PROVE  p \o <<e>> = Append(p, e)
OBVIOUS

LEMMA AppendLater ==
    \A S : \A p, q \in Seq(S), e \in S : p \o Append(q, e) = Append(p \o q, e)
<1> SUFFICES ASSUME NEW S, NEW p \in Seq(S), NEW q \in Seq(S), NEW e \in S
             PROVE  p \o Append(q, e) = Append(p \o q, e)
  OBVIOUS
<1>1. Append(q, e) \in Seq(S) /\ p \o q \in Seq(S)
  OBVIOUS
<1>2. p \o Append(q, e) \in Seq(S) /\ Append(p \o q, e) \in Seq(S)
  BY <1>1, ConcatProperties
<1>3. Len(p \o Append(q, e)) = Len(Append(p \o q, e))
  BY <1>1, ConcatProperties
<1>4. ASSUME NEW i \in 1 .. Len(p \o Append(q, e))
      PROVE  (p \o Append(q, e))[i] = Append(p \o q, e)[i]
  <2>1. /\ Len(p) \in Nat /\ Len(q) \in Nat
        /\ Len(Append(q, e)) = Len(q) + 1
        /\ Len(p \o q) = Len(p) + Len(q)
        /\ i \in 1 .. Len(p) + Len(q) + 1
    BY <1>1, ConcatProperties
  <2>2. (p \o Append(q, e))[i] = IF i <= Len(p) THEN p[i] ELSE Append(q, e)[i - Len(p)]
    <3> DEFINE r == Append(q, e)
    <3>1. r \in Seq(S) /\ i \in 1 .. Len(p) + Len(r)
      BY <1>1, <2>1
    <3> HIDE DEF r
    <3>2. (p \o r)[i] = IF i <= Len(p) THEN p[i] ELSE r[i - Len(p)]
      BY <3>1, ConcatProperties, Zenon
    <3> QED
      BY <3>2 DEF r
  <2>3. CASE i <= Len(p) + Len(q)
    <3>1. Append(p \o q, e)[i] = (p \o q)[i]
      BY <1>1, <2>1, <2>3
    <3>2. (p \o q)[i] = IF i <= Len(p) THEN p[i] ELSE q[i - Len(p)]
      BY <2>1, <2>3, ConcatProperties
    <3>3. i > Len(p) => Append(q, e)[i - Len(p)] = q[i - Len(p)]
      BY <2>1, <2>3
    <3> QED
      BY <2>1, <2>2, <3>1, <3>2, <3>3
  <2>4. CASE i = Len(p) + Len(q) + 1
    <3>1. Append(p \o q, e)[i] = e
      BY <1>1, <2>1, <2>4
    <3>2. i - Len(p) = Len(q) + 1 /\ ~(i <= Len(p))
      BY <2>1, <2>4
    <3>3. Append(q, e)[i - Len(p)] = e
      BY <2>1, <3>2
    <3> QED
      BY <2>2, <3>1, <3>2, <3>3
  <2> QED
    BY <2>1, <2>3, <2>4
<1> QED
  BY <1>2, <1>3, <1>4, SeqEqual

-----------------------------------------------------------------------------
(* What an outbox holds, and what it is extended by.                       *)

Indices(p) == 1 .. Len(p)

\* q is p with more messages after it.
Extends(p, q) ==
    /\ Len(p) \in Nat /\ Len(q) \in Nat /\ Len(p) <= Len(q)
    /\ \A i \in Indices(p) : i \in Indices(q) /\ q[i] = p[i]

LEMMA ExtendsOutbox ==
    ASSUME NEW S, NEW p \in Seq(S), NEW e \in S
    PROVE  /\ Append(p, e) \in Seq(S)
           /\ Extends(p, Append(p, e))
           /\ Len(Append(p, e)) = Len(p) + 1
           /\ Append(p, e)[Len(p) + 1] = e
           /\ Indices(Append(p, e)) \ Indices(p) = {Len(p) + 1}
           /\ Len(p) > 0 => Append(p, e)[1] = p[1]
<1> DEFINE q == Append(p, e)
<1>1. /\ q \in Seq(S)
      /\ Len(p) \in Nat
      /\ Len(q) = Len(p) + 1
      /\ \A i \in 1 .. Len(p) : q[i] = p[i]
      /\ q[Len(p) + 1] = e
  BY AppendFacts
<1> HIDE DEF q
<1> QED
  BY <1>1 DEF Extends, Indices, q

-----------------------------------------------------------------------------
(* What was heard of a target.                                             *)

IsHeard(p, t, k) == p[k].type \in {"State", "ConnectionState"} /\ p[k].about = t

\* The last thing heard of a target is of this type.
HeardAs(p, t, type) ==
    \E i \in Indices(p) :
        /\ p[i].type = type /\ IsHeard(p, t, i)
        /\ \A k \in Indices(p) : IsHeard(p, t, k) => k <= i

LEMMA HeardKeeps ==
    ASSUME NEW p, NEW q, NEW t, NEW type, HeardAs(p, t, type), Extends(p, q),
           \A k \in Indices(q) \ Indices(p) : ~IsHeard(q, t, k)
    PROVE  HeardAs(q, t, type)
<1>1. \A k \in Indices(p) : k \in Indices(q) /\ q[k] = p[k]
  BY DEF Extends
<1>2. \A k \in Indices(p) : IsHeard(q, t, k) <=> IsHeard(p, t, k)
  BY <1>1, Zenon DEF IsHeard
<1> QED
  BY <1>1, <1>2, Zenon DEF HeardAs

LEMMA HeardLastly ==
    ASSUME NEW p, NEW t, NEW type, Len(p) \in Nat \ {0},
           p[Len(p)].type = type, IsHeard(p, t, Len(p))
    PROVE  HeardAs(p, t, type)
<1>1. Len(p) \in Indices(p) /\ \A k \in Indices(p) : k <= Len(p)
  BY DEF Indices
<1> QED
  BY <1>1, Zenon DEF HeardAs

\* What is appended about one target is heard last of it, and not of others.
LEMMA AppendHeard ==
    ASSUME NEW S, NEW p \in Seq(S), NEW q, NEW message \in S,
           q = Append(p, message), NEW t, message.about = t,
           message.type \in {"State", "ConnectionState"}
    PROVE  /\ HeardAs(q, t, message.type)
           /\ \A u, type : u # t /\ HeardAs(p, u, type) => HeardAs(q, u, type)
<1> DEFINE n == Len(p) + 1
<1>1. /\ Len(p) \in Nat
      /\ Extends(p, q)
      /\ Len(q) = n
      /\ q[n] = message
      /\ Indices(q) \ Indices(p) = {n}
  BY ExtendsOutbox
<1>2. HeardAs(q, t, message.type)
  <2>1. IsHeard(q, t, Len(q)) /\ q[Len(q)].type = message.type /\ Len(q) \in Nat \ {0}
    BY <1>1 DEF IsHeard
  <2> QED
    BY <2>1, HeardLastly
<1>3. ASSUME NEW u, NEW type, u # t, HeardAs(p, u, type)
      PROVE  HeardAs(q, u, type)
  <2>1. ~IsHeard(q, u, n)
    BY <1>1, <1>3 DEF IsHeard
  <2>2. \A k \in Indices(q) \ Indices(p) : ~IsHeard(q, u, k)
    BY <1>1, <2>1
  <2> QED
    BY <1>1, <1>3, <2>2, HeardKeeps, Zenon
<1> QED
  BY <1>2, <1>3, Zenon

=============================================================================
