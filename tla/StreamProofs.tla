---------------------------- MODULE StreamProofs ----------------------------
(***************************************************************************)
(* Theorems about the stream of dashboard sessions, for all targets,       *)
(* sessions, sequence numbers and lengths of streams: events appear in     *)
(* order and every loss is counted once and in its place, nothing is heard *)
(* of a target before its state, control needs an identity, and what a     *)
(* dashboard was told goes out of date only through calls for others.      *)
(*                                                                         *)
(* The operations of a session are functions of the session, so that most  *)
(* lemmas speak of one session before and after an operation, or only of   *)
(* its outbox p and the outbox q that an operation leaves.                 *)
(***************************************************************************)
EXTENDS EventStream, RegistryProofs, OutboxFacts

\* u64 arithmetic that stays in range does not wrap.
LEMMA NoWrap ==
    ASSUME NEW n \in 0 .. MaxSequence
    PROVE  Wrapped(n) = n
BY StreamAssumption DEF Wrapped

-----------------------------------------------------------------------------
(* Events and counts of one target in an outbox.                           *)

Messages ==
    [type: {"ServerHello", "TargetList", "State", "Event", "DroppedCount", "Payload",
            "ConnectionState", "CommandResult"},
     about: Targets \cup {None} \cup SUBSET Targets, n: Nat, reported: BOOLEAN]

IsEvent(p, t, k) == p[k].type = "Event" /\ p[k].about = t

\* A count of the session itself.
IsCount(p, t, k) == p[k].type = "DroppedCount" /\ p[k].about = t /\ ~p[k].reported

\* `last' is the number of the last event, which nothing counted follows; without
\* one, there is neither an event nor a count.
LastIs(p, t, last) ==
    IF last = None
    THEN \A k \in Indices(p) : ~IsEvent(p, t, k) /\ ~IsCount(p, t, k)
    ELSE \E i \in Indices(p) :
            /\ IsEvent(p, t, i)
            /\ p[i].n = last
            /\ \A k \in Indices(p) : IsEvent(p, t, k) => k <= i
            /\ \A k \in Indices(p) : IsCount(p, t, k) => k < i

Rising(p, t) ==
    \A i, k \in Indices(p) :
        IsEvent(p, t, i) /\ IsEvent(p, t, k) /\ i < k => p[i].n < p[k].n

Successive(p, t, i, k) ==
    /\ IsEvent(p, t, i) /\ IsEvent(p, t, k) /\ i < k
    /\ \A j \in Indices(p) : i < j /\ j < k => ~IsEvent(p, t, j)

CountedBetween(p, t, i, k) ==
    IF p[k].n = p[i].n + 1
    THEN \A m \in Indices(p) : i < m /\ m < k => ~IsCount(p, t, m)
    ELSE \E m \in Indices(p) :
            /\ i < m /\ m < k
            /\ IsCount(p, t, m)
            /\ p[m].n = p[k].n - p[i].n - 1
            /\ \A l \in Indices(p) : i < l /\ l < k /\ IsCount(p, t, l) => l = m

GapsCounted(p, t) ==
    \A i, k \in Indices(p) : Successive(p, t, i, k) => CountedBetween(p, t, i, k)

CountsInside(p, t) ==
    \A m \in Indices(p) : IsCount(p, t, m) =>
        \E i, k \in Indices(p) : IsEvent(p, t, i) /\ IsEvent(p, t, k) /\ i < m /\ m < k

Accounts(p, t, last) ==
    /\ LastIs(p, t, last)
    /\ Rising(p, t)
    /\ GapsCounted(p, t)
    /\ CountsInside(p, t)

\* What lies within p is the same in q.
LEMMA SameWithin ==
    ASSUME NEW p, NEW q, NEW t, Extends(p, q)
    PROVE  /\ \A k \in Indices(p) : /\ IsEvent(q, t, k) <=> IsEvent(p, t, k)
                                    /\ IsCount(q, t, k) <=> IsCount(p, t, k)
           /\ \A i, k \in Indices(p) :
                 Successive(q, t, i, k) => Successive(p, t, i, k)
           /\ \A i, k \in Indices(p) :
                 CountedBetween(p, t, i, k) => CountedBetween(q, t, i, k)
<1>1. \A k \in Indices(p) : k \in Indices(q) /\ q[k] = p[k]
  BY DEF Extends
<1>2. \A k \in Indices(p) : /\ IsEvent(q, t, k) <=> IsEvent(p, t, k)
                            /\ IsCount(q, t, k) <=> IsCount(p, t, k)
  BY <1>1, Zenon DEF IsEvent, IsCount
<1>3. \A k \in Indices(p), j \in Indices(q) : j < k => j \in Indices(p)
  BY DEF Extends, Indices
<1>4. ASSUME NEW i \in Indices(p), NEW k \in Indices(p), Successive(q, t, i, k)
      PROVE  Successive(p, t, i, k)
  BY <1>1, <1>2, <1>4 DEF Successive
<1>5. ASSUME NEW i \in Indices(p), NEW k \in Indices(p), CountedBetween(p, t, i, k)
      PROVE  CountedBetween(q, t, i, k)
  <2>1. CASE q[k].n = q[i].n + 1
    <3>1. \A m \in Indices(p) : i < m /\ m < k => ~IsCount(p, t, m)
      BY <1>1, <1>5, <2>1 DEF CountedBetween
    <3>2. \A m \in Indices(q) : i < m /\ m < k => ~IsCount(q, t, m)
      BY <1>2, <1>3, <3>1
    <3> QED
      BY <2>1, <3>2 DEF CountedBetween
  <2>2. CASE q[k].n # q[i].n + 1
    <3>1. PICK m \in Indices(p) :
             /\ i < m /\ m < k
             /\ IsCount(p, t, m)
             /\ p[m].n = p[k].n - p[i].n - 1
             /\ \A l \in Indices(p) : i < l /\ l < k /\ IsCount(p, t, l) => l = m
      BY <1>1, <1>5, <2>2 DEF CountedBetween
    <3>2. /\ m \in Indices(q)
          /\ IsCount(q, t, m)
          /\ q[m].n = q[k].n - q[i].n - 1
          /\ \A l \in Indices(q) : i < l /\ l < k /\ IsCount(q, t, l) => l = m
      BY <1>1, <1>2, <1>3, <3>1
    <3> QED
      BY <2>2, <3>1, <3>2 DEF CountedBetween
  <2> QED
    BY <2>1, <2>2
<1> QED
  BY <1>2, <1>4, <1>5

\* Messages that are neither events nor counts of a target change nothing for it.
LEMMA QuietKeeps ==
    ASSUME NEW p, NEW q, NEW t, NEW last, Accounts(p, t, last), Extends(p, q),
           \A k \in Indices(q) \ Indices(p) : ~IsEvent(q, t, k) /\ ~IsCount(q, t, k)
    PROVE  Accounts(q, t, last)
<1>1. /\ \A k \in Indices(p) : k \in Indices(q) /\ q[k] = p[k]
      /\ \A k \in Indices(p) : /\ IsEvent(q, t, k) <=> IsEvent(p, t, k)
                               /\ IsCount(q, t, k) <=> IsCount(p, t, k)
      /\ \A i, k \in Indices(p) : Successive(q, t, i, k) => Successive(p, t, i, k)
      /\ \A i, k \in Indices(p) : CountedBetween(p, t, i, k) => CountedBetween(q, t, i, k)
  BY SameWithin, Zenon DEF Extends
<1>2. \A k \in Indices(q) : IsEvent(q, t, k) \/ IsCount(q, t, k) => k \in Indices(p)
  BY Zenon
<1>3. LastIs(q, t, last)
  <2>1. CASE last = None
    BY <1>1, <1>2, <2>1, Zenon DEF Accounts, LastIs
  <2>2. CASE last # None
    <3>1. PICK i \in Indices(p) :
             /\ IsEvent(p, t, i)
             /\ p[i].n = last
             /\ \A k \in Indices(p) : IsEvent(p, t, k) => k <= i
             /\ \A k \in Indices(p) : IsCount(p, t, k) => k < i
      BY <2>2, Zenon DEF Accounts, LastIs
    <3>2. /\ i \in Indices(q)
          /\ IsEvent(q, t, i)
          /\ q[i].n = last
          /\ \A k \in Indices(q) : IsEvent(q, t, k) => k <= i
          /\ \A k \in Indices(q) : IsCount(q, t, k) => k < i
      BY <1>1, <1>2, <3>1, Zenon
    <3> QED
      BY <2>2, <3>2, Zenon DEF LastIs
  <2> QED
    BY <2>1, <2>2
<1>4. Rising(q, t)
  BY <1>1, <1>2, Zenon DEF Accounts, Rising
<1>5. GapsCounted(q, t)
  <2> SUFFICES ASSUME NEW i \in Indices(q), NEW k \in Indices(q), Successive(q, t, i, k)
               PROVE  CountedBetween(q, t, i, k)
    BY Zenon DEF GapsCounted
  <2>1. i \in Indices(p) /\ k \in Indices(p)
    BY <1>2, Zenon DEF Successive
  <2> QED
    BY <1>1, <2>1, Zenon DEF Accounts, GapsCounted
<1>6. CountsInside(q, t)
  <2> SUFFICES ASSUME NEW m \in Indices(q), IsCount(q, t, m)
               PROVE  \E i, k \in Indices(q) :
                          IsEvent(q, t, i) /\ IsEvent(q, t, k) /\ i < m /\ m < k
    BY Zenon DEF CountsInside
  <2>1. m \in Indices(p) /\ IsCount(p, t, m)
    BY <1>1, <1>2, Zenon
  <2>2. PICK i \in Indices(p), k \in Indices(p) :
           IsEvent(p, t, i) /\ IsEvent(p, t, k) /\ i < m /\ m < k
    BY <2>1, Zenon DEF Accounts, CountsInside
  <2> QED
    BY <1>1, <2>2, Zenon
<1> QED
  BY <1>3, <1>4, <1>5, <1>6 DEF Accounts

\* An event above the last one, with the count of what is missing before it.
LEMMA ShownKeeps ==
    ASSUME NEW p, NEW q, NEW t, NEW last, NEW n \in Nat, Accounts(p, t, last),
           Extends(p, q), Len(q) > Len(p),
           \A k \in Indices(p) : p[k].n \in Nat,
           last # None => last \in Nat /\ n > last,
           IsEvent(q, t, Len(q)), ~IsCount(q, t, Len(q)), q[Len(q)].n = n, n # None,
           IF last # None /\ n # last + 1
           THEN /\ Len(q) = Len(p) + 2
                /\ IsCount(q, t, Len(p) + 1)
                /\ ~IsEvent(q, t, Len(p) + 1)
                /\ q[Len(p) + 1].n = n - last - 1
           ELSE Len(q) = Len(p) + 1
    PROVE  Accounts(q, t, n)
<1> DEFINE x == Len(q)
           c == Len(p) + 1
<1>1. /\ \A k \in Indices(p) : k \in Indices(q) /\ q[k] = p[k]
      /\ \A k \in Indices(p) : /\ IsEvent(q, t, k) <=> IsEvent(p, t, k)
                               /\ IsCount(q, t, k) <=> IsCount(p, t, k)
      /\ \A i, k \in Indices(p) : Successive(q, t, i, k) => Successive(p, t, i, k)
      /\ \A i, k \in Indices(p) : CountedBetween(p, t, i, k) => CountedBetween(q, t, i, k)
  BY SameWithin, Zenon DEF Extends
<1>2. /\ x \in Indices(q)
      /\ x \in Nat
      /\ \A k \in Indices(p) : k \in Nat /\ k < x
      /\ \A k \in Indices(q) : k \in Nat /\ k <= x
      /\ \A k \in Indices(q) : k = x \/ k \in Indices(p) \/ k = c
  BY DEF Extends, Indices
<1>3. \A k \in Indices(q) : IsEvent(q, t, k) => k = x \/ k \in Indices(p)
  BY <1>2
<1>4. LastIs(q, t, n)
  <2>1. \A k \in Indices(q) : IsCount(q, t, k) => k < x
    BY <1>2, SMT
  <2> QED
    BY <1>2, <2>1, Zenon DEF LastIs
<1>5. \A k \in Indices(p) : IsEvent(p, t, k) => last # None /\ p[k].n <= last
  <2> SUFFICES ASSUME NEW k \in Indices(p), IsEvent(p, t, k)
               PROVE  last # None /\ p[k].n <= last
    OBVIOUS
  <2>1. last # None
    BY Zenon DEF Accounts, LastIs
  <2>2. PICK i \in Indices(p) :
            IsEvent(p, t, i) /\ p[i].n = last /\ \A j \in Indices(p) : IsEvent(p, t, j) => j <= i
    BY <2>1, Zenon DEF Accounts, LastIs
  <2>3. k = i \/ k < i
    BY <1>2, <2>2
  <2> QED
    BY <2>1, <2>2, <2>3 DEF Accounts, Rising
<1>6. Rising(q, t)
  <2> SUFFICES ASSUME NEW i \in Indices(q), NEW k \in Indices(q),
                      IsEvent(q, t, i), IsEvent(q, t, k), i < k
               PROVE  q[i].n < q[k].n
    BY Zenon DEF Rising
  <2>1. i \in Indices(p)
    BY <1>2, <1>3
  <2>2. CASE k \in Indices(p)
    BY <1>1, <2>1, <2>2 DEF Accounts, Rising
  <2>3. CASE k = x
    BY <1>1, <1>5, <2>1, <2>3
  <2> QED
    BY <1>3, <2>2, <2>3
<1>7. GapsCounted(q, t)
  <2> SUFFICES ASSUME NEW i \in Indices(q), NEW k \in Indices(q), Successive(q, t, i, k)
               PROVE  CountedBetween(q, t, i, k)
    BY Zenon DEF GapsCounted
  <2>1. i \in Indices(p) /\ IsEvent(p, t, i)
    BY <1>1, <1>2, <1>3 DEF Successive
  <2>2. CASE k \in Indices(p)
    BY <1>1, <2>1, <2>2, Zenon DEF Accounts, GapsCounted
  <2>3. CASE k = x
    <3>1. last # None
      BY <1>5, <2>1
    <3>2. PICK j \in Indices(p) :
             /\ IsEvent(p, t, j)
             /\ p[j].n = last
             /\ \A l \in Indices(p) : IsEvent(p, t, l) => l <= j
             /\ \A l \in Indices(p) : IsCount(p, t, l) => l < j
      BY <3>1, Zenon DEF Accounts, LastIs
    <3>3. i = j
      BY <1>1, <1>2, <2>1, <2>3, <3>2 DEF Successive
    <3>4. q[i].n = last /\ q[k].n = n
      BY <1>1, <2>3, <3>2, <3>3
    <3>5. \A l \in Indices(q) : i < l /\ l < k /\ IsCount(q, t, l) => l = c
      BY <1>1, <1>2, <2>3, <3>2, <3>3
    <3>6. CASE n = last + 1
      <4>1. Len(q) = Len(p) + 1
        BY <3>6
      <4>2. \A m \in Indices(q) : i < m /\ m < k => ~IsCount(q, t, m)
        BY <1>2, <2>3, <3>5, <4>1
      <4> QED
        BY <3>4, <3>6, <4>2 DEF CountedBetween
    <3>7. CASE n # last + 1
      <4>1. /\ Len(q) = Len(p) + 2
            /\ IsCount(q, t, c)
            /\ q[c].n = n - last - 1
        BY <3>1, <3>7
      <4>2. c \in Indices(q) /\ i < c /\ c < k
        BY <2>1, <2>3, <4>1 DEF Indices, Extends
      <4> QED
        BY <3>4, <3>5, <3>7, <4>1, <4>2 DEF CountedBetween
    <3> QED
      BY <3>6, <3>7
  <2> QED
    BY <1>3, <2>2, <2>3 DEF Successive
<1>8. CountsInside(q, t)
  <2> SUFFICES ASSUME NEW m \in Indices(q), IsCount(q, t, m)
               PROVE  \E i, k \in Indices(q) :
                          IsEvent(q, t, i) /\ IsEvent(q, t, k) /\ i < m /\ m < k
    BY Zenon DEF CountsInside
  <2>1. CASE m \in Indices(p)
    <3>1. PICK i \in Indices(p), k \in Indices(p) :
             IsEvent(p, t, i) /\ IsEvent(p, t, k) /\ i < m /\ m < k
      BY <1>1, <2>1, Zenon DEF Accounts, CountsInside
    <3> QED
      BY <1>1, <3>1, Zenon
  <2>2. CASE m \notin Indices(p)
    <3>1. m = c /\ m # x
      BY <1>2, <2>2
    <3>2. last # None /\ m < x
      BY <1>2, <3>1
    <3>3. PICK i \in Indices(p) : IsEvent(p, t, i)
      BY <3>2, Zenon DEF Accounts, LastIs
    <3>4. i < m
      BY <3>1, <3>3 DEF Indices, Extends
    <3> QED
      BY <1>1, <1>2, <3>2, <3>3, <3>4, Zenon
  <2> QED
    BY <2>1, <2>2
<1> QED
  BY <1>4, <1>6, <1>7, <1>8 DEF Accounts

-----------------------------------------------------------------------------
(* What a dashboard hears of a target.                                     *)

IsState(p, t, k) == p[k].type = "State" /\ p[k].about = t

\* Whatever is about a target comes with or after its state, which a dashboard
\* that bound the target was shown; but for the results of commands.
IsAbout(p, t, k) == p[k].about = t /\ p[k].type # "CommandResult"

FollowsState(p, t, bound) ==
    /\ \A k \in Indices(p) : IsAbout(p, t, k) =>
          \E j \in Indices(p) : j <= k /\ IsState(p, t, j)
    /\ t \in bound => \E j \in Indices(p) : IsState(p, t, j)

\* A message about another target, one about a bound target, or a state or result.
LEMMA FollowsKeeps ==
    ASSUME NEW p, NEW q, NEW t, NEW bound, NEW bound2,
           FollowsState(p, t, bound), Extends(p, q),
           \A k \in Indices(q) \ Indices(p) :
               IsAbout(q, t, k) => t \in bound \/ IsState(q, t, k),
           t \in bound2 => t \in bound \/ \E j \in Indices(q) : IsState(q, t, j)
    PROVE  FollowsState(q, t, bound2)
<1>1. \A k \in Indices(p) : k \in Indices(q) /\ q[k] = p[k]
  BY DEF Extends
<1>2. \A k \in Indices(p) : /\ IsState(p, t, k) => IsState(q, t, k)
                            /\ IsAbout(q, t, k) => IsAbout(p, t, k)
  BY <1>1, Zenon DEF IsState, IsAbout
<1>3. \A k \in Indices(q) \ Indices(p), j \in Indices(p) : j <= k
  BY DEF Indices, Extends
<1>4. \A k \in Indices(q) : k <= k
  BY DEF Indices, Extends
<1>5. ASSUME NEW k \in Indices(q), IsAbout(q, t, k)
      PROVE  \E j \in Indices(q) : j <= k /\ IsState(q, t, j)
  <2>1. CASE k \in Indices(p)
    BY <1>1, <1>2, <1>5, <2>1, Zenon DEF FollowsState
  <2>2. CASE k \notin Indices(p) /\ t \in bound
    BY <1>1, <1>2, <1>3, <2>2, Zenon DEF FollowsState
  <2>3. CASE k \notin Indices(p) /\ t \notin bound
    BY <1>4, <1>5, <2>3, Zenon
  <2> QED
    BY <2>1, <2>2, <2>3
<1>6. t \in bound2 => \E j \in Indices(q) : IsState(q, t, j)
  BY <1>1, <1>2, Zenon DEF FollowsState
<1> QED
  BY <1>5, <1>6, Zenon DEF FollowsState

-----------------------------------------------------------------------------
(* Sessions.                                                               *)

SessionFields == {"identity", "state", "bound", "last_sequences", "outbox", "asked"}

SessionFits(self) ==
    /\ DOMAIN self = SessionFields
    /\ self.bound \subseteq Targets
    /\ self.last_sequences \in [Targets -> 0 .. MaxSequence \cup {None}]
    /\ self.outbox \in Seq(Messages)

\* Whoever has an identity was greeted first, and only such a session asks.
Greeted(self) ==
    /\ self.identity => Len(self.outbox) > 0
                            /\ self.outbox[1] = Message("ServerHello", None)
    /\ self.asked => self.identity

StreamFits(self) ==
    \A t \in Targets : /\ Accounts(self.outbox, t, self.last_sequences[t])
                       /\ FollowsState(self.outbox, t, self.bound)

SessionInv(self) == SessionFits(self) /\ Greeted(self) /\ StreamFits(self)

\* A session is the same to the invariant if its stream and bindings are.
LEMMA AskingKeeps ==
    ASSUME NEW self, NEW next, SessionInv(self),
           DOMAIN next = SessionFields,
           next.bound = self.bound, next.last_sequences = self.last_sequences,
           next.outbox = self.outbox, next.identity = self.identity,
           next.asked => self.asked \/ self.identity
    PROVE  SessionInv(next)
BY Zenon DEF SessionInv, SessionFits, Greeted, StreamFits

\* A message that is no event or count of the session, about a bound target or none,
\* or a state or the result of a command.
LEMMA OtherKeeps ==
    ASSUME NEW self, NEW next, NEW message \in Messages, SessionInv(self),
           DOMAIN next = SessionFields,
           next.bound \subseteq Targets,
           next.last_sequences = self.last_sequences,
           next.outbox = Append(self.outbox, message),
           next.identity = self.identity,
           next.asked => self.asked \/ self.identity,
           message.type = "Event" => message.about \notin Targets,
           message.type = "DroppedCount" => message.reported,
           message.about \in Targets =>
               message.about \in self.bound \/ message.type \in {"State", "CommandResult"},
           \A t \in next.bound :
               t \in self.bound \/ (message.type = "State" /\ message.about = t)
    PROVE  SessionInv(next)
<1> DEFINE p == self.outbox
           q == next.outbox
           n == Len(p) + 1
<1>1. p \in Seq(Messages) /\ self.last_sequences \in [Targets -> 0 .. MaxSequence \cup {None}]
  BY DEF SessionInv, SessionFits
<1>2. /\ q \in Seq(Messages)
      /\ Extends(p, q)
      /\ Len(q) = Len(p) + 1
      /\ q[n] = message
      /\ Indices(q) \ Indices(p) = {n}
      /\ Len(p) > 0 => q[1] = p[1]
  <2> q = Append(p, message)
    OBVIOUS
  <2> HIDE DEF p, q
  <2> QED
    BY <1>1, ExtendsOutbox
<1>3. n \in Indices(q)
  BY <1>2, Zenon
<1> HIDE DEF p, q, n
<1>4. SessionFits(next)
  BY <1>1, <1>2, Zenon DEF SessionFits, q
<1>5. Greeted(next)
  <2>1. Len(p) > 0 => Len(q) > 0
    BY <1>1, <1>2
  <2> QED
    BY <1>2, <2>1, Zenon DEF SessionInv, Greeted, p, q
<1>6. ASSUME NEW t \in Targets
      PROVE  Accounts(q, t, self.last_sequences[t]) /\ FollowsState(q, t, next.bound)
  <2>1. Accounts(p, t, self.last_sequences[t]) /\ FollowsState(p, t, self.bound)
    BY Zenon DEF SessionInv, StreamFits, p
  <2>2. ~IsEvent(q, t, n) /\ ~IsCount(q, t, n)
    BY <1>2, Zenon DEF IsEvent, IsCount
  <2>3. Accounts(q, t, self.last_sequences[t])
    BY <1>2, <2>1, <2>2, QuietKeeps, Zenon
  <2>4. IsAbout(q, t, n) => t \in self.bound \/ IsState(q, t, n)
    BY <1>2 DEF IsState, IsAbout
  <2>5. t \in next.bound => t \in self.bound \/ \E j \in Indices(q) : IsState(q, t, j)
    BY <1>2, <1>3, Zenon DEF IsState
  <2>6. FollowsState(q, t, next.bound)
    BY <1>2, <2>1, <2>4, <2>5, FollowsKeeps, Zenon
  <2> QED
    BY <2>3, <2>6
<1> QED
  BY <1>4, <1>5, <1>6, Zenon DEF SessionInv, StreamFits, q

-----------------------------------------------------------------------------
(* The operations of a session.                                            *)

\* A new session, and one that was only greeted.
LEMMA NewSession ==
    SessionInv(unauthenticated) /\ SessionInv(server_hello)
<1> USE DEF Indices
<1>1. /\ DOMAIN unauthenticated = SessionFields
      /\ unauthenticated.identity = FALSE /\ unauthenticated.asked = FALSE
      /\ unauthenticated.bound = {}
      /\ unauthenticated.last_sequences = [t \in Targets |-> None]
      /\ unauthenticated.outbox = <<>>
  BY DEF unauthenticated, SessionFields
<1>2. ASSUME NEW t
      PROVE  Accounts(<<>>, t, None) /\ FollowsState(<<>>, t, {})
  BY DEF Accounts, LastIs, Rising, GapsCounted, CountsInside, FollowsState, IsAbout
<1>3. SessionInv(unauthenticated)
  <2>1. SessionFits(unauthenticated)
    BY <1>1 DEF SessionFits
  <2>2. Greeted(unauthenticated)
    BY <1>1, Zenon DEF Greeted
  <2>3. StreamFits(unauthenticated)
    BY <1>1, <1>2 DEF StreamFits
  <2> QED
    BY <2>1, <2>2, <2>3 DEF SessionInv
<1> DEFINE hello == Message("ServerHello", None)
           p == <<hello>>
<1>4. /\ DOMAIN server_hello = SessionFields
      /\ server_hello.identity = TRUE /\ server_hello.asked = FALSE
      /\ server_hello.bound = {}
      /\ server_hello.last_sequences = [t \in Targets |-> None]
      /\ server_hello.outbox = p
  BY <1>1 DEF server_hello, unauthenticated, SessionFields
<1>5. hello \in Messages /\ hello.type = "ServerHello" /\ hello.about = None
  BY DEF Message, Messages
<1> HIDE DEF hello
<1>6. Len(p) = 1 /\ p[1] = hello /\ p \in Seq(Messages) /\ Indices(p) = {1}
  BY <1>5
<1> HIDE DEF p
<1>7. ASSUME NEW t \in Targets
      PROVE  Accounts(p, t, None) /\ FollowsState(p, t, {})
  <2>1. hello.about # t
    BY <1>5, NoneAssumption
  <2>2. \A k \in Indices(p) : ~IsEvent(p, t, k) /\ ~IsCount(p, t, k)
    BY <1>5, <1>6, <2>1 DEF IsEvent, IsCount
  <2>3. Accounts(p, t, None)
    BY <2>2, Zenon DEF Accounts, LastIs, Rising, GapsCounted, CountsInside, Successive
  <2>4. FollowsState(p, t, {})
    BY <1>6, <2>1 DEF FollowsState, IsAbout
  <2> QED
    BY <2>3, <2>4
<1>8. SessionInv(server_hello)
  <2>1. SessionFits(server_hello)
    BY <1>4, <1>6 DEF SessionFits
  <2>2. Greeted(server_hello)
    BY <1>4, <1>6 DEF Greeted, hello
  <2>3. StreamFits(server_hello)
    BY <1>4, <1>7 DEF StreamFits
  <2> QED
    BY <2>1, <2>2, <2>3 DEF SessionInv
<1> QED
  BY <1>3, <1>8

\* Taking the hello changes the state of the session alone.
LEMMA HelloKeeps ==
    ASSUME NEW self, SessionInv(self)
    PROVE  SessionInv(accept_client_hello(self))
<1> DEFINE next == accept_client_hello(self)
<1>1. DOMAIN self = SessionFields
  BY DEF SessionInv, SessionFits
<1>2. /\ DOMAIN next = SessionFields
      /\ next.bound = self.bound
      /\ next.last_sequences = self.last_sequences
      /\ next.outbox = self.outbox
      /\ next.identity = self.identity
      /\ next.asked = self.asked
  BY <1>1 DEF accept_client_hello, SessionFields
<1> HIDE DEF next
<1> QED
  BY <1>2, AskingKeeps, Zenon DEF next

\* The handshake over wss, with the list of targets.
LEMMA EstablishedInv ==
    ASSUME NEW targets \in SUBSET Targets
    PROVE  LET next == publish_target_list(accept_client_hello(server_hello), targets)
           IN  SessionInv(next) /\ next.bound = {}
<1> DEFINE self == accept_client_hello(server_hello)
           message == Message("TargetList", targets)
           next == publish_target_list(self, targets)
<1>1. SessionInv(self) /\ DOMAIN self = SessionFields
  BY NewSession, HelloKeeps, Zenon DEF SessionInv, SessionFits
<1>2. self.bound = {}
  BY DEF accept_client_hello, server_hello, unauthenticated
<1>3. message \in Messages /\ message.type = "TargetList" /\ message.about = targets
  BY DEF Message, Messages
<1> HIDE DEF self, message
<1>4. /\ DOMAIN next = SessionFields
      /\ next.bound = self.bound
      /\ next.last_sequences = self.last_sequences
      /\ next.outbox = Append(self.outbox, message)
      /\ next.identity = self.identity
      /\ next.asked = self.asked
  BY <1>1 DEF publish_target_list, SessionFields, message
<1> HIDE DEF next
<1>5. message.about \notin Targets
  BY <1>3, TargetAssumption
<1>6. SessionInv(next)
  BY <1>1, <1>2, <1>3, <1>4, <1>5, OtherKeeps
<1> QED
  BY <1>2, <1>4, <1>6, Zenon DEF next, self

\* accept_log, accept_state_delta, accept_dropped_count, accept_connection_state.
LEMMA AcceptKeeps ==
    ASSUME NEW self, SessionInv(self), NEW t \in Targets, NEW message \in Messages,
           message.about = t, message.type # "Event",
           message.type = "DroppedCount" => message.reported
    PROVE  /\ SessionInv(accept(self, message))
           /\ accept(self, message).bound = self.bound
           /\ IF t \in self.bound
              THEN accept(self, message).outbox = Append(self.outbox, message)
              ELSE accept(self, message) = self
<1> DEFINE next == accept(self, message)
<1>1. CASE t \in self.bound
  <2>1. DOMAIN self = SessionFields /\ self.bound \subseteq Targets
    BY DEF SessionInv, SessionFits
  <2>2. /\ DOMAIN next = SessionFields
        /\ next.bound = self.bound
        /\ next.last_sequences = self.last_sequences
        /\ next.outbox = Append(self.outbox, message)
        /\ next.identity = self.identity
        /\ next.asked = self.asked
    BY <1>1, <2>1 DEF accept, SessionFields
  <2> HIDE DEF next
  <2>3. SessionInv(next)
    BY <1>1, <2>1, <2>2, OtherKeeps, Zenon
  <2> QED
    BY <1>1, <2>2, <2>3, Zenon DEF next
<1>2. CASE t \notin self.bound
  BY <1>2, Zenon DEF accept
<1> QED
  BY <1>1, <1>2

\* accept_event: the event is shown after the count of what is missing, or nothing
\* happens.
LEMMA AcceptEventKeeps ==
    ASSUME NEW self, SessionInv(self), NEW t \in Targets, NEW n \in EventSequences
    PROVE  /\ SessionInv(accept_event(self, t, n))
           /\ accept_event(self, t, n).bound = self.bound
           /\ Extends(self.outbox, accept_event(self, t, n).outbox)
           /\ LET q == accept_event(self, t, n).outbox
              IN  \A k \in Indices(q) \ Indices(self.outbox) :
                      q[k].type \in {"Event", "DroppedCount"}
<1> DEFINE previous == self.last_sequences[t]
           gap == IF previous # None /\ n > Wrapped(previous + 1)
                  THEN <<DroppedCount(t, Wrapped(n - previous - 1))>>
                  ELSE <<>>
           next == accept_event(self, t, n)
           p == self.outbox
           q == p \o gap \o <<Event(t, n)>>
<1>1. /\ DOMAIN self = SessionFields
      /\ self.bound \subseteq Targets
      /\ self.last_sequences \in [Targets -> 0 .. MaxSequence \cup {None}]
      /\ p \in Seq(Messages)
  BY DEF SessionInv, SessionFits
<1>2. n \in 0 .. MaxSequence /\ n \in Nat /\ n # None /\ previous \in 0 .. MaxSequence \cup {None}
  BY <1>1, StreamAssumption, NoneAssumption
<1>3. CASE t \notin self.bound \/ (previous # None /\ n <= previous)
  <2>1. next = self
    BY <1>3, Zenon DEF accept_event
  <2>2. Extends(p, p)
    BY <1>1 DEF Extends, Indices
  <2> QED
    BY <2>1, <2>2, Zenon
<1>4. CASE ~(t \notin self.bound \/ (previous # None /\ n <= previous))
  <2>1. next = [self EXCEPT !.last_sequences[t] = n, !.outbox = q]
    BY <1>4, Zenon DEF accept_event
  <2>2. t \in self.bound /\ (previous # None => previous \in Nat /\ n > previous)
    BY <1>2, <1>4
  <2>3. previous # None => Wrapped(previous + 1) = previous + 1
                               /\ Wrapped(n - previous - 1) = n - previous - 1
                               /\ n - previous - 1 \in Nat
    <3> SUFFICES ASSUME previous # None
                 PROVE  /\ Wrapped(previous + 1) = previous + 1
                        /\ Wrapped(n - previous - 1) = n - previous - 1
                        /\ n - previous - 1 \in Nat
      BY Zenon
    <3>1. previous + 1 \in 0 .. MaxSequence /\ n - previous - 1 \in 0 .. MaxSequence
      BY <1>2, <2>2, StreamAssumption
    <3> QED
      BY <3>1, NoWrap
  <2> HIDE DEF q, p, previous, next
  <2>4. /\ DOMAIN next = SessionFields
        /\ next.bound = self.bound
        /\ next.last_sequences = [self.last_sequences EXCEPT ![t] = n]
        /\ next.outbox = q
        /\ next.identity = self.identity
        /\ next.asked = self.asked
    BY <1>1, <2>1 DEF SessionFields
  <2> DEFINE event == Event(t, n)
             count == DroppedCount(t, n - previous - 1)
             missing == previous # None /\ n # previous + 1
  <2>5. /\ event \in Messages /\ event.type = "Event" /\ event.about = t /\ event.n = n
    BY <1>2 DEF Event, Message, Messages
  <2>6. missing => /\ count \in Messages /\ count.type = "DroppedCount" /\ count.about = t
                   /\ count.n = n - previous - 1 /\ count.reported = FALSE
    BY <2>3 DEF DroppedCount, Message, Messages
  <2>7. gap = IF missing THEN <<count>> ELSE <<>>
    BY <1>2, <2>2, <2>3
  <2> HIDE DEF event, count, gap
  <2>8. q = IF missing THEN Append(Append(p, count), event) ELSE Append(p, event)
    <3>1. q = p \o gap \o <<event>>
      BY Zenon DEF q, event
    <3>2. CASE missing
      <4>1. p \o gap = Append(p, count) /\ Append(p, count) \in Seq(Messages)
        BY <1>1, <2>6, <2>7, <3>2, ConcatOne, AppendFacts
      <4>2. p \o gap \o <<event>> = Append(Append(p, count), event)
        BY <2>5, <4>1, ConcatOne
      <4> QED
        BY <3>1, <3>2, <4>2
    <3>3. CASE ~missing
      <4>1. p \o gap = p
        BY <1>1, <2>7, <3>3, ConcatEmptySeq
      <4>2. p \o gap \o <<event>> = Append(p, event)
        BY <1>1, <2>5, <4>1, ConcatOne
      <4> QED
        BY <3>1, <3>3, <4>2
    <3> QED
      BY <3>2, <3>3
  <2>9. /\ q \in Seq(Messages)
        /\ Extends(p, q)
        /\ Len(q) > Len(p)
        /\ q[Len(q)] = event
        /\ Len(p) > 0 => q[1] = p[1]
        /\ IF missing
           THEN Len(q) = Len(p) + 2 /\ q[Len(p) + 1] = count
           ELSE Len(q) = Len(p) + 1
    <3>1. CASE missing
      <4> DEFINE r == Append(p, count)
      <4>1. /\ r \in Seq(Messages) /\ Len(p) \in Nat /\ Len(r) = Len(p) + 1
            /\ \A i \in 1 .. Len(p) : r[i] = p[i]
            /\ r[Len(p) + 1] = count
        BY <1>1, <2>6, <3>1, AppendFacts
      <4>2. q = Append(r, event)
        BY <2>8, <3>1
      <4> HIDE DEF r
      <4>3. /\ q \in Seq(Messages) /\ Len(q) = Len(r) + 1
            /\ \A i \in 1 .. Len(r) : q[i] = r[i]
            /\ q[Len(r) + 1] = event
        BY <2>5, <4>1, <4>2, AppendFacts
      <4>4. Len(q) = Len(p) + 2 /\ q[Len(p) + 1] = count /\ q[Len(q)] = event
        BY <4>1, <4>3
      <4>5. \A i \in 1 .. Len(p) : q[i] = p[i]
        BY <4>1, <4>3
      <4> QED
        BY <3>1, <4>1, <4>3, <4>4, <4>5 DEF Extends, Indices
    <3>2. CASE ~missing
      <4>1. q = Append(p, event)
        BY <2>8, <3>2
      <4>2. /\ q \in Seq(Messages) /\ Len(p) \in Nat /\ Len(q) = Len(p) + 1
            /\ \A i \in 1 .. Len(p) : q[i] = p[i]
            /\ q[Len(p) + 1] = event
        BY <1>1, <2>5, <4>1, AppendFacts
      <4> QED
        BY <3>2, <4>2 DEF Extends, Indices
    <3> QED
      BY <3>1, <3>2
  <2>10. \A k \in Indices(q) \ Indices(p) :
            k = Len(q) \/ (missing /\ k = Len(p) + 1)
    BY <2>9 DEF Indices, Extends
  <2>11. \A k \in Indices(q) \ Indices(p) :
            q[k].type \in {"Event", "DroppedCount"} /\ q[k].about = t
    <3> HIDE DEF missing
    <3> QED
      BY <2>5, <2>6, <2>9, <2>10, Zenon
  <2>12. SessionFits(next)
    BY <1>1, <1>2, <2>4, <2>9 DEF SessionFits
  <2>13. Greeted(next)
    <3>1. Len(p) > 0 => Len(q) > 0
      BY <2>9 DEF Extends
    <3> QED
      BY <2>4, <2>9, <3>1, Zenon DEF SessionInv, Greeted, p
  <2>14. ASSUME NEW u \in Targets
         PROVE  Accounts(q, u, next.last_sequences[u]) /\ FollowsState(q, u, next.bound)
    <3>1. Accounts(p, u, self.last_sequences[u]) /\ FollowsState(p, u, self.bound)
      BY Zenon DEF SessionInv, StreamFits, p
    <3>2. FollowsState(q, u, next.bound)
      <4>1. \A k \in Indices(q) \ Indices(p) : IsAbout(q, u, k) => u \in self.bound
        BY <2>2, <2>11, Zenon DEF IsAbout
      <4>2. Extends(p, q) /\ next.bound = self.bound
        BY <2>4, <2>9
      <4> QED
        BY <3>1, <4>1, <4>2, FollowsKeeps, Zenon
    <3>3. CASE u # t
      <4>1. next.last_sequences[u] = self.last_sequences[u]
        BY <1>1, <2>4, <3>3
      <4>2. \A k \in Indices(q) \ Indices(p) : ~IsEvent(q, u, k) /\ ~IsCount(q, u, k)
        BY <2>11, <3>3, Zenon DEF IsEvent, IsCount
      <4> QED
        BY <2>9, <3>1, <3>2, <4>1, <4>2, QuietKeeps, Zenon
    <3>4. CASE u = t
      <4>1. next.last_sequences[t] = n
        BY <1>1, <2>4
      <4>2. \A k \in Indices(p) : p[k].n \in Nat
        <5>1. \A k \in Indices(p) : p[k] \in Messages
          BY <1>1, ElementOfSeq DEF Indices
        <5> QED
          BY <5>1 DEF Messages
      <4>3. IsEvent(q, t, Len(q)) /\ ~IsCount(q, t, Len(q)) /\ q[Len(q)].n = n
        BY <2>5, <2>9 DEF IsEvent, IsCount
      <4>4. missing => /\ IsCount(q, t, Len(p) + 1)
                       /\ ~IsEvent(q, t, Len(p) + 1)
                       /\ q[Len(p) + 1].n = n - previous - 1
        BY <2>6, <2>9 DEF IsEvent, IsCount
      <4>5. Accounts(p, t, previous)
        BY <3>1, <3>4 DEF previous
      <4>6. Accounts(q, t, n)
        BY <1>2, <2>2, <2>9, <4>2, <4>3, <4>4, <4>5, ShownKeeps
      <4> QED
        BY <3>2, <3>4, <4>1, <4>6
    <3> QED
      BY <3>3, <3>4
  <2>15. SessionInv(next)
    BY <2>4, <2>12, <2>13, <2>14, Zenon DEF SessionInv, StreamFits
  <2> QED
    BY <2>4, <2>9, <2>11, <2>15, Zenon DEF next, p
<1> QED
  BY <1>3, <1>4

-----------------------------------------------------------------------------
(* The specification keeps the invariant of every session.                 *)

SessionsFit ==
    /\ DOMAIN dashboards = Dashboards
    /\ \A d \in Dashboards : SessionInv(dashboards[d])

StreamInv == SocketInv /\ SessionsFit

\* What the steps of one session do to it: it is established or greeted, asks,
\* binds, or accepts something.
SessionStep(d, next) ==
    /\ dashboards' = [dashboards EXCEPT ![d] = next]
    /\ SessionInv(next)

LEMMA SessionStepKeeps ==
    ASSUME SessionsFit, NEW d \in Dashboards, NEW next, SessionStep(d, next)
    PROVE  /\ SessionsFit'
           /\ dashboards'[d] = next
           /\ \A e \in Dashboards \ {d} : dashboards'[e] = dashboards[e]
BY DEF SessionsFit, SessionStep

LEMMA EstablishEffect ==
    ASSUME StreamInv, NEW d \in Dashboards, Establish(d)
    PROVE  \E next : SessionStep(d, next) /\ next.bound = {}
<1> DEFINE targets == active_targets(clock)
           next == publish_target_list(accept_client_hello(server_hello), targets)
<1>1. targets \in SUBSET Targets
  BY DEF active_targets, StreamInv, SocketInv, RegistryTypeOK
<1>2. SessionInv(next) /\ next.bound = {}
  BY <1>1, EstablishedInv, Zenon
<1>3. dashboards' = [dashboards EXCEPT ![d] = next]
  BY Zenon DEF Establish, Become
<1> QED
  BY <1>2, <1>3, Zenon DEF SessionStep

LEMMA GreetEffect ==
    ASSUME StreamInv, NEW d \in Dashboards, Greet(d)
    PROVE  \E next : /\ SessionStep(d, next)
                     /\ next.bound = dashboards[d].bound
                     /\ next.outbox = dashboards[d].outbox
<1> DEFINE self == dashboards[d]
           next == accept_client_hello(self)
<1>1. SessionInv(self)
  BY DEF StreamInv, SessionsFit
<1>2. SessionInv(next)
  BY <1>1, HelloKeeps, Zenon
<1>3. next.bound = self.bound /\ next.outbox = self.outbox
  BY <1>1 DEF accept_client_hello, SessionInv, SessionFits, SessionFields
<1>4. dashboards' = [dashboards EXCEPT ![d] = next]
  BY Zenon DEF Greet, Become
<1> QED
  BY <1>2, <1>3, <1>4, Zenon DEF SessionStep

\* A failed bind_target or command leaves a session that has asked, one with an
\* identity.
LEMMA AskingEffect ==
    ASSUME StreamInv, NEW d \in Dashboards, dashboards[d].identity,
           Become(d, Asking(d))
    PROVE  \E next : /\ SessionStep(d, next)
                     /\ next.bound = dashboards[d].bound
                     /\ next.outbox = dashboards[d].outbox
<1> DEFINE self == dashboards[d]
           next == Asking(d)
<1>1. SessionInv(self) /\ DOMAIN self = SessionFields
  BY DEF StreamInv, SessionsFit, SessionInv, SessionFits
<1>2. self.identity
  OBVIOUS
<1>3. /\ DOMAIN next = SessionFields
      /\ next.bound = self.bound
      /\ next.last_sequences = self.last_sequences
      /\ next.outbox = self.outbox
      /\ next.identity = self.identity
  BY <1>1 DEF Asking, SessionFields
<1>4. dashboards' = [dashboards EXCEPT ![d] = next]
  BY Zenon DEF Become
<1> HIDE DEF self, next
<1>5. SessionInv(next)
  BY <1>1, <1>2, <1>3, AskingKeeps, Zenon
<1> QED
  BY <1>3, <1>4, <1>5, Zenon DEF SessionStep, self

\* A successful one shows the state of the target and binds it.
LEMMA BindEffect ==
    ASSUME StreamInv, NEW d \in Dashboards, NEW t \in Targets, BindSucceeds(d, t)
    PROVE  \E next : /\ SessionStep(d, next)
                     /\ next.bound = dashboards[d].bound \cup {t}
                     /\ next.outbox = Append(dashboards[d].outbox, Message("State", t))
<1> DEFINE self == dashboards[d]
           message == Message("State", t)
           next == [Asking(d) EXCEPT !.bound = @ \cup {t}, !.outbox = Append(@, message)]
<1>1. /\ SessionInv(self)
      /\ DOMAIN self = SessionFields
      /\ self.bound \subseteq Targets
  BY DEF StreamInv, SessionsFit, SessionInv, SessionFits
<1>2. self.identity
  BY Zenon DEF BindSucceeds, MayBind, ensure_control_established
<1>3. message \in Messages /\ message.type = "State" /\ message.about = t
  BY DEF Message, Messages
<1>4. dashboards' = [dashboards EXCEPT ![d] = next]
  BY Zenon DEF BindSucceeds, Become
<1> HIDE DEF message
<1>5. /\ DOMAIN next = SessionFields
      /\ next.bound = self.bound \cup {t}
      /\ next.last_sequences = self.last_sequences
      /\ next.outbox = Append(self.outbox, message)
      /\ next.identity = self.identity
  BY <1>1 DEF Asking, SessionFields
<1> HIDE DEF self, next
<1>6. SessionInv(next)
  <2>1. next.bound \subseteq Targets
    BY <1>1, <1>5
  <2>2. \A u \in next.bound : u \in self.bound \/ (message.type = "State" /\ message.about = u)
    BY <1>3, <1>5
  <2>3. message.type # "Event" /\ message.type # "DroppedCount"
    BY <1>3
  <2> QED
    BY <1>1, <1>2, <1>3, <1>5, <2>1, <2>2, <2>3, OtherKeeps, Zenon
<1> QED
  BY <1>4, <1>5, <1>6, Zenon DEF SessionStep, self, message

\* The result of a command, which may be about any target.
LEMMA ResultKeeps ==
    ASSUME StreamInv, NEW d \in Dashboards, dashboards[d].identity,
           NEW about \in Targets \cup {None}
    PROVE  LET next == WithResult(d, about)
           IN  /\ SessionInv(next)
               /\ next.identity
               /\ next.bound = dashboards[d].bound
               /\ next.outbox = Append(dashboards[d].outbox, Message("CommandResult", about))
<1> DEFINE self == dashboards[d]
           message == Message("CommandResult", about)
           next == WithResult(d, about)
<1>1. /\ SessionInv(self)
      /\ DOMAIN self = SessionFields
      /\ self.bound \subseteq Targets
  BY DEF StreamInv, SessionsFit, SessionInv, SessionFits
<1>2. message \in Messages /\ message.type = "CommandResult" /\ message.about = about
  BY DEF Message, Messages
<1> HIDE DEF message
<1>3. /\ DOMAIN next = SessionFields
      /\ next.bound = self.bound
      /\ next.last_sequences = self.last_sequences
      /\ next.outbox = Append(self.outbox, message)
      /\ next.identity = self.identity
  BY <1>1 DEF WithResult, Asking, SessionFields, message
<1> HIDE DEF next
<1>4. /\ message.type # "Event" /\ message.type # "DroppedCount"
      /\ message.type \in {"State", "CommandResult"}
  BY <1>2
<1>5. SessionInv(next)
  <2>1. self.identity
    OBVIOUS
  <2> HIDE DEF self
  <2> QED
    BY <1>1, <1>2, <1>3, <1>4, <2>1, OtherKeeps, Zenon
<1> QED
  BY <1>3, <1>5, Zenon DEF next, message

\* A command ends without an answer, or with a result that nothing follows, or that
\* a state or a lost connection follows.
Unanswered(d, next) ==
    UNCHANGED registryVars /\ next.outbox = dashboards[d].outbox

Answered(d, next, about) ==
    UNCHANGED registryVars /\ next.outbox = WithResult(d, about).outbox

Refreshed(d, next, about) ==
    /\ \E generation \in Generations : MarkConnected(about, generation, clock)
    /\ UNCHANGED clock
    /\ next.outbox = Append(WithResult(d, about).outbox, Message("State", about))

Unrefreshed(d, next, about) ==
    /\ MarkUnavailable(about, "ipc_failed", clock) /\ UNCHANGED clock
    /\ next.outbox = IF about \in dashboards[d].bound
                     THEN Append(WithResult(d, about).outbox, Message("ConnectionState", about))
                     ELSE WithResult(d, about).outbox

LEMMA CommandEffect ==
    ASSUME StreamInv, NEW d \in Dashboards, NEW t \in Targets, Command(d, t)
    PROVE  /\ dashboards[d].identity
           /\ \E next :
                 /\ SessionStep(d, next)
                 /\ next.bound = dashboards[d].bound
                 /\ \/ Unanswered(d, next)
                    \/ \E about \in Targets \cup {None} : Answered(d, next, about)
                    \/ \E about \in Targets :
                          Refreshed(d, next, about) \/ Unrefreshed(d, next, about)
<1>1. dashboards[d].identity
  BY Zenon DEF Command, ForwardFails, ForwardSucceeds, RefreshRead, RefreshFails, MayForward,
     ensure_control_established
<1>2. CASE ForwardFails(d, t)
  <2>1. Become(d, Asking(d)) /\ UNCHANGED registryVars
    BY <1>2, Zenon DEF ForwardFails
  <2> QED
    BY <1>1, <2>1, AskingEffect, Zenon DEF Unanswered
<1>3. CASE ForwardSucceeds(d, t)
  <2>1. PICK about \in Targets \cup {None} : Become(d, WithResult(d, about))
    BY <1>3, Zenon DEF ForwardSucceeds
  <2>2. SessionStep(d, WithResult(d, about))
    BY <1>1, <2>1, ResultKeeps, Zenon DEF SessionStep, Become
  <2>3. UNCHANGED registryVars
    BY <1>3, Zenon DEF ForwardSucceeds
  <2> QED
    BY <1>1, <2>2, <2>3, ResultKeeps, Zenon DEF Answered
<1>4. ASSUME NEW about \in Targets, RefreshRead(d, t, about)
      PROVE  \E next : /\ SessionStep(d, next)
                       /\ next.bound = dashboards[d].bound
                       /\ Refreshed(d, next, about)
  <2> DEFINE self == WithResult(d, about)
             message == Message("State", about)
             next == [self EXCEPT !.outbox = Append(@, message)]
  <2>1. SessionInv(self) /\ self.identity /\ self.bound = dashboards[d].bound
    BY <1>1, ResultKeeps, Zenon
  <2>2. DOMAIN self = SessionFields /\ self.bound \subseteq Targets
    BY <2>1 DEF SessionInv, SessionFits
  <2>3. message \in Messages /\ message.type = "State" /\ message.about = about
    BY DEF Message, Messages
  <2>4. dashboards' = [dashboards EXCEPT ![d] = next]
    BY <1>4, Zenon DEF RefreshRead, Become
  <2>5. PICK generation \in Generations : MarkConnected(about, generation, clock)
    BY <1>4, Zenon DEF RefreshRead
  <2>6. UNCHANGED clock
    BY <1>4, Zenon DEF RefreshRead
  <2> HIDE DEF self, message
  <2>7. /\ DOMAIN next = SessionFields
        /\ next.bound = self.bound
        /\ next.last_sequences = self.last_sequences
        /\ next.outbox = Append(self.outbox, message)
        /\ next.identity = self.identity
    BY <2>2 DEF SessionFields
  <2> HIDE DEF next
  <2>8. /\ message.type # "Event" /\ message.type # "DroppedCount"
        /\ message.type \in {"State", "CommandResult"}
    BY <2>3
  <2>9. SessionInv(next)
    BY <2>1, <2>2, <2>3, <2>7, <2>8, OtherKeeps, Zenon
  <2> QED
    BY <2>1, <2>4, <2>5, <2>6, <2>7, <2>9, Zenon DEF SessionStep, Refreshed, self, message
<1>5. ASSUME NEW about \in Targets, RefreshFails(d, t, about)
      PROVE  \E next : /\ SessionStep(d, next)
                       /\ next.bound = dashboards[d].bound
                       /\ Unrefreshed(d, next, about)
  <2> DEFINE self == WithResult(d, about)
             message == Message("ConnectionState", about)
             next == accept(self, message)
  <2>1. SessionInv(self) /\ self.bound = dashboards[d].bound
    BY <1>1, ResultKeeps, Zenon
  <2>2. message \in Messages /\ message.type = "ConnectionState" /\ message.about = about
    BY DEF Message, Messages
  <2>3. dashboards' = [dashboards EXCEPT ![d] = next]
    BY <1>5, Zenon DEF RefreshFails, Become
  <2>4. MarkUnavailable(about, "ipc_failed", clock) /\ UNCHANGED clock
    BY <1>5, Zenon DEF RefreshFails
  <2> HIDE DEF self, message
  <2>5. message.type # "Event" /\ message.type # "DroppedCount"
    BY <2>2
  <2>6. /\ SessionInv(next)
        /\ next.bound = self.bound
        /\ IF about \in self.bound THEN next.outbox = Append(self.outbox, message)
                                  ELSE next = self
    BY <2>1, <2>2, <2>5, AcceptKeeps, Zenon
  <2> HIDE DEF next
  <2>7. next.outbox = IF about \in dashboards[d].bound THEN Append(self.outbox, message)
                                                       ELSE self.outbox
    BY <2>1, <2>6, Zenon
  <2> QED
    BY <2>1, <2>3, <2>4, <2>6, <2>7, Zenon DEF SessionStep, Unrefreshed, self, message
<1> QED
  BY <1>1, <1>2, <1>3, <1>4, <1>5, Zenon DEF Command

LEMMA EventEffect ==
    ASSUME StreamInv, NEW d \in Dashboards, NEW t \in Targets, FanOutEvent(d, t)
    PROVE  \E next : /\ SessionStep(d, next)
                     /\ next.bound = dashboards[d].bound
                     /\ Extends(dashboards[d].outbox, next.outbox)
                     /\ \A k \in Indices(next.outbox) \ Indices(dashboards[d].outbox) :
                           next.outbox[k].type \in {"Event", "DroppedCount"}
<1>1. PICK n \in EventSequences : Become(d, accept_event(dashboards[d], t, n))
  BY Zenon DEF FanOutEvent
<1>2. SessionInv(dashboards[d])
  BY DEF StreamInv, SessionsFit
<1> DEFINE next == accept_event(dashboards[d], t, n)
<1>3. /\ SessionInv(next)
      /\ next.bound = dashboards[d].bound
      /\ Extends(dashboards[d].outbox, next.outbox)
      /\ \A k \in Indices(next.outbox) \ Indices(dashboards[d].outbox) :
            next.outbox[k].type \in {"Event", "DroppedCount"}
  BY <1>2, AcceptEventKeeps, Zenon
<1>4. dashboards' = [dashboards EXCEPT ![d] = next]
  BY <1>1, Zenon DEF Become
<1> QED
  BY <1>3, <1>4, Zenon DEF SessionStep

\* A message about a target reaches the sessions that bound it.
Passed(d, t, message, next) ==
    /\ next.bound = dashboards[d].bound
    /\ IF t \in dashboards[d].bound
       THEN next.outbox = Append(dashboards[d].outbox, message)
       ELSE next = dashboards[d]

LEMMA PassEffect ==
    ASSUME StreamInv, NEW d \in Dashboards, NEW t \in Targets, NEW message \in Messages,
           message.about = t, message.type # "Event",
           message.type = "DroppedCount" => message.reported,
           Become(d, accept(dashboards[d], message))
    PROVE  \E next : SessionStep(d, next) /\ Passed(d, t, message, next)
<1> DEFINE next == accept(dashboards[d], message)
<1>1. SessionInv(dashboards[d])
  BY DEF StreamInv, SessionsFit
<1>2. SessionInv(next) /\ Passed(d, t, message, next)
  BY <1>1, AcceptKeeps, Zenon DEF Passed
<1>3. dashboards' = [dashboards EXCEPT ![d] = next]
  BY Zenon DEF Become
<1> QED
  BY <1>2, <1>3, Zenon DEF SessionStep

LEMMA OtherEffect ==
    ASSUME StreamInv, NEW d \in Dashboards, NEW t \in Targets, FanOutOther(d, t)
    PROVE  \E next, message :
               /\ SessionStep(d, next) /\ Passed(d, t, message, next)
               /\ message \in Messages
               /\ message.type \in {"Payload", "DroppedCount"} /\ message.about = t
<1>1. PICK message \in {Message("Payload", t), [DroppedCount(t, 1) EXCEPT !.reported = TRUE]} :
          Become(d, accept(dashboards[d], message))
  BY Zenon DEF FanOutOther
<1>2. /\ message \in Messages
      /\ message.type \in {"Payload", "DroppedCount"}
      /\ message.about = t
      /\ message.type = "DroppedCount" => message.reported
  <2>1. CASE message = Message("Payload", t)
    <3>1. message \in Messages /\ message.type = "Payload" /\ message.about = t
      BY <2>1 DEF Message, Messages
    <3> QED
      BY <3>1
  <2>2. CASE message = [DroppedCount(t, 1) EXCEPT !.reported = TRUE]
    <3>1. /\ message \in Messages /\ message.type = "DroppedCount" /\ message.about = t
          /\ message.reported = TRUE
      BY <2>2 DEF Message, DroppedCount, Messages
    <3> QED
      BY <3>1
  <2> QED
    BY <2>1, <2>2
<1>3. message.type # "Event"
  BY <1>2
<1> QED
  BY <1>1, <1>2, <1>3, PassEffect, Zenon

LEMMA TimeoutEffect ==
    ASSUME StreamInv, NEW d \in Dashboards, NEW t \in Targets, ReconnectTimeout(d, t)
    PROVE  \E next : SessionStep(d, next) /\ Passed(d, t, Message("ConnectionState", t), next)
<1> DEFINE message == Message("ConnectionState", t)
<1>1. /\ message \in Messages
      /\ message.type = "ConnectionState"
      /\ message.about = t
  BY DEF Message, Messages
<1>2. Become(d, accept(dashboards[d], message))
  BY Zenon DEF ReconnectTimeout
<1> HIDE DEF message
<1>3. message.type # "Event" /\ message.type # "DroppedCount"
  BY <1>1
<1>4. \E next : SessionStep(d, next) /\ Passed(d, t, message, next)
  BY <1>1, <1>2, <1>3, PassEffect, Zenon
<1> QED
  BY <1>4 DEF message

-----------------------------------------------------------------------------
(* What the steps do to the registry.                                      *)

\* The record of one target is updated and keeps its path.
Marked(t, state) ==
    /\ t \in Registered
    /\ DOMAIN registrations' = Registered
    /\ connections'[t].state = state
    /\ \A u \in Registered \ {t} : connections'[u] = connections[u]

LEMMA MarkEffect ==
    ASSUME RegistryTypeOK, NEW t \in Targets, NEW state, NEW connection,
           connection.state = state, UpdateConnection(t, connection)
    PROVE  Marked(t, state)
BY DEF UpdateConnection, Marked, RegistryTypeOK, Registered

LEMMA UnavailableEffect ==
    ASSUME SocketInv, NEW t \in Targets, NEW reason \in Reasons,
           MarkUnavailable(t, reason, clock), UNCHANGED clock
    PROVE  SocketInv' /\ Marked(t, "Unavailable")
<1>1. RegistryTypeOK /\ clock \in Nat
  BY DEF SocketInv, RegistryTypeOK
<1>2. SocketInv'
  BY <1>1, CallSockets, SameSocketsKept
<1> DEFINE c == [connections[t] EXCEPT !.state = "Unavailable", !.last_error = reason,
                                       !.updated_at = clock]
<1>3. UpdateConnection(t, c)
  BY Zenon DEF MarkUnavailable
<1>4. connections[t] \in ConnectionRecords
  BY <1>1, <1>3 DEF UpdateConnection, RegistryTypeOK
<1>5. c.state = "Unavailable"
  BY <1>4 DEF ConnectionRecords
<1> HIDE DEF c
<1> QED
  BY <1>1, <1>2, <1>3, <1>5, MarkEffect

LEMMA ConnectedEffect ==
    ASSUME SocketInv, NEW t \in Targets, NEW generation \in Generations,
           MarkConnected(t, generation, clock), UNCHANGED clock
    PROVE  SocketInv' /\ Marked(t, "Connected")
<1>1. RegistryTypeOK /\ clock \in Nat
  BY DEF SocketInv, RegistryTypeOK
<1>2. SocketInv'
  BY <1>1, CallSockets, SameSocketsKept
<1> DEFINE c == [connections[t] EXCEPT
                     !.state = "Connected", !.last_state_generation = generation,
                     !.connected_at = clock, !.updated_at = clock, !.last_error = None]
<1>3. UpdateConnection(t, c)
  BY Zenon DEF MarkConnected
<1>4. connections[t] \in ConnectionRecords
  BY <1>1, <1>3 DEF UpdateConnection, RegistryTypeOK
<1>5. c.state = "Connected"
  BY <1>4 DEF ConnectionRecords
<1> HIDE DEF c
<1> QED
  BY <1>1, <1>2, <1>3, <1>5, MarkEffect

LEMMA SubscribeFailsEffect ==
    ASSUME SocketInv, NEW t \in Targets, NEW generation \in Generations,
           UpdateConnection(t, [ConnectedRecord(t, generation) EXCEPT
              !.state = "Unavailable", !.last_error = "ipc_failed"]), UNCHANGED clock
    PROVE  SocketInv' /\ Marked(t, "Unavailable")
<1> DEFINE c == [ConnectedRecord(t, generation) EXCEPT
                    !.state = "Unavailable", !.last_error = "ipc_failed"]
<1>1. RegistryTypeOK /\ clock \in Nat
  BY DEF SocketInv, RegistryTypeOK
<1>2. connections[t] \in ConnectionRecords
  BY <1>1 DEF UpdateConnection, RegistryTypeOK
<1>3. generation \in Nat
  BY NoneAssumption
<1>4. c \in ConnectionRecords /\ c.state = "Unavailable" /\ c.ipc_path = connections[t].ipc_path
  BY <1>1, <1>2, <1>3 DEF ConnectedRecord, ConnectionRecords, ConnectionStates, Reasons
<1> HIDE DEF c
<1>5. UpdateConnection(t, c)
  BY Zenon DEF c
<1>6. SocketInv'
  BY <1>1, <1>4, <1>5, UpdateSockets, SameSocketsKept
<1> QED
  BY <1>1, <1>4, <1>5, <1>6, MarkEffect

\* register leaves the state of a registered target, or abandons its connection.
LEMMA EnterEffect ==
    ASSUME SocketInv, NEW request \in Requests, NEW owner \in Owners,
           Register(request, owner, clock), UNCHANGED clock
    PROVE  /\ SocketInv'
           /\ \A t \in Registered :
                 /\ t \in Registered'
                 /\ connections'[t].state \in {connections[t].state, "Reconnecting"}
<1> DEFINE t == request.target_id
<1>1. RegistryTypeOK /\ clock \in Nat
  BY DEF SocketInv, RegistryTypeOK
<1>2. SocketInv'
  BY <1>1, RegisterSockets
<1>3. /\ DOMAIN registrations' = Registered \cup {t}
      /\ \A u \in Registered \ {t} : connections'[u] = connections[u]
      /\ RegisteredEntry(request, owner, clock)
  BY <1>1, RegisterEffect, Zenon
<1>4. ASSUME t \in Registered
      PROVE  connections'[t].state \in {connections[t].state, "Reconnecting"}
  <2>1. PICK moved \in BOOLEAN :
            connections'[t] = UpsertedConnection(connections[t], request, clock, moved)
    BY <1>3, <1>4 DEF RegisteredEntry
  <2>2. connections[t] \in ConnectionRecords
    BY <1>1, <1>4 DEF RegistryTypeOK
  <2> QED
    BY <2>1, <2>2 DEF UpsertedConnection, ConnectionRecords
<1> HIDE DEF t
<1> QED
  BY <1>2, <1>3, <1>4 DEF Registered

-----------------------------------------------------------------------------
(* Events, losses, states and control.                                     *)

LEMMA StreamInvInit ==
    StreamInit => StreamInv
BY SocketInvInit, NewSession DEF StreamInit, StreamInv, SessionsFit

\* bind_target, with what each outcome says of the session and the registry.
LEMMA BindOutcomes ==
    ASSUME StreamInv, NEW d \in Dashboards, NEW t \in Targets, Bind(d, t)
    PROVE  /\ SocketInv'
           /\ t \notin dashboards[d].bound
           /\ \E next :
                 /\ SessionStep(d, next)
                 /\ \/ /\ Marked(t, "Unavailable")
                       /\ next.bound = dashboards[d].bound
                       /\ next.outbox = dashboards[d].outbox
                    \/ /\ Marked(t, "Connected")
                       /\ next.bound = dashboards[d].bound \cup {t}
                       /\ next.outbox = Append(dashboards[d].outbox, Message("State", t))
<1> SocketInv
  BY DEF StreamInv
<1>1. MayBind(d, t) /\ UNCHANGED clock
      /\ dashboards[d].identity
  BY DEF MayBind, ensure_control_established, Bind, BindStateFails, BindSubscribeFails, BindSucceeds
<1>2. t \notin dashboards[d].bound
  BY <1>1, Zenon DEF MayBind
<1>3. CASE BindStateFails(d, t)
  <2>1. MarkUnavailable(t, "ipc_failed", clock) /\ Become(d, Asking(d)) /\ "ipc_failed" \in Reasons
    BY <1>3 DEF BindStateFails, Reasons
  <2>2. SocketInv' /\ Marked(t, "Unavailable")
    BY <1>1, <2>1, UnavailableEffect
  <2> QED
    BY <1>1, <1>2, <2>1, <2>2, AskingEffect, Zenon
<1>4. CASE BindSubscribeFails(d, t)
  <2>1. PICK generation \in Generations :
           UpdateConnection(t, [ConnectedRecord(t, generation) EXCEPT
              !.state = "Unavailable", !.last_error = "ipc_failed"])
    BY <1>4, Zenon DEF BindSubscribeFails
  <2>2. SocketInv' /\ Marked(t, "Unavailable")
    BY <1>1, <2>1, SubscribeFailsEffect
  <2>3. Become(d, Asking(d))
    BY <1>4, Zenon DEF BindSubscribeFails
  <2> QED
    BY <1>1, <1>2, <2>2, <2>3, AskingEffect, Zenon
<1>5. CASE BindSucceeds(d, t)
  <2>1. PICK generation \in Generations : MarkConnected(t, generation, clock)
    BY <1>5, Zenon DEF BindSucceeds
  <2>2. SocketInv' /\ Marked(t, "Connected")
    BY <1>1, <2>1, ConnectedEffect
  <2> QED
    BY <1>2, <1>5, <2>2, BindEffect, Zenon
<1> QED
  BY <1>3, <1>4, <1>5 DEF Bind

LEMMA RegistryUntouched ==
    ASSUME SocketInv, UNCHANGED registryVars
    PROVE  SocketInv' /\ Registered' = Registered
<1> UNCHANGED registrations /\ UNCHANGED connections /\ UNCHANGED clock
  BY DEF registryVars
<1> QED
  BY DEF SocketInv, RegistryTypeOK, KeysInStep, KeysDistinct, Registered

\* The registry's own operations connect no target and make none unavailable.
LEMMA MaintainKeeps ==
    ASSUME SocketInv, Maintain
    PROVE  /\ SocketInv'
           /\ Registered' = Registered
           /\ \A t \in Registered : connections'[t].state \in
                  {connections[t].state, "Reconnecting", "Expired"}
<1>1. RegistryTypeOK /\ clock \in Nat /\ clock' \in Nat
  BY DEF SocketInv, RegistryTypeOK, Maintain
<1>2. \A t \in Registered : connections[t] \in ConnectionRecords
  BY <1>1 DEF RegistryTypeOK
<1>3. SameSockets => SocketInv' /\ Registered' = Registered
  BY SameSocketsKept DEF SameSockets, Registered
<1>4. CASE ExpireLeases(clock)
  <2>1. SameSockets
    BY <1>1, <1>4, ExpireSockets
  <2>2. \A t \in Registered : connections'[t].state \in {connections[t].state, "Expired"}
    BY <1>1, <1>2, <1>4 DEF ExpireLeases, ConnectionRecords, RegistryTypeOK
  <2> QED
    BY <1>3, <2>1, <2>2
<1>5. ASSUME NEW t \in Targets, Renew(t, clock)
      PROVE  /\ SameSockets
             /\ UNCHANGED connections
  BY <1>1, <1>5, RenewSockets DEF Renew
<1>6. ASSUME NEW t \in Targets, MarkReconnecting(t, "reconnect", clock)
      PROVE  /\ SameSockets
             /\ \A u \in Registered :
                   connections'[u].state \in {connections[u].state, "Reconnecting"}
  <2>1. SameSockets
    BY <1>1, <1>6, CallSockets DEF Reasons
  <2>2. \A u \in Registered :
            connections'[u].state \in {connections[u].state, "Reconnecting"}
    BY <1>1, <1>2, <1>6 DEF MarkReconnecting, UpdateConnection, ConnectionRecords, RegistryTypeOK
  <2> QED
    BY <2>1, <2>2
<1> QED
  BY <1>3, <1>4, <1>5, <1>6 DEF Maintain

\* handle_command keeps the sockets of the registry.
LEMMA CommandSockets ==
    ASSUME StreamInv, NEW d \in Dashboards, NEW t \in Targets, Command(d, t)
    PROVE  SocketInv' /\ Registered \subseteq Registered'
<1>1. SocketInv /\ "ipc_failed" \in Reasons
  BY DEF StreamInv, Reasons
<1>2. \/ UNCHANGED registryVars
      \/ \E about \in Targets, generation \in Generations :
            MarkConnected(about, generation, clock) /\ UNCHANGED clock
      \/ \E about \in Targets : MarkUnavailable(about, "ipc_failed", clock) /\ UNCHANGED clock
  BY CommandEffect, Zenon DEF Unanswered, Answered, Refreshed, Unrefreshed
<1>3. ASSUME NEW about \in Targets, NEW state, Marked(about, state)
      PROVE  Registered \subseteq Registered'
  BY <1>3 DEF Marked, Registered
<1> QED
  BY <1>1, <1>2, <1>3, RegistryUntouched, ConnectedEffect, UnavailableEffect

LEMMA TickKeeps ==
    ASSUME SocketInv, Tick
    PROVE  SocketInv' /\ UNCHANGED connections /\ Registered' = Registered
BY DEF Tick, SocketInv, RegistryTypeOK, KeysInStep, KeysDistinct, Registered

LEMMA StreamInvStep ==
    StreamInv /\ [StreamNext]_streamVars => StreamInv'
<1> SUFFICES ASSUME StreamInv, [StreamNext]_streamVars
             PROVE  StreamInv'
  OBVIOUS
<1> USE DEF StreamInv
<1>1. ASSUME UNCHANGED dashboards
      PROVE  SessionsFit'
  BY <1>1 DEF SessionsFit
<1>2. CASE Enter
  BY <1>1, <1>2, EnterEffect DEF Enter
<1>3. CASE (Tick /\ UNCHANGED dashboards) \/ Maintain
  BY <1>1, <1>3, TickKeeps, MaintainKeeps DEF Maintain
<1>4. ASSUME NEW d \in Dashboards, Establish(d) \/ Greet(d)
      PROVE  StreamInv'
  <2>1. UNCHANGED registryVars
    BY <1>4 DEF Establish, Greet
  <2>2. \E next : SessionStep(d, next)
    BY <1>4, EstablishEffect, GreetEffect, Zenon
  <2> QED
    BY <2>1, <2>2, SessionStepKeeps, RegistryUntouched
<1>5. ASSUME NEW d \in Dashboards, NEW t \in Targets, StreamCall(d, t)
      PROVE  StreamInv'
  <2>1. CASE Bind(d, t)
    BY <2>1, BindOutcomes, SessionStepKeeps
  <2>5. CASE Command(d, t)
    <3>1. SocketInv'
      BY <2>5, CommandSockets
    <3>2. \E next : SessionStep(d, next)
      BY <2>5, CommandEffect, Zenon
    <3> QED
      BY <3>1, <3>2, SessionStepKeeps
  <2>2. CASE FanOutEvent(d, t)
    <3>1. UNCHANGED registryVars
      BY <2>2 DEF FanOutEvent
    <3> QED
      BY <2>2, <3>1, EventEffect, SessionStepKeeps, RegistryUntouched
  <2>3. CASE FanOutOther(d, t)
    <3>1. UNCHANGED registryVars
      BY <2>3 DEF FanOutOther
    <3> QED
      BY <2>3, <3>1, OtherEffect, SessionStepKeeps, RegistryUntouched
  <2>4. CASE ReconnectTimeout(d, t)
    <3>1. MarkUnavailable(t, "reconnect", clock) /\ UNCHANGED clock /\ "reconnect" \in Reasons
      BY <2>4 DEF ReconnectTimeout, Reasons
    <3> QED
      BY <2>4, <3>1, UnavailableEffect, TimeoutEffect, SessionStepKeeps
  <2> QED
    BY <1>5, <2>1, <2>2, <2>3, <2>4, <2>5 DEF StreamCall
<1>6. CASE UNCHANGED streamVars
  <2>1. UNCHANGED dashboards /\ UNCHANGED registryVars
    BY <1>6 DEF streamVars, registryVars
  <2> QED
    BY <1>1, <2>1, RegistryUntouched
<1> QED
  BY <1>2, <1>3, <1>4, <1>5, <1>6 DEF StreamNext

LEMMA StreamInvariant ==
    StreamSpec => []StreamInv
BY StreamInvInit, StreamInvStep, PTL DEF StreamSpec

LEMMA SessionFacts ==
    ASSUME StreamInv, NEW d \in Dashboards, NEW t \in Targets
    PROVE  LET outbox == dashboards[d].outbox
           IN  /\ outbox \in Seq(Messages)
               /\ DOMAIN outbox = Indices(outbox)
               /\ Accounts(outbox, t, dashboards[d].last_sequences[t])
               /\ FollowsState(outbox, t, dashboards[d].bound)
<1> DEFINE outbox == dashboards[d].outbox
<1>1. SessionInv(dashboards[d])
  BY DEF StreamInv, SessionsFit
<1>2. outbox \in Seq(Messages)
  BY <1>1 DEF SessionInv, SessionFits
<1>3. DOMAIN outbox = Indices(outbox)
  BY <1>2 DEF Indices
<1> QED
  BY <1>1, <1>2, <1>3, Zenon DEF SessionInv, StreamFits

\* The sets of places that the properties speak of.
LEMMA PlacesOf ==
    ASSUME NEW d \in Dashboards, NEW t, NEW type
    PROVE  LET outbox == dashboards[d].outbox
           IN  \A k : Places(d, t, type, k)
                        = {i \in 1 .. k : outbox[i].type = type /\ outbox[i].about = t}
BY DEF Places

\* Each target's events are shown in the order of their numbers, none of them
\* twice (accept_event).
THEOREM EventsAreInOrder ==
    StreamSpec => []EventsInOrder
<1>1. ASSUME StreamInv
      PROVE  EventsInOrder
  <2> SUFFICES ASSUME NEW d \in Dashboards, NEW t \in Targets,
                      NEW i \in Places(d, t, "Event", Len(dashboards[d].outbox)),
                      NEW k \in Places(d, t, "Event", Len(dashboards[d].outbox)),
                      i < k
               PROVE  dashboards[d].outbox[i].n < dashboards[d].outbox[k].n
    BY Zenon DEF EventsInOrder
  <2> DEFINE outbox == dashboards[d].outbox
  <2>1. /\ i \in Indices(outbox) /\ IsEvent(outbox, t, i)
        /\ k \in Indices(outbox) /\ IsEvent(outbox, t, k)
    BY DEF Places, Indices, IsEvent
  <2>2. Rising(outbox, t)
    BY <1>1, SessionFacts, Zenon DEF Accounts
  <2> QED
    BY <2>1, <2>2, Zenon DEF Rising
<1> QED
  BY <1>1, StreamInvariant, PTL

\* Between two events shown one after the other the session counts exactly what
\* is missing, once, and it counts nothing else (accept_event).
THEOREM LossesAreAccounted ==
    StreamSpec => []LossesAccounted
<1>1. ASSUME StreamInv
      PROVE  LossesAccounted
  <2> SUFFICES ASSUME NEW d \in Dashboards, NEW t \in Targets
               PROVE  LET outbox == dashboards[d].outbox
                          shown == Places(d, t, "Event", Len(outbox))
                          counts == {m \in Places(d, t, "DroppedCount", Len(outbox)) :
                                        ~outbox[m].reported}
                          Between(i, k) == {m \in counts : i < m /\ m < k}
                      IN  /\ \A i, k \in shown :
                                i < k /\ ~(\E j \in shown : i < j /\ j < k) =>
                                    LET missing == outbox[k].n - outbox[i].n - 1
                                    IN  IF missing = 0 THEN Between(i, k) = {}
                                        ELSE \E m \in counts :
                                                Between(i, k) = {m} /\ outbox[m].n = missing
                          /\ \A m \in counts : \E i, k \in shown : i < m /\ m < k
    BY Zenon DEF LossesAccounted
  <2> DEFINE outbox == dashboards[d].outbox
             shown == Places(d, t, "Event", Len(outbox))
             counts == {m \in Places(d, t, "DroppedCount", Len(outbox)) : ~outbox[m].reported}
             Between(i, k) == {m \in counts : i < m /\ m < k}
             missing(i, k) == outbox[k].n - outbox[i].n - 1
  <2>1. \A k : k \in shown <=> k \in Indices(outbox) /\ IsEvent(outbox, t, k)
    BY DEF Places, Indices, IsEvent
  <2>2. \A m : m \in counts <=> m \in Indices(outbox) /\ IsCount(outbox, t, m)
    BY Zenon DEF Places, Indices, IsCount
  <2>3. /\ outbox \in Seq(Messages)
        /\ GapsCounted(outbox, t) /\ CountsInside(outbox, t)
    BY <1>1, SessionFacts, Zenon DEF Accounts
  <2>4. \A k \in Indices(outbox) : outbox[k].n \in Nat
    <3>1. \A k \in Indices(outbox) : outbox[k] \in Messages
      BY <2>3, ElementOfSeq DEF Indices
    <3> QED
      BY <3>1 DEF Messages
  <2>5. ASSUME NEW i \in shown, NEW k \in shown,
               i < k, ~(\E j \in shown : i < j /\ j < k)
        PROVE  IF missing(i, k) = 0 THEN Between(i, k) = {}
               ELSE \E m \in counts : Between(i, k) = {m} /\ outbox[m].n = missing(i, k)
    <3> HIDE DEF shown, counts, outbox
    <3>1. i \in Indices(outbox) /\ k \in Indices(outbox)
      BY <2>1
    <3>2. CountedBetween(outbox, t, i, k)
      BY <2>1, <2>3, <2>5, Zenon DEF GapsCounted, Successive
    <3>3. outbox[k].n = outbox[i].n + 1 <=> missing(i, k) = 0
      BY <2>4, <3>1
    <3>4. CASE missing(i, k) = 0
      BY <2>2, <3>2, <3>3, <3>4 DEF CountedBetween
    <3>5. CASE missing(i, k) # 0
      <4>1. PICK m \in Indices(outbox) :
               /\ i < m /\ m < k
               /\ IsCount(outbox, t, m)
               /\ outbox[m].n = missing(i, k)
               /\ \A l \in Indices(outbox) : i < l /\ l < k /\ IsCount(outbox, t, l) => l = m
        BY <3>2, <3>3, <3>5, Zenon DEF CountedBetween
      <4>2. m \in counts /\ Between(i, k) = {m}
        BY <2>2, <4>1
      <4> QED
        BY <3>5, <4>1, <4>2
    <3> QED
      BY <3>4, <3>5
  <2>6. ASSUME NEW m \in counts
        PROVE  \E i, k \in shown : i < m /\ m < k
    <3> HIDE DEF shown, counts, outbox
    <3> QED
      BY <2>1, <2>2, <2>3, Zenon DEF CountsInside
  <2> QED
    BY <2>5, <2>6, Zenon
<1> QED
  BY <1>1, StreamInvariant, PTL

\* A dashboard hears of a target only after it was shown the target's state
\* (bind_target and the bound checks of accept_*).
THEOREM StreamsFollowStates ==
    StreamSpec => []StreamFollowsState
<1>1. ASSUME StreamInv
      PROVE  StreamFollowsState
  <2> SUFFICES ASSUME NEW d \in Dashboards, NEW t \in Targets,
                      NEW k \in DOMAIN dashboards[d].outbox,
                      dashboards[d].outbox[k].about = t,
                      dashboards[d].outbox[k].type # "CommandResult"
               PROVE  Places(d, t, "State", k) # {}
    BY Zenon DEF StreamFollowsState
  <2> DEFINE outbox == dashboards[d].outbox
  <2>1. k \in Indices(outbox) /\ FollowsState(outbox, t, dashboards[d].bound)
    BY <1>1, SessionFacts, Zenon
  <2>2. PICK j \in Indices(outbox) : j <= k /\ IsState(outbox, t, j)
    BY <2>1, Zenon DEF FollowsState, IsAbout
  <2>3. j \in 1 .. k
    BY <2>1, <2>2 DEF Indices
  <2> QED
    BY <2>2, <2>3 DEF Places, IsState
<1> QED
  BY <1>1, StreamInvariant, PTL

\* Only a session with an identity, greeted by the relay, ever calls a target
\* (ensure_control_established).
THEOREM ControlHasIdentity ==
    StreamSpec => []ControlNeedsIdentity
<1>1. StreamInv => ControlNeedsIdentity
  BY Zenon DEF StreamInv, SessionsFit, SessionInv, Greeted, ControlNeedsIdentity
<1> QED
  BY <1>1, StreamInvariant, PTL

-----------------------------------------------------------------------------
(* What a dashboard was told last.                                         *)

\* What a dashboard was told last of a target fits the state recorded.
Known(self, t) ==
    /\ connections[t].state = "Connected" => HeardAs(self.outbox, t, "State")
    /\ connections[t].state = "Unavailable" => HeardAs(self.outbox, t, "ConnectionState")

BoundRegistered == \A d \in Dashboards : dashboards[d].bound \subseteq Registered

\* A step leaves no target out of date that was not so before.
Freshens(d) ==
    \A t \in dashboards'[d].bound :
        Known(dashboards[d], t)' \/ (t \in dashboards[d].bound /\ ~Known(dashboards[d], t))

\* The target is not connected anew and not lost.
Eases(t) == connections'[t].state \in {connections[t].state, "Reconnecting", "Expired"}

\* More is said, but nothing of the connection of this target.
SaysMore(p, q, t) ==
    /\ Extends(p, q)
    /\ \A k \in Indices(q) \ Indices(p) : ~IsHeard(q, t, k)

LEMMA KnownKeeps ==
    ASSUME NEW d \in Dashboards, NEW t, Eases(t),
           SaysMore(dashboards[d].outbox, dashboards'[d].outbox, t),
           Known(dashboards[d], t)
    PROVE  Known(dashboards[d], t)'
<1>1. \A type : HeardAs(dashboards[d].outbox, t, type)
                    => HeardAs(dashboards'[d].outbox, t, type)
  BY HeardKeeps, Zenon DEF SaysMore
<1>2. /\ connections'[t].state = "Connected" => HeardAs(dashboards'[d].outbox, t, "State")
      /\ connections'[t].state = "Unavailable" =>
            HeardAs(dashboards'[d].outbox, t, "ConnectionState")
  BY <1>1 DEF Known, Eases
<1> QED
  BY <1>2, Zenon DEF Known

LEMMA QuietFreshens ==
    ASSUME NEW d \in Dashboards, dashboards'[d].bound \subseteq dashboards[d].bound,
           \A t \in dashboards'[d].bound :
               Eases(t) /\ SaysMore(dashboards[d].outbox, dashboards'[d].outbox, t)
    PROVE  Freshens(d)
<1> SUFFICES ASSUME NEW t \in dashboards'[d].bound
             PROVE  \/ Known(dashboards[d], t)'
                    \/ t \in dashboards[d].bound /\ ~Known(dashboards[d], t)
  BY Zenon DEF Freshens
<1>1. t \in dashboards[d].bound
  OBVIOUS
<1>2. Known(dashboards[d], t) => Known(dashboards[d], t)'
  BY KnownKeeps
<1> QED
  BY <1>1, <1>2, Zenon

\* Nothing, or one message that is not about a connection.
LEMMA SaysLittle ==
    ASSUME NEW p \in Seq(Messages)
    PROVE  /\ \A t : SaysMore(p, p, t)
           /\ \A message \in Messages : message.type \notin {"State", "ConnectionState"} =>
                 \A t : SaysMore(p, Append(p, message), t)
<1>1. Extends(p, p)
  BY DEF Extends, Indices
<1>2. ASSUME NEW message \in Messages, message.type \notin {"State", "ConnectionState"}, NEW t
      PROVE  SaysMore(p, Append(p, message), t)
  <2>1. /\ Extends(p, Append(p, message))
        /\ Append(p, message)[Len(p) + 1] = message
        /\ Indices(Append(p, message)) \ Indices(p) = {Len(p) + 1}
    BY ExtendsOutbox
  <2> QED
    BY <1>2, <2>1 DEF SaysMore, IsHeard
<1> QED
  BY <1>1, <1>2 DEF SaysMore

\* The registry's word on one target, passed on after what else there is to say.
LEMMA ToldFreshens ==
    ASSUME NEW d \in Dashboards, BoundRegistered,
           NEW t \in Targets, NEW message \in Messages, message.about = t,
           \/ message.type = "State" /\ Marked(t, "Connected")
           \/ message.type = "ConnectionState" /\ Marked(t, "Unavailable"),
           dashboards'[d].bound \subseteq dashboards[d].bound \cup {t},
           NEW p \in Seq(Messages),
           \A u : SaysMore(dashboards[d].outbox, p, u),
           dashboards'[d].outbox = Append(p, message)
    PROVE  Freshens(d)
<1> DEFINE q == dashboards'[d].outbox
<1>1. message.type \in {"State", "ConnectionState"} /\ q = Append(p, message)
  OBVIOUS
<1>2. /\ Extends(p, q)
      /\ q[Len(p) + 1] = message
      /\ Indices(q) \ Indices(p) = {Len(p) + 1}
  BY <1>1, ExtendsOutbox
<1>3. HeardAs(q, t, message.type)
  <2> HIDE DEF q
  <2> QED
    BY <1>1, AppendHeard
<1>4. ASSUME NEW u \in dashboards'[d].bound
      PROVE  \/ Known(dashboards[d], u)'
             \/ u \in dashboards[d].bound /\ ~Known(dashboards[d], u)
  <2>1. CASE u = t
    <3>1. \/ message.type = "State" /\ connections'[u].state = "Connected"
          \/ message.type = "ConnectionState" /\ connections'[u].state = "Unavailable"
      BY <2>1 DEF Marked
    <3>2. /\ connections'[u].state = "Connected" => HeardAs(q, u, "State")
          /\ connections'[u].state = "Unavailable" => HeardAs(q, u, "ConnectionState")
      BY <1>3, <2>1, <3>1
    <3> QED
      BY <3>2, Zenon DEF Known
  <2>2. CASE u # t
    <3>1. u \in dashboards[d].bound
      BY <2>2
    <3>2. Eases(u)
      BY <2>2, <3>1 DEF Marked, BoundRegistered, Eases
    <3>3. SaysMore(dashboards[d].outbox, q, u)
      <4>1. SaysMore(dashboards[d].outbox, p, u)
        OBVIOUS
      <4>2. ~IsHeard(q, u, Len(p) + 1)
        BY <1>2, <2>2 DEF IsHeard
      <4>3. \A k \in Indices(p) : IsHeard(q, u, k) => IsHeard(p, u, k)
        BY <1>2, Zenon DEF Extends, IsHeard
      <4>4. Extends(dashboards[d].outbox, q)
        BY <1>2, <4>1 DEF SaysMore, Extends, Indices
      <4> QED
        BY <1>2, <4>1, <4>2, <4>3, <4>4, Zenon DEF SaysMore
    <3>4. Known(dashboards[d], u) => Known(dashboards[d], u)'
      BY <3>2, <3>3, KnownKeeps
    <3> QED
      BY <3>1, <3>4, Zenon
  <2> QED
    BY <2>1, <2>2
<1> QED
  BY <1>4, Zenon DEF Freshens

-----------------------------------------------------------------------------
(* The calls of a dashboard, and those of others.                          *)

LEMMA OutboxOf ==
    ASSUME StreamInv, NEW d \in Dashboards
    PROVE  dashboards[d].outbox \in Seq(Messages)
BY DEF StreamInv, SessionsFit, SessionInv, SessionFits

LEMMA BindFreshens ==
    ASSUME StreamInv, BoundRegistered, NEW d \in Dashboards, NEW t \in Targets, Bind(d, t)
    PROVE  /\ Freshens(d)
           /\ dashboards'[d].bound \subseteq dashboards[d].bound \cup {t}
           /\ t \in Registered /\ Registered' = Registered
<1> DEFINE p == dashboards[d].outbox
<1>1. p \in Seq(Messages) /\ t \notin dashboards[d].bound /\ SessionsFit
  BY OutboxOf, BindOutcomes DEF StreamInv
<1>2. PICK next :
         /\ SessionStep(d, next)
         /\ \/ /\ Marked(t, "Unavailable")
               /\ next.bound = dashboards[d].bound
               /\ next.outbox = p
            \/ /\ Marked(t, "Connected")
               /\ next.bound = dashboards[d].bound \cup {t}
               /\ next.outbox = Append(p, Message("State", t))
  BY BindOutcomes, Zenon
<1>3. dashboards'[d] = next
  BY <1>1, <1>2, SessionStepKeeps
<1>4. /\ t \in Registered /\ Registered' = Registered
      /\ dashboards'[d].bound \subseteq dashboards[d].bound \cup {t}
  BY <1>2, <1>3 DEF Marked, Registered
<1>5. CASE Marked(t, "Unavailable") /\ next.bound = dashboards[d].bound /\ next.outbox = p
  <2>1. \A u \in dashboards'[d].bound : Eases(u)
    BY <1>1, <1>3, <1>5 DEF Marked, BoundRegistered, Eases
  <2>2. \A u : SaysMore(p, dashboards'[d].outbox, u)
    BY <1>1, <1>3, <1>5, SaysLittle
  <2> QED
    BY <1>3, <1>4, <1>5, <2>1, <2>2, QuietFreshens
<1>6. CASE /\ Marked(t, "Connected")
           /\ next.outbox = Append(p, Message("State", t))
  <2> DEFINE message == Message("State", t)
  <2>1. message \in Messages /\ message.type = "State" /\ message.about = t
    BY DEF Message, Messages
  <2> HIDE DEF message
  <2>2. \A u : SaysMore(p, p, u)
    BY <1>1, SaysLittle
  <2>3. dashboards'[d].outbox = Append(p, message)
    BY <1>3, <1>6 DEF message
  <2> QED
    BY <1>1, <1>4, <1>6, <2>1, <2>2, <2>3, ToldFreshens
<1> QED
  BY <1>2, <1>5, <1>6

\* The result of a command, and what is said of its target after it.
LEMMA CommandFreshens ==
    ASSUME StreamInv, BoundRegistered, NEW d \in Dashboards, NEW t \in Targets, Command(d, t)
    PROVE  Freshens(d) /\ dashboards'[d].bound = dashboards[d].bound
<1> DEFINE p == dashboards[d].outbox
           r(about) == Append(p, Message("CommandResult", about))
<1>1. p \in Seq(Messages) /\ SessionsFit /\ SocketInv
  BY OutboxOf DEF StreamInv
<1>2. PICK next :
         /\ SessionStep(d, next)
         /\ next.bound = dashboards[d].bound
         /\ \/ Unanswered(d, next)
            \/ \E about \in Targets \cup {None} : Answered(d, next, about)
            \/ \E about \in Targets :
                  Refreshed(d, next, about) \/ Unrefreshed(d, next, about)
  BY CommandEffect, Zenon
<1>3. dashboards'[d] = next
  BY <1>1, <1>2, SessionStepKeeps
<1>4. ASSUME NEW about \in Targets \cup {None}
      PROVE  /\ WithResult(d, about).outbox = r(about)
             /\ r(about) \in Seq(Messages)
             /\ \A u : SaysMore(p, r(about), u)
  <2> DEFINE message == Message("CommandResult", about)
  <2>1. WithResult(d, about).outbox = Append(p, message)
    BY CommandEffect, ResultKeeps, Zenon
  <2>2. message \in Messages /\ message.type = "CommandResult"
    BY DEF Message, Messages
  <2> HIDE DEF message
  <2>3. Append(p, message) \in Seq(Messages)
    BY <1>1, <2>2, ExtendsOutbox
  <2>4. \A u : SaysMore(p, Append(p, message), u)
    BY <1>1, <2>2, SaysLittle
  <2> QED
    BY <2>1, <2>3, <2>4 DEF message
<1> HIDE DEF r
<1>5. ASSUME \A u \in dashboards'[d].bound : Eases(u) /\ SaysMore(p, next.outbox, u)
      PROVE  Freshens(d)
  BY <1>2, <1>3, <1>5, QuietFreshens
<1>6. ASSUME UNCHANGED registryVars, \A u : SaysMore(p, next.outbox, u)
      PROVE  Freshens(d)
  BY <1>5, <1>6 DEF registryVars, Eases
<1>7. ASSUME Unanswered(d, next)
      PROVE  Freshens(d)
  <2>1. next.outbox = p /\ UNCHANGED registryVars
    BY <1>7, Zenon DEF Unanswered
  <2> QED
    BY <1>1, <1>6, <2>1, SaysLittle
<1>8. ASSUME NEW about \in Targets \cup {None}, Answered(d, next, about)
      PROVE  Freshens(d)
  <2>1. next.outbox = r(about) /\ UNCHANGED registryVars
    BY <1>4, <1>8, Zenon DEF Answered
  <2> QED
    BY <1>4, <1>6, <2>1, Zenon
<1>9. ASSUME NEW about \in Targets, NEW type, NEW state, Marked(about, state),
             \/ type = "State" /\ state = "Connected"
             \/ type = "ConnectionState" /\ state = "Unavailable",
             next.outbox = Append(r(about), Message(type, about))
      PROVE  Freshens(d)
  <2> DEFINE message == Message(type, about)
             said == r(about)
  <2>1. message \in Messages /\ message.type = type /\ message.about = about
    BY <1>9 DEF Message, Messages
  <2>2. said \in Seq(Messages) /\ \A u : SaysMore(p, said, u)
    BY <1>4, Zenon
  <2>3. dashboards'[d].outbox = Append(said, message)
    BY <1>3, <1>9
  <2> HIDE DEF message, said
  <2>4. \/ message.type = "State" /\ Marked(about, "Connected")
        \/ message.type = "ConnectionState" /\ Marked(about, "Unavailable")
    BY <1>9, <2>1
  <2>5. dashboards'[d].bound \subseteq dashboards[d].bound \cup {about}
    BY <1>2, <1>3
  <2> QED
    BY <2>1, <2>2, <2>3, <2>4, <2>5, ToldFreshens
<1>10. ASSUME NEW about \in Targets, Refreshed(d, next, about)
       PROVE  Freshens(d)
  <2>1. Marked(about, "Connected")
    BY <1>1, <1>10, ConnectedEffect, Zenon DEF Refreshed
  <2>2. next.outbox = Append(r(about), Message("State", about))
    BY <1>4, <1>10, Zenon DEF Refreshed
  <2> QED
    BY <1>9, <2>1, <2>2
<1>11. ASSUME NEW about \in Targets, Unrefreshed(d, next, about)
       PROVE  Freshens(d)
  <2>1. Marked(about, "Unavailable")
    <3>1. "ipc_failed" \in Reasons
      BY DEF Reasons
    <3> QED
      BY <1>1, <1>11, <3>1, UnavailableEffect, Zenon DEF Unrefreshed
  <2>2. CASE about \in dashboards[d].bound
    <3>1. next.outbox = Append(r(about), Message("ConnectionState", about))
      BY <1>4, <1>11, <2>2, Zenon DEF Unrefreshed
    <3> QED
      BY <1>9, <2>1, <3>1
  <2>3. CASE about \notin dashboards[d].bound
    <3>1. next.outbox = r(about)
      BY <1>4, <1>11, <2>3, Zenon DEF Unrefreshed
    <3>2. \A u \in dashboards'[d].bound : Eases(u)
      BY <1>2, <1>3, <2>1, <2>3 DEF Marked, BoundRegistered, Eases
    <3>3. \A u : SaysMore(p, next.outbox, u)
      BY <1>4, <3>1, Zenon
    <3> QED
      BY <1>5, <3>2, <3>3
  <2> QED
    BY <2>2, <2>3
<1> QED
  BY <1>2, <1>3, <1>7, <1>8, <1>10, <1>11, Zenon

LEMMA TimeoutFreshens ==
    ASSUME StreamInv, BoundRegistered, NEW d \in Dashboards, NEW t \in Targets,
           ReconnectTimeout(d, t)
    PROVE  /\ Freshens(d)
           /\ dashboards'[d].bound = dashboards[d].bound
           /\ Registered' = Registered
<1> DEFINE p == dashboards[d].outbox
           message == Message("ConnectionState", t)
<1>1. p \in Seq(Messages) /\ SessionsFit /\ SocketInv
  BY OutboxOf DEF StreamInv
<1>2. PICK next : SessionStep(d, next) /\ Passed(d, t, message, next)
  BY TimeoutEffect, Zenon
<1>3. dashboards'[d] = next /\ next.bound = dashboards[d].bound
  BY <1>1, <1>2, SessionStepKeeps DEF Passed
<1>4. Marked(t, "Unavailable") /\ Registered' = Registered
  <2>1. MarkUnavailable(t, "reconnect", clock) /\ UNCHANGED clock /\ "reconnect" \in Reasons
    BY DEF ReconnectTimeout, Reasons
  <2>2. Marked(t, "Unavailable")
    BY <1>1, <2>1, UnavailableEffect
  <2> QED
    BY <2>2 DEF Marked, Registered
<1>5. message \in Messages /\ message.type = "ConnectionState" /\ message.about = t
  BY DEF Message, Messages
<1> HIDE DEF message
<1>6. CASE t \in dashboards[d].bound
  <2>1. dashboards'[d].outbox = Append(p, message)
    BY <1>2, <1>3, <1>6, Zenon DEF Passed
  <2>2. \A u : SaysMore(p, p, u)
    BY <1>1, SaysLittle
  <2>3. dashboards'[d].bound \subseteq dashboards[d].bound \cup {t}
    BY <1>3
  <2>4. Freshens(d)
    BY <1>1, <1>4, <1>5, <2>1, <2>2, <2>3, ToldFreshens
  <2> QED
    BY <1>3, <1>4, <2>4
<1>7. CASE t \notin dashboards[d].bound
  <2>1. dashboards'[d] = dashboards[d]
    BY <1>2, <1>3, <1>7, Zenon DEF Passed
  <2>2. \A u \in dashboards'[d].bound : Eases(u)
    BY <1>4, <1>7, <2>1 DEF Marked, BoundRegistered, Eases
  <2>3. \A u : SaysMore(p, dashboards'[d].outbox, u)
    BY <1>1, <2>1, SaysLittle
  <2>4. Freshens(d)
    BY <2>1, <2>2, <2>3, QuietFreshens
  <2> QED
    BY <1>3, <1>4, <2>4
<1> QED
  BY <1>6, <1>7

\* Events and the other messages of a target leave the registry alone.
LEMMA FanOutFreshens ==
    ASSUME StreamInv, NEW d \in Dashboards, NEW t \in Targets,
           FanOutEvent(d, t) \/ FanOutOther(d, t)
    PROVE  Freshens(d) /\ dashboards'[d].bound = dashboards[d].bound
<1> DEFINE p == dashboards[d].outbox
<1>1. p \in Seq(Messages) /\ SessionsFit
  BY OutboxOf DEF StreamInv
<1>2. PICK next : /\ SessionStep(d, next)
                  /\ next.bound = dashboards[d].bound
                  /\ \A u : SaysMore(p, next.outbox, u)
  <2>1. CASE FanOutEvent(d, t)
    <3>1. PICK next :
             /\ SessionStep(d, next)
             /\ next.bound = dashboards[d].bound
             /\ Extends(p, next.outbox)
             /\ \A k \in Indices(next.outbox) \ Indices(p) :
                   next.outbox[k].type \in {"Event", "DroppedCount"}
      BY <2>1, EventEffect, Zenon
    <3>2. \A u : SaysMore(p, next.outbox, u)
      BY <3>1 DEF SaysMore, IsHeard
    <3> QED
      BY <3>1, <3>2
  <2>2. CASE FanOutOther(d, t)
    <3>1. PICK next, message :
             /\ SessionStep(d, next) /\ Passed(d, t, message, next)
             /\ message \in Messages
             /\ message.type \in {"Payload", "DroppedCount"} /\ message.about = t
      BY <2>2, OtherEffect, Zenon
    <3>2. next.bound = dashboards[d].bound /\ next.outbox \in {p, Append(p, message)}
      BY <3>1 DEF Passed
    <3>3. message.type \notin {"State", "ConnectionState"}
      BY <3>1
    <3>4. \A u : SaysMore(p, next.outbox, u)
      BY <1>1, <3>1, <3>2, <3>3, SaysLittle
    <3> QED
      BY <3>1, <3>2, <3>4
  <2> QED
    BY <2>1, <2>2
<1>3. dashboards'[d] = next
  BY <1>1, <1>2, SessionStepKeeps
<1>4. \A u \in dashboards'[d].bound : Eases(u)
  BY DEF Eases, FanOutEvent, FanOutOther, registryVars
<1> QED
  BY <1>2, <1>3, <1>4, QuietFreshens

\* Its own calls leave a dashboard's targets registered and known.
LEMMA CallFreshens ==
    ASSUME StreamInv, BoundRegistered, NEW d \in Dashboards, NEW t \in Targets,
           StreamCall(d, t)
    PROVE  Freshens(d) /\ BoundRegistered'
<1>1. SocketInv /\ SessionsFit
  BY DEF StreamInv
<1>2. \A e \in Dashboards \ {d} : dashboards'[e].bound = dashboards[e].bound
  <2>1. \E next : SessionStep(d, next)
    BY BindOutcomes, CommandEffect, EventEffect, OtherEffect, TimeoutEffect, Zenon
       DEF StreamCall
  <2> QED
    BY <1>1, <2>1, SessionStepKeeps
<1>3. /\ Freshens(d)
      /\ Registered \subseteq Registered'
      /\ dashboards'[d].bound \subseteq dashboards[d].bound \cup Registered
  <2>1. CASE Bind(d, t)
    BY <2>1, BindFreshens
  <2>2. CASE Command(d, t)
    BY <2>2, CommandFreshens, CommandSockets
  <2>3. CASE FanOutEvent(d, t) \/ FanOutOther(d, t)
    <3>1. UNCHANGED registryVars
      BY <2>3 DEF FanOutEvent, FanOutOther
    <3> QED
      BY <1>1, <2>3, <3>1, FanOutFreshens, RegistryUntouched
  <2>4. CASE ReconnectTimeout(d, t)
    BY <2>4, TimeoutFreshens
  <2> QED
    BY <2>1, <2>2, <2>3, <2>4 DEF StreamCall
<1>4. BoundRegistered'
  <2> SUFFICES ASSUME NEW e \in Dashboards
               PROVE  dashboards'[e].bound \subseteq Registered'
    BY DEF BoundRegistered
  <2>1. dashboards[e].bound \subseteq Registered
    BY DEF BoundRegistered
  <2> QED
    BY <1>2, <1>3, <2>1
<1> QED
  BY <1>3, <1>4

\* So do the handshakes, registrations, sweeps and the passing of time, which are
\* no calls, for every dashboard.
LEMMA OtherwiseFreshens ==
    ASSUME StreamInv, BoundRegistered, [StreamNext]_streamVars,
           ~(\E d \in Dashboards, t \in Targets : StreamCall(d, t))
    PROVE  BoundRegistered' /\ \A d \in Dashboards : Freshens(d)
<1>1. SocketInv /\ SessionsFit
  BY DEF StreamInv
<1>2. /\ Registered \subseteq Registered'
      /\ \A t \in Registered : Eases(t)
  <2>1. CASE Enter
    <3>1. \A t \in Registered : t \in Registered' /\ Eases(t)
      BY <1>1, <2>1, EnterEffect DEF Enter, Eases
    <3> QED
      BY <3>1
  <2>2. CASE Maintain
    <3>1. Registered' = Registered /\ \A t \in Registered : Eases(t)
      BY <1>1, <2>2, MaintainKeeps DEF Eases
    <3> QED
      BY <3>1
  <2>3. CASE UNCHANGED <<registrations, connections>>
    BY <2>3 DEF Eases, Registered
  <2> QED
    BY <2>1, <2>2, <2>3 DEF StreamNext, Tick, Establish, Greet, registryVars, streamVars
<1>3. ASSUME NEW d \in Dashboards
      PROVE  \/ dashboards'[d].bound = {}
             \/ /\ dashboards'[d].bound = dashboards[d].bound
                /\ dashboards'[d].outbox = dashboards[d].outbox
  <2>1. CASE UNCHANGED dashboards
    BY <2>1
  <2>2. ASSUME NEW e \in Dashboards, Establish(e) \/ Greet(e)
        PROVE  \/ dashboards'[d].bound = {}
               \/ /\ dashboards'[d].bound = dashboards[d].bound
                  /\ dashboards'[d].outbox = dashboards[d].outbox
    <3>1. PICK next : /\ SessionStep(e, next)
                      /\ \/ next.bound = {}
                         \/ /\ next.bound = dashboards[e].bound
                            /\ next.outbox = dashboards[e].outbox
      BY <2>2, EstablishEffect, GreetEffect, Zenon
    <3>2. /\ dashboards'[e] = next
          /\ d # e => dashboards'[d] = dashboards[d]
      BY <1>1, <3>1, SessionStepKeeps
    <3> QED
      BY <3>1, <3>2, Zenon
  <2> QED
    BY <2>1, <2>2 DEF StreamNext, Enter, Maintain, streamVars
<1>4. ASSUME NEW d \in Dashboards
      PROVE  Freshens(d)
  <2>1. CASE dashboards'[d].bound = {}
    BY <2>1 DEF Freshens
  <2>2. CASE /\ dashboards'[d].bound = dashboards[d].bound
             /\ dashboards'[d].outbox = dashboards[d].outbox
    <3>1. \A u : SaysMore(dashboards[d].outbox, dashboards'[d].outbox, u)
      BY <2>2, OutboxOf, SaysLittle
    <3>2. \A u \in dashboards'[d].bound : Eases(u)
      BY <1>2, <2>2 DEF BoundRegistered
    <3> QED
      BY <2>2, <3>1, <3>2, QuietFreshens
  <2> QED
    BY <1>3, <2>1, <2>2
<1>5. BoundRegistered'
  BY <1>2, <1>3 DEF BoundRegistered
<1> QED
  BY <1>4, <1>5

\* The places of the property and those of the proofs are the same.
LEMMA KnownIsUpToDate ==
    ASSUME StreamInv
    PROVE  \A d \in Dashboards : \A t : UpToDate(d, t) <=> Known(dashboards[d], t)
<1> SUFFICES ASSUME NEW d \in Dashboards, NEW t
             PROVE  UpToDate(d, t) <=> Known(dashboards[d], t)
  OBVIOUS
<1> DEFINE p == dashboards[d].outbox
<1>1. \A type, i : i \in Places(d, t, type, Len(p))
                       <=> i \in Indices(p) /\ p[i].type = type /\ p[i].about = t
  BY DEF Places, Indices
<1>2. ASSUME NEW type \in {"State", "ConnectionState"}
      PROVE  HeardLast(d, t, type) <=> HeardAs(p, t, type)
  <2>1. HeardLast(d, t, type) <=>
            \E i \in Places(d, t, type, Len(p)) :
                \A other \in {"State", "ConnectionState"} :
                    \A k \in Places(d, t, other, Len(p)) : k <= i
    BY DEF HeardLast
  <2> HIDE DEF p
  <2> QED
    BY <1>1, <2>1 DEF HeardAs, IsHeard
<1> QED
  BY <1>2 DEF UpToDate, Known

\* Whatever is done for a dashboard that changes the registry's word on a target, or
\* on one that an answer names, tells the dashboard: what it was told last goes out
\* of date only through a call for another one, for any number of dashboards
\* (bind_target, handle_command, reconnect_timeout).
THEOREM StreamsOutdatedByOthers ==
    StreamSpec => OutdatedByOthersOnly
<1>0. StreamInv => \A d \in Dashboards : \A t : UpToDate(d, t) <=> Known(dashboards[d], t)
  BY KnownIsUpToDate
<1>1. StreamInv' => (\A d \in Dashboards : \A t : UpToDate(d, t) <=> Known(dashboards[d], t))'
  BY <1>0, PTL
<1>2. StreamInit => BoundRegistered
  BY DEF StreamInit, unauthenticated, BoundRegistered
<1>3. StreamInv /\ BoundRegistered /\ [StreamNext]_streamVars => BoundRegistered'
  BY CallFreshens, OtherwiseFreshens
<1>4. StreamInv /\ StreamInv' /\ BoundRegistered /\ [StreamNext]_streamVars
          => \A d \in Dashboards : \A t \in dashboards'[d].bound :
                 \/ UpToDate(d, t)'
                 \/ t \in dashboards[d].bound /\ ~UpToDate(d, t)
                 \/ \E other \in Dashboards \ {d}, u \in Targets : StreamCall(other, u)
  <2> SUFFICES ASSUME StreamInv, StreamInv', BoundRegistered, [StreamNext]_streamVars,
                      NEW d \in Dashboards, NEW t \in dashboards'[d].bound,
                      ~(\E other \in Dashboards \ {d}, u \in Targets : StreamCall(other, u))
               PROVE  UpToDate(d, t)' \/ (t \in dashboards[d].bound /\ ~UpToDate(d, t))
    BY Zenon
  <2>1. Freshens(d)
    BY CallFreshens, OtherwiseFreshens
  <2>2. Known(dashboards[d], t)' => UpToDate(d, t)'
    BY <1>1, Zenon
  <2>3. UpToDate(d, t) => Known(dashboards[d], t)
    BY <1>0
  <2> QED
    BY <2>1, <2>2, <2>3, Zenon DEF Freshens
<1> QED
  BY <1>2, <1>3, <1>4, StreamInvariant, PTL DEF StreamSpec, OutdatedByOthersOnly
=============================================================================
