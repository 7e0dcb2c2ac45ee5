-------------------------- MODULE FairRwLockProofs --------------------------
(***************************************************************************)
(* Facts about the line of a fair lock, whatever the tickets are: a ticket *)
(* stands in it once, joining puts one more ticket in, serving the head or *)
(* leaving takes one out, and nobody overtakes.  The proofs about the      *)
(* users of the lock rest on them.                                         *)
(***************************************************************************)
EXTENDS FairRwLock, Functions, TLAPS

\* The lines of tickets from S in which no ticket stands twice.
Lines(S) == {line \in Seq(S) : IsInjective(line)}

\* a stands before b.
Before(line, a, b) ==
    \E i, j \in DOMAIN line : i < j /\ line[i] = a /\ line[j] = b

\* Nobody who stays has got somebody new before him.
KeepsOrder(line, next) ==
    \A a, b \in Range(line) \cap Range(next) : Before(next, a, b) => Before(line, a, b)

\* An empty line.
LEMMA EmptyLine == ASSUME NEW S PROVE <<>> \in Lines(S) /\ Range(<<>>) = {}
BY DEF Lines, IsInjective, Range

\* Joining the line: the ticket stands at its end.
LEMMA JoinLine ==
    ASSUME NEW S, NEW line \in Lines(S), NEW t \in S, t \notin Range(line)
    PROVE  /\ Append(line, t) \in Lines(S)
           /\ Range(Append(line, t)) = Range(line) \cup {t}
           /\ KeepsOrder(line, Append(line, t))
<1> DEFINE next == Append(line, t)
<1>1. /\ line \in Seq(S) /\ Len(line) \in Nat /\ next \in Seq(S)
      /\ DOMAIN line = 1 .. Len(line) /\ DOMAIN next = 1 .. Len(line) + 1
      /\ \A i \in 1 .. Len(line) : next[i] = line[i]
      /\ next[Len(line) + 1] = t
  BY DEF Lines
<1>2. \A i, j \in DOMAIN line : line[i] = line[j] => i = j
  BY DEF Lines, IsInjective
<1>3. \A i \in DOMAIN line : line[i] # t
  BY DEF Range
<1> HIDE DEF next
<1>4. \A i \in DOMAIN next : i \in DOMAIN line \/ i = Len(line) + 1
  BY <1>1
<1>5. IsInjective(next)
  BY <1>1, <1>2, <1>3, <1>4 DEF IsInjective
<1>6. Range(next) = Range(line) \cup {t}
  <2>1. Range(next) \subseteq Range(line) \cup {t}
    BY <1>1, <1>4 DEF Range
  <2>2. Range(line) \subseteq Range(next)
    BY <1>1 DEF Range
  <2>3. Len(line) + 1 \in DOMAIN next
    BY <1>1
  <2>4. t \in Range(next)
    BY <1>1, <2>3 DEF Range
  <2> QED BY <2>1, <2>2, <2>4
<1>7. ASSUME NEW a \in Range(line), NEW b \in Range(line), Before(next, a, b)
      PROVE  Before(line, a, b)
  <2>1. PICK i \in DOMAIN next, j \in DOMAIN next : i < j /\ next[i] = a /\ next[j] = b
    BY <1>7 DEF Before
  <2>2. i \in DOMAIN line /\ j \in DOMAIN line
    BY <1>1, <1>3, <1>4, <2>1 DEF Range
  <2> QED BY <1>1, <2>1, <2>2 DEF Before
<1> QED BY <1>1, <1>5, <1>6, <1>7 DEF Lines, KeepsOrder, next

\* Serving the head of the line.
LEMMA ServeLine ==
    ASSUME NEW S, NEW line \in Lines(S), line # <<>>
    PROVE  /\ Tail(line) \in Lines(S)
           /\ Head(line) \in Range(line)
           /\ Range(Tail(line)) = Range(line) \ {Head(line)}
           /\ KeepsOrder(line, Tail(line))
<1> DEFINE next == Tail(line)
<1>1. /\ line \in Seq(S) /\ Len(line) \in Nat /\ Len(line) > 0 /\ next \in Seq(S)
      /\ DOMAIN line = 1 .. Len(line) /\ DOMAIN next = 1 .. Len(line) - 1
      /\ \A i \in 1 .. Len(line) - 1 : next[i] = line[i + 1]
      /\ Head(line) = line[1]
  BY DEF Lines
<1>2. \A i, j \in DOMAIN line : line[i] = line[j] => i = j
  BY DEF Lines, IsInjective
<1> HIDE DEF next
<1>3. \A i \in DOMAIN next : i + 1 \in DOMAIN line /\ next[i] = line[i + 1] /\ i + 1 # 1
  BY <1>1
<1>4. IsInjective(next)
  <2> SUFFICES ASSUME NEW i \in DOMAIN next, NEW j \in DOMAIN next, next[i] = next[j]
               PROVE  i = j
    BY DEF IsInjective
  <2>1. i + 1 = j + 1
    BY <1>2, <1>3
  <2> QED BY <1>1, <2>1
<1>5. 1 \in DOMAIN line /\ Head(line) \in Range(line)
  BY <1>1 DEF Range
<1>6. Range(next) = Range(line) \ {Head(line)}
  <2>1. Range(next) \subseteq Range(line) \ {Head(line)}
    BY <1>1, <1>2, <1>3, <1>5 DEF Range
  <2>2. ASSUME NEW i \in DOMAIN line, i # 1 PROVE line[i] \in Range(next)
    <3>1. i - 1 \in DOMAIN next /\ next[i - 1] = line[i]
      BY <1>1, <2>2
    <3> QED BY <3>1 DEF Range
  <2>3. Range(line) \ {Head(line)} \subseteq Range(next)
    BY <1>1, <2>2 DEF Range
  <2> QED BY <2>1, <2>3
<1>7. ASSUME NEW a, NEW b, Before(next, a, b) PROVE Before(line, a, b)
  <2>1. PICK i \in DOMAIN next, j \in DOMAIN next : i < j /\ next[i] = a /\ next[j] = b
    BY <1>7 DEF Before
  <2>2. i + 1 < j + 1
    BY <1>1, <2>1
  <2> QED BY <1>3, <2>1, <2>2 DEF Before
<1> QED BY <1>1, <1>4, <1>5, <1>6, <1>7 DEF Lines, KeepsOrder, next

\* Leaving the line, from anywhere in it or from outside.
LEMMA LeaveLine ==
    ASSUME NEW S, NEW line \in Lines(S), NEW t
    PROVE  /\ Without(line, t) \in Lines(S)
           /\ Range(Without(line, t)) = Range(line) \ {t}
           /\ KeepsOrder(line, Without(line, t))
<1> DEFINE places == {i \in DOMAIN line : line[i] = t}
           place  == CHOOSE i \in places : TRUE
           next   == Without(line, t)
           Old(i) == IF i < place THEN i ELSE i + 1
<1>1. /\ line \in Seq(S) /\ Len(line) \in Nat /\ DOMAIN line = 1 .. Len(line)
      /\ \A i \in DOMAIN line : line[i] \in S
  BY DEF Lines
<1>2. \A i, j \in DOMAIN line : line[i] = line[j] => i = j
  BY DEF Lines, IsInjective
<1>3. CASE places = {}
  <2>1. next = line
    BY <1>3 DEF Without
  <2>2. t \notin Range(line)
    BY <1>3 DEF Range
  <2> QED BY <2>1, <2>2 DEF KeepsOrder
<1>4. CASE places # {}
  <2>1. place \in DOMAIN line /\ line[place] = t
    BY <1>4
  <2>2. next = [i \in 1 .. Len(line) - 1 |-> line[Old(i)]]
    BY <1>4 DEF Without
  <2> HIDE DEF place, places, next
  <2>3. \A i \in 1 .. Len(line) - 1 : Old(i) \in DOMAIN line /\ Old(i) # place
    BY <1>1, <2>1
  <2>4. \A i, j \in 1 .. Len(line) - 1 : Old(i) = Old(j) => i = j
    BY <1>1, <2>1
  <2>5. \A i, j \in 1 .. Len(line) - 1 : i < j => Old(i) < Old(j)
    BY <1>1, <2>1
  <2>6. \A j \in DOMAIN line : j # place => \E i \in 1 .. Len(line) - 1 : Old(i) = j
    <3> SUFFICES ASSUME NEW j \in DOMAIN line, j # place
                 PROVE  \E i \in 1 .. Len(line) - 1 : Old(i) = j
      OBVIOUS
    <3>1. CASE j < place
      <4>1. j \in 1 .. Len(line) - 1 /\ Old(j) = j
        BY <1>1, <2>1, <3>1
      <4> QED BY <4>1
    <3>2. CASE j > place
      <4>1. j - 1 \in 1 .. Len(line) - 1 /\ Old(j - 1) = j
        BY <1>1, <2>1, <3>2
      <4> QED BY <4>1
    <3> QED BY <1>1, <2>1, <3>1, <3>2
  <2> HIDE DEF Old
  <2>7. /\ DOMAIN next = 1 .. Len(line) - 1
        /\ \A i \in DOMAIN next : next[i] = line[Old(i)]
    BY <2>2
  <2>8. next \in Seq(S)
    <3>1. Len(line) - 1 \in Nat
      BY <1>1, <2>1
    <3>2. \A i \in 1 .. Len(line) - 1 : line[Old(i)] \in S
      BY <1>1, <2>3
    <3> QED BY <2>2, <3>1, <3>2
  <2>9. IsInjective(next)
    BY <1>2, <2>3, <2>4, <2>7 DEF IsInjective
  <2>10. Range(next) \subseteq Range(line) \ {t}
    BY <1>2, <2>1, <2>3, <2>7 DEF Range
  <2>11. Range(line) \ {t} \subseteq Range(next)
    BY <2>1, <2>6, <2>7 DEF Range
  <2>12. ASSUME NEW a, NEW b, Before(next, a, b) PROVE Before(line, a, b)
    <3>1. PICK i \in DOMAIN next, j \in DOMAIN next :
             i < j /\ next[i] = a /\ next[j] = b
      BY <2>12 DEF Before
    <3> QED BY <2>3, <2>5, <2>7, <3>1 DEF Before
  <2> QED BY <2>8, <2>9, <2>10, <2>11, <2>12 DEF Lines, KeepsOrder, next
<1> QED BY <1>3, <1>4

\* A line with somebody in it has a head; and a lock that nobody holds can be
\* handed to it.
LEMMA HeadIsServed ==
    ASSUME NEW S, waiters \in Lines(S), NEW t \in Range(waiters)
    PROVE  /\ waiters # <<>> /\ Head(waiters) \in Range(waiters)
           /\ guards = {} => Grantable(Head(waiters))
<1>1. waiters # <<>>
  BY DEF Range
<1> QED BY <1>1, ServeLine DEF Grantable, Compatible
=============================================================================
