------------------------- MODULE TailQueues_proofs -------------------------
(* What the queue operations of TailQueues keep, add and take away.        *)
EXTENDS TailQueues, TLAPS

\* Taking the k-th element from a queue shifts the ones behind it forward.
LEMMA RemoveAtFacts ==
    ASSUME NEW S, NEW q \in Seq(S), NEW k \in DOMAIN q
    PROVE  LET r == SubSeq(q, 1, k - 1) \o SubSeq(q, k + 1, Len(q))
           IN  /\ r \in Seq(S)
               /\ Len(r) = Len(q) - 1
               /\ \A i \in 1..(Len(q) - 1) : r[i] = IF i < k THEN q[i] ELSE q[i + 1]
<1> DEFINE a == SubSeq(q, 1, k - 1)
           b == SubSeq(q, k + 1, Len(q))
           r == a \o b
<1>1. Len(q) \in Nat /\ k \in 1..Len(q) /\ DOMAIN q = 1..Len(q)
  OBVIOUS
<1>2. a \in Seq(S) /\ Len(a) = k - 1 /\ \A i \in 1..(k - 1) : a[i] = q[i]
  BY <1>1
<1>3. b \in Seq(S) /\ Len(b) = Len(q) - k /\ \A i \in 1..(Len(q) - k) : b[i] = q[k + i]
  BY <1>1
<1> HIDE DEF a, b
<1>4. r \in Seq(S) /\ Len(r) = Len(q) - 1
  <2>1. a \in Seq(S) /\ b \in Seq(S)
    BY <1>2, <1>3
  <2>2. r \in Seq(S)
    BY <2>1
  <2>3. Len(r) = Len(a) + Len(b)
    BY <2>1
  <2> QED
    BY <1>1, <1>2, <1>3, <2>2, <2>3
<1>5. ASSUME NEW i \in 1..(Len(q) - 1)
      PROVE  r[i] = IF i < k THEN q[i] ELSE q[i + 1]
  <2>1. CASE i < k
    BY <1>1, <1>2, <1>3, <2>1
  <2>2. CASE ~(i < k)
    <3>1. i - Len(a) \in 1..Len(b) /\ k + (i - Len(a)) = i + 1
      BY <1>1, <1>2, <1>3, <2>2
    <3>2. r[i] = b[i - Len(a)]
      BY <1>1, <1>2, <1>3, <2>2, <3>1
    <3> QED
      BY <1>1, <1>3, <2>2, <3>1, <3>2
  <2> QED
    BY <2>1, <2>2
<1> QED
  BY <1>4, <1>5 DEF a, b

\* UK_TAILQ_REMOVE takes out the thread, keeps the others and adds none.
LEMMA RemoveFacts ==
    ASSUME NEW S, NEW q \in Seq(S), NEW t, NoDuplicates(q)
    PROVE  /\ UK_TAILQ_REMOVE(q, t) \in Seq(S)
           /\ NoDuplicates(UK_TAILQ_REMOVE(q, t))
           /\ \A u : On(UK_TAILQ_REMOVE(q, t), u) <=> On(q, u) /\ u # t
<1> DEFINE r == UK_TAILQ_REMOVE(q, t)
<1>1. CASE ~On(q, t)
  BY <1>1 DEF UK_TAILQ_REMOVE, On
<1>2. CASE On(q, t)
  <2> DEFINE k == CHOOSE i \in DOMAIN q : q[i] = t
  <2>1. k \in DOMAIN q /\ q[k] = t
    BY <1>2 DEF On
  <2>2. r = SubSeq(q, 1, k - 1) \o SubSeq(q, k + 1, Len(q))
    BY <1>2 DEF UK_TAILQ_REMOVE
  <2> HIDE DEF k, r
  <2>3. /\ r \in Seq(S) /\ Len(r) = Len(q) - 1
        /\ \A i \in 1..(Len(q) - 1) : r[i] = IF i < k THEN q[i] ELSE q[i + 1]
    BY <2>1, <2>2, RemoveAtFacts
  <2>4. DOMAIN q = 1..Len(q) /\ DOMAIN r = 1..(Len(q) - 1) /\ Len(q) \in Nat /\ k \in 1..Len(q)
    BY <2>1, <2>3
  <2>5. NoDuplicates(r)
    <3> SUFFICES ASSUME NEW i \in DOMAIN r, NEW j \in DOMAIN r, r[i] = r[j] PROVE i = j
      BY DEF NoDuplicates
    <3>1. \A x, y \in 1..Len(q) : q[x] = q[y] => x = y
      BY <2>4 DEF NoDuplicates
    <3> QED
      BY <2>3, <2>4, <3>1
  <2>6. ASSUME NEW u PROVE On(r, u) <=> On(q, u) /\ u # t
    <3>1. ASSUME On(r, u) PROVE On(q, u) /\ u # t
      <4>1. PICK i \in DOMAIN r : r[i] = u
        BY <3>1 DEF On
      <4>2. PICK j \in 1..Len(q) : j # k /\ q[j] = u
        BY <2>3, <2>4, <4>1
      <4> QED
        BY <2>1, <2>4, <4>2 DEF On, NoDuplicates
    <3>2. ASSUME On(q, u), u # t PROVE On(r, u)
      <4>1. PICK j \in 1..Len(q) : q[j] = u
        BY <2>4, <3>2 DEF On
      <4>2. j # k
        BY <2>1, <4>1, <3>2
      <4>3. CASE j < k
        BY <2>3, <2>4, <4>1, <4>3 DEF On
      <4>4. CASE j > k
        <5>1. j - 1 \in DOMAIN r /\ r[j - 1] = q[j]
          BY <2>3, <2>4, <4>4
        <5> QED
          BY <4>1, <5>1 DEF On
      <4> QED
        BY <2>4, <4>2, <4>3, <4>4
    <3> QED
      BY <3>1, <3>2
  <2> QED
    BY <2>3, <2>5, <2>6 DEF r
<1> QED
  BY <1>1, <1>2

\* UK_TAILQ_INSERT_TAIL adds the thread and keeps the others.
LEMMA AppendFacts ==
    ASSUME NEW S, NEW q \in Seq(S), NEW t \in S
    PROVE  /\ Append(q, t) \in Seq(S)
           /\ NoDuplicates(q) /\ ~On(q, t) => NoDuplicates(Append(q, t))
           /\ \A u : On(Append(q, t), u) <=> On(q, u) \/ u = t
<1>1. /\ Append(q, t) \in Seq(S) /\ Len(q) \in Nat /\ DOMAIN q = 1..Len(q)
      /\ DOMAIN Append(q, t) = 1..(Len(q) + 1)
      /\ \A i \in 1..Len(q) : Append(q, t)[i] = q[i]
      /\ Append(q, t)[Len(q) + 1] = t
  OBVIOUS
<1>2. ASSUME NoDuplicates(q), ~On(q, t) PROVE NoDuplicates(Append(q, t))
  BY <1>1, <1>2 DEF NoDuplicates, On
<1>3. ASSUME NEW u PROVE On(Append(q, t), u) <=> On(q, u) \/ u = t
  BY <1>1 DEF On
<1> QED
  BY <1>1, <1>2, <1>3

\* Taking the head of a queue.
LEMMA TailFacts ==
    ASSUME NEW S, NEW q \in Seq(S), q # <<>>, NoDuplicates(q)
    PROVE  /\ Tail(q) \in Seq(S)
           /\ NoDuplicates(Tail(q))
           /\ Head(q) \in S
           /\ On(q, Head(q))
           /\ \A u : On(Tail(q), u) <=> On(q, u) /\ u # Head(q)
<1>1. /\ Tail(q) \in Seq(S) /\ Len(q) \in Nat \ {0} /\ DOMAIN q = 1..Len(q)
      /\ DOMAIN Tail(q) = 1..(Len(q) - 1)
      /\ \A i \in 1..(Len(q) - 1) : Tail(q)[i] = q[i + 1]
      /\ Head(q) = q[1] /\ q[1] \in S
  OBVIOUS
<1>2. NoDuplicates(Tail(q))
  BY <1>1 DEF NoDuplicates
<1>3. On(q, Head(q))
  BY <1>1 DEF On
<1>4. ASSUME NEW u PROVE On(Tail(q), u) <=> On(q, u) /\ u # Head(q)
  <2>1. ASSUME On(Tail(q), u) PROVE On(q, u) /\ u # Head(q)
    BY <1>1, <2>1 DEF On, NoDuplicates
  <2>2. ASSUME On(q, u), u # Head(q) PROVE On(Tail(q), u)
    <3>1. PICK i \in 1..Len(q) : q[i] = u
      BY <1>1, <2>2 DEF On
    <3>2. i - 1 \in DOMAIN Tail(q) /\ Tail(q)[i - 1] = q[i]
      BY <1>1, <2>2, <3>1
    <3> QED
      BY <3>1, <3>2 DEF On
  <2> QED
    BY <2>1, <2>2
<1> QED
  BY <1>1, <1>2, <1>3, <1>4
-----------------------------------------------------------------------------
\* Nobody who is on both queues is further back on the second
NoneMovesBack(q, r) == \A i \in DOMAIN q, j \in DOMAIN r : q[i] = r[j] => j <= i

\* Taking an element out of a queue moves nobody back.
LEMMA RemoveMovesUp ==
    ASSUME NEW S, NEW q \in Seq(S), NEW t, NoDuplicates(q)
    PROVE  NoneMovesBack(q, UK_TAILQ_REMOVE(q, t))
<1> DEFINE r == UK_TAILQ_REMOVE(q, t)
<1>1. DOMAIN q = 1..Len(q) /\ Len(q) \in Nat /\ \A i, j \in 1..Len(q) : q[i] = q[j] => i = j
  BY DEF NoDuplicates
<1>2. CASE ~On(q, t)
  BY <1>1, <1>2 DEF UK_TAILQ_REMOVE, NoneMovesBack
<1>3. CASE On(q, t)
  <2> DEFINE k == CHOOSE i \in DOMAIN q : q[i] = t
  <2>1. k \in DOMAIN q
    BY <1>3 DEF On
  <2>2. r = SubSeq(q, 1, k - 1) \o SubSeq(q, k + 1, Len(q))
    BY <1>3 DEF UK_TAILQ_REMOVE
  <2> HIDE DEF k, r
  <2>3. /\ r \in Seq(S) /\ Len(r) = Len(q) - 1
        /\ \A i \in 1..(Len(q) - 1) : r[i] = IF i < k THEN q[i] ELSE q[i + 1]
    BY <2>1, <2>2, RemoveAtFacts
  <2>4. DOMAIN r = 1..(Len(q) - 1)
    BY <1>1, <2>3
  <2>5. ASSUME NEW i \in 1..Len(q), NEW j \in 1..(Len(q) - 1), q[i] = r[j]
        PROVE  j <= i
    BY <1>1, <2>1, <2>3, <2>5
  <2>6. NoneMovesBack(q, r)
    BY <1>1, <2>4, <2>5 DEF NoneMovesBack
  <2> QED
    BY <2>6 DEF r
<1> QED
  BY <1>2, <1>3

\* Neither does adding one that is not on it.
LEMMA AppendMovesUp ==
    ASSUME NEW S, NEW q \in Seq(S), NEW t \in S, NoDuplicates(q), ~On(q, t)
    PROVE  NoneMovesBack(q, Append(q, t))
<1>1. /\ Len(q) \in Nat /\ DOMAIN q = 1..Len(q) /\ DOMAIN Append(q, t) = 1..(Len(q) + 1)
      /\ \A i \in 1..Len(q) : Append(q, t)[i] = q[i]
      /\ Append(q, t)[Len(q) + 1] = t
  OBVIOUS
<1> QED
  BY <1>1 DEF NoneMovesBack, NoDuplicates, On

\* Nor does taking the head, also when the one who had the CPU goes to the tail.
LEMMA TailMovesUp ==
    ASSUME NEW S, NEW q \in Seq(S), q # <<>>, NoDuplicates(q)
    PROVE  /\ NoneMovesBack(q, Tail(q))
           /\ \A t \in S : ~On(q, t) => NoneMovesBack(q, Append(Tail(q), t))
<1>1. /\ Tail(q) \in Seq(S) /\ Len(q) \in Nat \ {0} /\ DOMAIN q = 1..Len(q)
      /\ DOMAIN Tail(q) = 1..(Len(q) - 1)
      /\ \A i \in 1..(Len(q) - 1) : Tail(q)[i] = q[i + 1]
  OBVIOUS
<1>2. NoneMovesBack(q, Tail(q))
  BY <1>1 DEF NoneMovesBack, NoDuplicates
<1>3. ASSUME NEW t \in S, ~On(q, t) PROVE NoneMovesBack(q, Append(Tail(q), t))
  <2>1. /\ DOMAIN Append(Tail(q), t) = 1..Len(q) /\ Append(Tail(q), t)[Len(q)] = t
        /\ \A i \in 1..(Len(q) - 1) : Append(Tail(q), t)[i] = q[i + 1]
    BY <1>1
  <2> QED
    BY <1>1, <1>3, <2>1 DEF NoneMovesBack, NoDuplicates, On
<1> QED
  BY <1>2, <1>3
=============================================================================
