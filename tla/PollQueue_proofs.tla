-------------------------- MODULE PollQueue_proofs --------------------------
(***************************************************************************)
(* No ticket dangles, the links lead to every ticket and end at waitend,   *)
(* and no event is missed, for any number of pollers, setters and events.  *)
(***************************************************************************)
EXTENDS PollQueue, TailQueues_proofs

\* A list w is the list q with the tickets at the positions ps only: neighbours in
\* it have nothing that is kept between them in q.
Kept(w, q, ps) ==
    /\ w \in Seq(Pollers) /\ NoDuplicates(w)
    /\ \A u : On(w, u) <=> \E i \in ps : q[i] = u
    /\ \A k \in DOMAIN w : \E b \in ps :
          /\ w[k] = q[b]
          /\ k = 1 => \A i \in ps : b <= i
          /\ k # 1 => \E a \in ps : w[k - 1] = q[a] /\ a < b /\ \A i \in ps : i <= a \/ b <= i
    /\ IF w = <<>> THEN ps = {} ELSE \E b \in ps : TailOf(w) = q[b] /\ \A i \in ps : i <= b

\* The proofs of the steps assume it; it is proved where everything comes together
Keeping ==
    \A q \in Seq(Pollers) : \A ps \in SUBSET DOMAIN q :
        NoDuplicates(q) => Kept(Keep(q, ps), q, ps)

\* The links are those of the list, and end at waitend.
Chain == /\ waitend = TailOf(wait) /\ next[waitend] = NoTicket
         /\ \A i \in DOMAIN wait : next[PrevOf(i)] = wait[i]

\* Every place of the list has a link of its own, and the tail is none of them.
LEMMA Links ==
    ASSUME wait \in Seq(Pollers), NoDuplicates(wait)
    PROVE  /\ TailOf(wait) \in Pollers \cup {ListHead}
           /\ TailOf(wait) = IF wait = <<>> THEN ListHead ELSE wait[Len(wait)]
           /\ \A i \in DOMAIN wait : PrevOf(i) \in Pollers \cup {ListHead} /\ PrevOf(i) # TailOf(wait)
           /\ \A i, j \in DOMAIN wait : PrevOf(i) = PrevOf(j) => i = j
<1>1. \A i \in DOMAIN wait : i \in Nat \ {0} /\ i <= Len(wait) /\ (i # 1 => i - 1 \in DOMAIN wait)
  OBVIOUS
<1>2. /\ \A i \in DOMAIN wait : wait[i] \in Pollers /\ wait[i] # ListHead
      /\ wait # <<>> => Len(wait) \in DOMAIN wait
  BY PollQueueAssumption
<1>3. \A i, j \in DOMAIN wait : wait[i] = wait[j] => i = j
  BY DEF NoDuplicates
<1>4. TailOf(wait) = IF wait = <<>> THEN ListHead ELSE wait[Len(wait)]
  BY DEF TailOf
<1>5. \A i \in DOMAIN wait : PrevOf(i) \in Pollers \cup {ListHead} /\ PrevOf(i) # TailOf(wait)
  <2> TAKE i \in DOMAIN wait
  <2>1. wait # <<>> /\ TailOf(wait) = wait[Len(wait)] /\ Len(wait) \in DOMAIN wait
    BY <1>2, <1>4
  <2>2. CASE i = 1
    BY <1>2, <2>1, <2>2 DEF PrevOf
  <2>3. CASE i # 1
    <3>1. i - 1 \in DOMAIN wait /\ i - 1 # Len(wait) /\ PrevOf(i) = wait[i - 1]
      BY <1>1, <2>3 DEF PrevOf
    <3> QED
      BY <1>2, <1>3, <2>1, <3>1
  <2> QED
    BY <2>2, <2>3
<1>6. ASSUME NEW i \in DOMAIN wait, NEW j \in DOMAIN wait, PrevOf(i) = PrevOf(j) PROVE i = j
  <2>1. CASE i # 1 /\ j # 1
    <3>1. i - 1 \in DOMAIN wait /\ j - 1 \in DOMAIN wait /\ wait[i - 1] = wait[j - 1]
      BY <1>1, <1>6, <2>1 DEF PrevOf
    <3>2. i - 1 = j - 1
      BY <1>3, <3>1
    <3> QED
      BY <1>1, <3>2
  <2>2. CASE i = 1 \/ j = 1
    BY <1>1, <1>2, <1>6, <2>2 DEF PrevOf
  <2> QED
    BY <2>1, <2>2
<1> QED
  BY <1>2, <1>4, <1>5, <1>6

\* Unlinking tickets that are no neighbours leaves the others on the list, and links
\* that lead to them and end at waitend.
LEMMA Unlinks ==
    ASSUME Keeping, wait \in Seq(Pollers), NoDuplicates(wait), Chain,
           next \in [Pollers \cup {ListHead} -> Pollers \cup {NoTicket}],
           NEW ps \in SUBSET DOMAIN wait, \A i \in ps : i - 1 \notin ps, Unlink(ps)
    PROVE  /\ wait' \in Seq(Pollers) /\ NoDuplicates(wait)' /\ Chain'
           /\ waitend' \in Pollers \cup {ListHead} /\ tail' = tail
           /\ next' \in [Pollers \cup {ListHead} -> Pollers \cup {NoTicket}]
           /\ \A u : OnList(u)' <=> OnList(u) /\ \A i \in ps : wait[i] # u
<1> DEFINE kept == DOMAIN wait \ ps
           gone == {wait[i] : i \in ps}
           ends == {i \in ps : next[wait[i]] = NoTicket}
           n == Len(wait)
<1>1. /\ kept \in SUBSET DOMAIN wait /\ wait' = Keep(wait, kept) /\ tail' = tail
      /\ next' = [x \in DOMAIN next |-> CASE x \in gone -> NoTicket
                                          [] x \notin gone /\ next[x] \in gone -> next[next[x]]
                                          [] OTHER -> next[x]]
      /\ waitend' = IF ends = {} THEN waitend ELSE PrevOf(CHOOSE i \in ends : TRUE)
  BY DEF Unlink, SkipLinks
<1>2. /\ \A i \in DOMAIN wait : i \in kept <=> i \notin ps
      /\ \A x : x \in gone <=> \E i \in ps : wait[i] = x
      /\ \A i : i \in ends <=> i \in ps /\ next[wait[i]] = NoTicket
      /\ n \in Nat /\ DOMAIN wait = 1..n
      /\ wait = <<>> <=> n = 0
  OBVIOUS
<1>3. \A u : (\E i \in kept : wait[i] = u) <=> OnList(u) /\ \A i \in ps : wait[i] # u
  BY DEF OnList, On, NoDuplicates
<1> HIDE DEF kept, gone, ends, n
<1>4. /\ wait' \in Seq(Pollers) /\ NoDuplicates(wait')
      /\ \A u : On(wait', u) <=> \E i \in kept : wait[i] = u
      /\ \A k \in DOMAIN wait' : \E b \in kept :
            /\ wait'[k] = wait[b]
            /\ k = 1 => \A i \in kept : b <= i
            /\ k # 1 => \E a \in kept : /\ wait'[k - 1] = wait[a]
                                       /\ a < b /\ \A i \in kept : i <= a \/ b <= i
      /\ IF wait' = <<>> THEN kept = {}
         ELSE \E b \in kept : TailOf(wait') = wait[b] /\ \A i \in kept : i <= b
  <2>1. Kept(Keep(wait, kept), wait, kept)
    BY <1>1 DEF Keeping
  <2>2. Kept(wait', wait, kept)
    BY <1>1, <2>1, Zenon
  <2> QED
    BY <2>2, Zenon DEF Kept
<1>5. /\ \A i \in DOMAIN wait : wait[i] \in Pollers /\ wait[i] # ListHead /\ wait[i] # NoTicket
      /\ \A i, j \in DOMAIN wait : wait[i] = wait[j] => i = j
      /\ \A i \in kept : wait[i] \notin gone
      /\ ListHead \notin gone /\ NoTicket \notin gone
  <2>1. \A i \in DOMAIN wait : wait[i] \in Pollers /\ wait[i] # ListHead /\ wait[i] # NoTicket
    BY PollQueueAssumption
  <2>2. \A i, j \in DOMAIN wait : wait[i] = wait[j] => i = j
    BY DEF NoDuplicates
  <2> QED
    BY <1>1, <1>2, <2>1, <2>2
<1>6. /\ \A i \in DOMAIN wait : next[PrevOf(i)] = wait[i]
      /\ PrevOf(1) = ListHead /\ \A i \in DOMAIN wait : i # 1 => PrevOf(i) = wait[i - 1]
  BY DEF Chain, PrevOf
<1>7. \A x \in Pollers \cup {ListHead} :
         /\ x \in gone => next'[x] = NoTicket
         /\ x \notin gone /\ next[x] \in gone => next'[x] = next[next[x]]
         /\ x \notin gone /\ next[x] \notin gone => next'[x] = next[x]
  <2>1. DOMAIN next = Pollers \cup {ListHead}
    OBVIOUS
  <2> QED
    BY <1>1, <2>1
<1>8. next' \in [Pollers \cup {ListHead} -> Pollers \cup {NoTicket}]
  <2>1. \A x \in gone : x \in Pollers
    BY <1>2, <1>5
  <2>2. \A x \in Pollers \cup {ListHead} : next'[x] \in Pollers \cup {NoTicket}
    BY <1>7, <2>1
  <2>3. DOMAIN next = Pollers \cup {ListHead} /\ next' = [x \in DOMAIN next |-> next'[x]]
    BY <1>1
  <2> QED
    BY <2>2, <2>3
<1> DEFINE Before(k) == IF k = 1 THEN ListHead ELSE wait'[k - 1]
<1>9. ASSUME NEW k \in DOMAIN wait' PROVE next'[Before(k)] = wait'[k]
  <2>1. PICK b \in kept :
            /\ wait'[k] = wait[b]
            /\ k = 1 => \A i \in kept : b <= i
            /\ k # 1 => \E a \in kept : /\ wait'[k - 1] = wait[a]
                                       /\ a < b /\ \A i \in kept : i <= a \/ b <= i
    BY <1>4
  <2>2. b \in 1..n /\ wait[b] \notin gone
    BY <1>1, <1>2, <1>5
  <2>3. PICK x \in Pollers \cup {ListHead} :
           /\ x = Before(k) /\ x \notin gone
           /\ x = PrevOf(b) \/ (b - 1 \in ps /\ x = PrevOf(b - 1))
    <3>1. CASE k = 1
      <4>1. b = 1 \/ (b = 2 /\ 1 \in ps)
        <5>1. \A i \in 1..n : i < b => i \in ps
          BY <1>2, <2>1, <2>2, <3>1
        <5>2. b > 2 => 1 \in ps /\ 2 \in ps
          BY <1>2, <2>2, <5>1
        <5>3. 2 \in ps => 2 - 1 \notin ps
          OBVIOUS
        <5> QED
          BY <1>2, <2>2, <5>1, <5>2, <5>3
      <4>2. ListHead = PrevOf(b) \/ (b - 1 \in ps /\ ListHead = PrevOf(b - 1))
        BY <1>6, <4>1
      <4> QED
        BY <1>5, <3>1, <4>2
    <3>2. CASE k # 1
      <4>1. PICK a \in kept : wait'[k - 1] = wait[a] /\ a < b /\ \A i \in kept : i <= a \/ b <= i
        BY <2>1, <3>2
      <4>2. a \in 1..n /\ wait[a] \notin gone /\ wait[a] \in Pollers
        BY <1>1, <1>2, <1>5
      <4>3. b = a + 1 \/ (b = a + 2 /\ a + 1 \in ps)
        <5>1. \A i \in 1..n : a < i /\ i < b => i \in ps
          BY <1>2, <2>2, <4>1, <4>2
        <5>2. b > a + 2 => a + 1 \in ps /\ a + 2 \in ps
          <6>1. b > a + 2 => a + 1 \in 1..n /\ a < a + 1 /\ a + 1 < b
            BY <1>2, <2>2, <4>2
          <6>2. b > a + 2 => a + 2 \in 1..n /\ a < a + 2 /\ a + 2 < b
            BY <1>2, <2>2, <4>2
          <6> QED
            BY <5>1, <6>1, <6>2, Zenon
        <5>3. a + 2 \in ps => (a + 2) - 1 \notin ps
          OBVIOUS
        <5>4. (a + 2) - 1 = a + 1 /\ (b > a + 2 \/ b = a + 2 \/ b = a + 1)
          BY <1>2, <2>2, <4>1, <4>2
        <5>5. b = a + 2 => a + 1 \in 1..n /\ a < a + 1 /\ a + 1 < b
          BY <1>2, <2>2, <4>2
        <5>6. b = a + 2 => a + 1 \in ps
          BY <5>1, <5>5, Zenon
        <5> QED
          BY <5>2, <5>3, <5>4, <5>6, Zenon
      <4>4. CASE b = a + 1
        <5>1. b # 1 /\ b - 1 = a /\ b \in DOMAIN wait
          BY <1>2, <2>2, <4>2, <4>4
        <5>2. PrevOf(b) = wait[a]
          BY <1>6, <5>1
        <5> QED
          BY <3>2, <4>1, <4>2, <5>2
      <4>5. CASE b = a + 2 /\ a + 1 \in ps
        <5>1. b - 1 = a + 1 /\ a + 1 # 1 /\ (a + 1) - 1 = a /\ a + 1 \in DOMAIN wait
          BY <1>2, <2>2, <4>2, <4>5
        <5>2. PrevOf(b - 1) = wait[a]
          BY <1>6, <5>1
        <5> QED
          BY <3>2, <4>1, <4>2, <4>5, <5>1, <5>2
      <4> QED
        BY <4>3, <4>4, <4>5
    <3> QED
      BY <3>1, <3>2
  <2>4. CASE x = PrevOf(b)
    <3>1. next[x] = wait[b]
      BY <1>2, <1>6, <2>2, <2>4
    <3> QED
      BY <1>7, <2>1, <2>2, <2>3, <3>1
  <2>5. CASE b - 1 \in ps /\ x = PrevOf(b - 1)
    <3>1. b - 1 \in DOMAIN wait /\ b # 1
      BY <1>2, <2>2, <2>5
    <3>2. next[x] = wait[b - 1] /\ wait[b - 1] \in gone
      BY <1>2, <1>6, <2>5, <3>1
    <3>3. next[wait[b - 1]] = wait[b]
      BY <1>2, <1>6, <2>2, <3>1
    <3> QED
      BY <1>7, <2>1, <2>3, <3>2, <3>3
  <2> QED
    BY <2>3, <2>4, <2>5
<1>10. waitend' = TailOf(wait') /\ waitend' \in Pollers \cup {ListHead} /\ next'[waitend'] = NoTicket
  <2>1. /\ waitend = TailOf(wait) /\ next[waitend] = NoTicket
        /\ TailOf(wait) \in Pollers \cup {ListHead}
        /\ TailOf(wait) = IF wait = <<>> THEN ListHead ELSE wait[n]
    BY Links DEF Chain, n
  <2>2. \A i \in ps : i # n => next[wait[i]] # NoTicket
    <3> TAKE i \in ps
    <3>1. ASSUME i # n PROVE next[wait[i]] # NoTicket
      <4>1. i + 1 \in DOMAIN wait /\ i + 1 # 1 /\ (i + 1) - 1 = i
        BY <1>2, <3>1
      <4>2. next[wait[i]] = wait[i + 1]
        BY <1>6, <4>1
      <4> QED
        BY <1>5, <4>1, <4>2
    <3> QED
      BY <3>1
  <2>3. CASE n \in ps
    <3>1. n \in DOMAIN wait /\ n # 0 /\ wait # <<>>
      BY <1>2, <2>3
    <3>2. ends = {n}
      BY <1>2, <2>1, <2>2, <2>3, <3>1
    <3>3. waitend' = PrevOf(n)
      BY <1>1, <3>2
    <3>4. n - 1 \notin ps
      BY <2>3
    <3>5. TailOf(wait') = PrevOf(n) /\ PrevOf(n) \in Pollers \cup {ListHead} /\ PrevOf(n) \notin gone
      <4>1. CASE n = 1
        <5>1. kept = {}
          BY <1>1, <1>2, <2>3, <4>1
        <5>2. wait' = <<>>
          BY <1>4, <5>1
        <5> QED
          BY <1>5, <1>6, <4>1, <5>2 DEF TailOf
      <4>2. CASE n # 1
        <5>1. n - 1 \in kept /\ n - 1 \in DOMAIN wait /\ n \notin kept
          BY <1>2, <2>3, <3>1, <3>4, <4>2
        <5>2. PICK b \in kept : TailOf(wait') = wait[b] /\ \A i \in kept : i <= b
          BY <1>4, <5>1
        <5>3. b = n - 1
          BY <1>1, <1>2, <5>1, <5>2
        <5> QED
          BY <1>5, <1>6, <3>1, <4>2, <5>1, <5>2, <5>3
      <4> QED
        BY <4>1, <4>2
    <3>6. next[PrevOf(n)] = wait[n] /\ wait[n] \in gone
      BY <1>2, <1>6, <2>3, <3>1
    <3>7. next'[PrevOf(n)] = NoTicket
      BY <1>7, <2>1, <3>1, <3>5, <3>6
    <3> QED
      BY <3>3, <3>5, <3>7
  <2>4. CASE n \notin ps
    <3>1. ends = {}
      BY <1>2, <2>2, <2>4
    <3>2. waitend' = waitend
      BY <1>1, <3>1
    <3>3. TailOf(wait') = TailOf(wait) /\ TailOf(wait) \notin gone
      <4>1. CASE n = 0
        <5>1. kept = {}
          BY <1>1, <1>2, <4>1
        <5>2. wait' = <<>>
          BY <1>4, <5>1
        <5> QED
          BY <1>2, <1>5, <2>1, <4>1, <5>2 DEF TailOf
      <4>2. CASE n # 0
        <5>1. n \in kept /\ wait # <<>>
          BY <1>2, <2>4, <4>2
        <5>2. PICK b \in kept : TailOf(wait') = wait[b] /\ \A i \in kept : i <= b
          BY <1>4, <5>1
        <5>3. b = n
          BY <1>1, <1>2, <5>1, <5>2
        <5> QED
          BY <1>5, <2>1, <5>1, <5>2, <5>3
      <4> QED
        BY <4>1, <4>2
    <3>4. next'[TailOf(wait)] = NoTicket
      BY <1>5, <1>7, <2>1, <3>3
    <3> QED
      BY <2>1, <3>2, <3>3, <3>4
  <2> QED
    BY <2>3, <2>4
<1>11. Chain'
  BY <1>9, <1>10, Zenon DEF Chain, PrevOf, TailOf
<1>12. \A u : OnList(u)' <=> OnList(u) /\ \A i \in ps : wait[i] # u
  BY <1>3, <1>4, Zenon DEF OnList, On
<1>13. NoDuplicates(wait)'
  BY <1>4, Zenon DEF NoDuplicates
<1> QED
  BY <1>1, <1>4, <1>8, <1>10, <1>11, <1>12, <1>13

\* While nobody is registering, the links are those of the list and a walk comes to
\* every ticket.
LEMMA Unbroken ==
    ASSUME PollqInv, WaitlockFree
    PROVE  Chain /\ Linked = DOMAIN wait
<1>1. \A i \in DOMAIN wait : wait[i] \in Threads /\ ~At(wait[i], "link")
  <2>1. wait \in Seq(Pollers)
    BY DEF PollqInv, TypeOK
  <2> QED
    BY <2>1 DEF Threads, WaitlockFree
<1>2. Chain
  BY <1>1, Zenon DEF PollqInv, LinkInv, Chain
<1>3. \A i \in DOMAIN wait : \A j \in 1..i : j \in DOMAIN wait
  <2>1. wait \in Seq(Pollers)
    BY DEF PollqInv, TypeOK
  <2> QED
    BY <2>1
<1>4. Linked = DOMAIN wait
  BY <1>2, <1>3, Zenon DEF Linked, Chain
<1> QED
  BY <1>2, <1>4

\* The links of a list are as they should be where nobody has one to fill.
LEMMA Rejoined ==
    ASSUME Chain', wait' \in Seq(Pollers), \A u \in Pollers : pc'[u] # "link"
    PROVE  LinkInv'
<1>1. \A i \in DOMAIN wait' : wait'[i] \in Pollers
  OBVIOUS
<1> QED
  BY <1>1, Zenon DEF Chain, LinkInv, At

Places == {"out", "look", "lock", "register", "link", "sleep", "notify"}

\* A thread whose ticket is not on the list goes on, and leaves the list alone: it
\* registers only when none of its events is set, and notifies of those it sets.
LEMMA Elsewhere ==
    ASSUME PollqInv, UNCHANGED <<waitmask, wait, next, waitend, tail, passed, blocked>>,
           NEW t \in Threads, ~OnList(t), pc[t] # "notify", NEW p \in Places \ {"link", "sleep"}, NEW m,
           pc' = [pc EXCEPT ![t] = p], mask' = [mask EXCEPT ![t] = m],
           late \subseteq late' \cup {t},
           p = "register" => events' \cap m = {},
           \A u \in Pollers : events' \cap mask[u] # {} =>
                \/ events \cap mask[u] # {}
                \/ t \in Setters /\ p = "notify" /\ m \cap mask[u] # {}
    PROVE  NoDanglingTicket' /\ LinkInv' /\ NoMissedEvent' /\ QueueInv'
<1>1. /\ t \notin blocked /\ pc'[t] = p /\ mask'[t] = m
      /\ \A u \in Threads \ {t} : pc'[u] = pc[u] /\ mask'[u] = mask[u]
  BY DEF PollqInv, TypeOK, NoDanglingTicket
<1>2. \A u : OnList(u)' <=> OnList(u)
  BY Zenon DEF OnList
<1>3. Pollers \subseteq Threads /\ Setters \subseteq Threads /\ blocked \subseteq Pollers /\ passed \subseteq Pollers
  BY DEF PollqInv, TypeOK, Threads
<1>4. \A u \in Pollers \ {t} : (events' \cap mask[u] # {} /\ (events \cap mask[u] # {} => NotifiedSoon(u)))
                                => NotifiedSoon(u)'
  <2> SUFFICES ASSUME NEW u \in Pollers \ {t}, events' \cap mask[u] # {},
                      events \cap mask[u] # {} => NotifiedSoon(u)
               PROVE  \E v \in Setters : pc'[v] = "notify" /\ mask'[v] \cap mask'[u] # {}
    BY Zenon DEF NotifiedSoon, At
  <2>1. CASE events \cap mask[u] # {}
    <3>1. PICK v \in Setters : pc[v] = "notify" /\ mask[v] \cap mask[u] # {}
      BY <2>1 DEF NotifiedSoon, At
    <3> QED
      BY <1>1, <1>3, <3>1
  <2>2. CASE events \cap mask[u] = {}
    BY <1>1, <1>3, <2>2
  <2> QED
    BY <2>1, <2>2
<1>5. NoDanglingTicket'
  <2>1. \A u \in Pollers : OnList(u)' => At(u, "link")' \/ At(u, "sleep")'
    BY <1>1, <1>2, <1>3 DEF PollqInv, NoDanglingTicket, At
  <2> QED
    BY <1>2, <2>1, Zenon DEF PollqInv, NoDanglingTicket
<1>6. LinkInv'
  <2>1. \A i \in DOMAIN wait : wait[i] \in Pollers /\ wait[i] # t
    <3>1. wait \in Seq(Pollers)
      BY DEF PollqInv, TypeOK
    <3> QED
      BY <3>1 DEF OnList, On
  <2>2. /\ \A i \in DOMAIN wait : At(wait[i], "link")' <=> At(wait[i], "link")
        /\ \A u \in Pollers : At(u, "link")' => OnList(u)'
    BY <1>1, <1>2, <1>3, <2>1 DEF PollqInv, LinkInv, At
  <2> QED
    BY <2>2, Zenon DEF PollqInv, LinkInv, At, PrevOf
<1>7. NoMissedEvent'
  <2> SUFFICES ASSUME NEW u \in blocked \ passed, events' \cap mask'[u] # {} PROVE NotifiedSoon(u)'
    BY Zenon DEF NoMissedEvent
  <2>1. u \in Pollers \ {t} /\ mask'[u] = mask[u]
    BY <1>1, <1>3
  <2>2. events \cap mask[u] # {} => NotifiedSoon(u)
    BY DEF PollqInv, NoMissedEvent
  <2> QED
    BY <1>4, <2>1, <2>2
<1>8. ASSUME NEW u \in Pollers, At(u, "register")' \/ At(u, "link")', (events \cap mask[u] # {})'
      PROVE  NotifiedSoon(u)'
  <2>1. u # t /\ mask'[u] = mask[u] /\ (pc[u] = "register" \/ pc[u] = "link")
    BY <1>1, <1>3, <1>8 DEF At
  <2>2. events \cap mask[u] # {} => NotifiedSoon(u)
    BY <2>1 DEF PollqInv, QueueInv, At
  <2> QED
    BY <1>4, <1>8, <2>1, <2>2
<1>9. \A u \in Pollers : OnList(u)' => u # t /\ OnList(u) /\ mask'[u] = mask[u]
  BY <1>1, <1>2, <1>3
<1>10. /\ \A u \in Pollers : OnList(u)' /\ u \notin passed' => mask'[u] \subseteq waitmask'
       /\ \A u \in Pollers : OnList(u)' /\ u \notin blocked' => At(u, "link")' \/ u \in late'
       /\ \A u \in passed' : OnList(u)'
  BY <1>1, <1>2, <1>3, <1>9 DEF PollqInv, QueueInv, At
<1> QED
  BY <1>5, <1>6, <1>7, <1>8, <1>10, Zenon DEF QueueInv

\* uk_pollq_poll_until(), its looks at the events, and a poll that goes on
LEMMA PollInv ==
    ASSUME PollqInv, NEW t \in Pollers,
           Poll(t) \/ Look(t) \/ _pollq_lock(t) \/ (Awake(t) /\ t \notin late)
    PROVE  PollqInv'
<1>1. TypeOK /\ t \in Threads /\ t \in DOMAIN pc /\ t \in DOMAIN mask
  BY DEF PollqInv, TypeOK, Threads
<1>2. ~OnList(t) /\ pc[t] # "notify"
  <2>1. CASE Awake(t) /\ t \notin late
    BY <2>1 DEF Awake, At, PollqInv, QueueInv
  <2>2. CASE Poll(t) \/ Look(t) \/ _pollq_lock(t)
    BY <2>2 DEF Poll, uk_pollq_poll_until, Look, _pollq_lock, At, PollqInv, NoDanglingTicket
  <2> QED
    BY <2>1, <2>2
<1>3. UNCHANGED <<waitmask, wait, next, waitend, tail, passed, blocked, events>> /\ late \subseteq late' \cup {t}
  BY DEF Poll, uk_pollq_poll_until, BeginPoll, Look, _pollq_lock, Awake, Return, queueVars
<1>4. PICK p \in Places \ {"link", "sleep"}, m \in SUBSET Events :
         /\ pc' = [pc EXCEPT ![t] = p] /\ mask' = [mask EXCEPT ![t] = m]
         /\ p = "register" => events \cap m = {}
         /\ p # "notify"
  <2>1. CASE Poll(t)
    BY <2>1 DEF Poll, uk_pollq_poll_until, BeginPoll, Goto, Places
  <2>2. mask[t] \in SUBSET Events /\ mask = [mask EXCEPT ![t] = mask[t]]
    BY <1>1 DEF TypeOK
  <2>3. CASE Look(t)
    BY <2>2, <2>3 DEF Look, Goto, Return, Places, callVars
  <2>4. CASE _pollq_lock(t)
    BY <2>2, <2>4 DEF _pollq_lock, Goto, Return, Places, callVars
  <2>5. CASE Awake(t) /\ t \notin late
    BY <2>2, <2>5 DEF Awake, Goto, Places, callVars
  <2> QED
    BY <2>1, <2>3, <2>4, <2>5
<1>5. TypeOK'
  <2>1. pc' \in [Threads -> Places] /\ mask' \in [Threads -> SUBSET Events]
    BY <1>1, <1>4 DEF TypeOK, Places
  <2>2. /\ limit' \in [Threads -> Limits \cup {0}] /\ late' \subseteq timed' /\ timed' \subseteq Pollers
    BY <1>1 DEF TypeOK, Poll, uk_pollq_poll_until, BeginPoll, Look, _pollq_lock, Awake, Return, callVars
  <2> QED
    BY <1>1, <1>3, <2>1, <2>2, Zenon DEF TypeOK, Places
<1>6. NoDanglingTicket' /\ LinkInv' /\ NoMissedEvent' /\ QueueInv'
  BY <1>1, <1>2, <1>3, <1>4, Elsewhere
<1> QED
  BY <1>5, <1>6 DEF PollqInv

\* uk_pollq_set_n() and uk_pollq_assign_n(): who sets events notifies of the new ones
LEMMA SetInv == ASSUME PollqInv, NEW t \in Setters, Set(t) PROVE PollqInv'
<1>1. TypeOK /\ t \in Threads /\ ~OnList(t) /\ pc[t] = "out"
  BY DEF Set, uk_pollq_set_n, uk_pollq_assign_n, At, PollqInv, TypeOK, Threads, NoDanglingTicket, OnList, On
<1>2. PICK set \in SUBSET Events, n \in Limits : uk_pollq_set_n(t, set, n) \/ uk_pollq_assign_n(t, set, n)
  BY DEF Set
<1>3. UNCHANGED <<waitmask, wait, next, waitend, tail, passed, blocked, late, timed>>
  BY <1>2 DEF uk_pollq_set_n, uk_pollq_assign_n, BeginNotify, queueVars, callVars
<1>4. PICK p \in {"out", "notify"}, m \in SUBSET Events :
         /\ pc' = [pc EXCEPT ![t] = p] /\ mask' = [mask EXCEPT ![t] = m]
         /\ events' \in SUBSET Events
         /\ \A e \in events' : e \in events \/ (p = "notify" /\ e \in m)
         /\ limit' \in [Threads -> Limits \cup {0}]
  <2>1. /\ mask[t] \in SUBSET Events /\ mask = [mask EXCEPT ![t] = mask[t]] /\ pc = [pc EXCEPT ![t] = "out"]
        /\ \A k \in Limits : [limit EXCEPT ![t] = k] \in [Threads -> Limits \cup {0}]
        /\ limit \in [Threads -> Limits \cup {0}] /\ events \in SUBSET Events
    BY <1>1 DEF TypeOK
  <2>2. CASE uk_pollq_set_n(t, set, n)
    <3>1. /\ pc' = [pc EXCEPT ![t] = "notify"] /\ mask' = [mask EXCEPT ![t] = set]
          /\ events' \in SUBSET Events /\ (\A e \in events' : e \in events \/ e \in set)
          /\ limit' \in [Threads -> Limits \cup {0}]
      BY <2>1, <2>2 DEF uk_pollq_set_n, BeginNotify, Goto
    <3>2. set \in SUBSET Events
      BY <2>1
    <3> WITNESS "notify" \in {"out", "notify"}, set \in SUBSET Events
    <3> QED
      BY <3>1
  <2>3. CASE uk_pollq_assign_n(t, set, n) /\ set \ events # {}
    <3>1. /\ pc' = [pc EXCEPT ![t] = "notify"] /\ mask' = [mask EXCEPT ![t] = (set \ events)]
          /\ events' \in SUBSET Events /\ (\A e \in events' : e \in events \/ e \in (set \ events))
          /\ limit' \in [Threads -> Limits \cup {0}]
      BY <2>1, <2>3 DEF uk_pollq_assign_n, BeginNotify, Goto
    <3>2. set \ events \in SUBSET Events
      BY <2>1
    <3> WITNESS "notify" \in {"out", "notify"}, set \ events \in SUBSET Events
    <3> QED
      BY <3>1
  <2>4. CASE uk_pollq_assign_n(t, set, n) /\ set \ events = {}
    <3>1. /\ pc' = [pc EXCEPT ![t] = "out"] /\ mask' = [mask EXCEPT ![t] = mask[t]]
          /\ events' \in SUBSET Events /\ (\A e \in events' : e \in events)
          /\ limit' \in [Threads -> Limits \cup {0}]
      BY <2>1, <2>4 DEF uk_pollq_assign_n, callVars
    <3>2. mask[t] \in SUBSET Events
      BY <2>1
    <3> WITNESS "out" \in {"out", "notify"}, mask[t] \in SUBSET Events
    <3> QED
      BY <3>1
  <2> QED
    BY <1>2, <2>2, <2>3, <2>4
<1>5. TypeOK'
  <2>1. pc' \in [Threads -> Places] /\ mask' \in [Threads -> SUBSET Events]
    BY <1>1, <1>4 DEF TypeOK, Places
  <2> QED
    BY <1>1, <1>3, <1>4, <2>1, Zenon DEF TypeOK, Places
<1>6. /\ p \in Places \ {"link", "sleep"} /\ p # "register" /\ late \subseteq late' \cup {t} /\ pc[t] # "notify"
      /\ \A u \in Pollers : events' \cap mask[u] # {} =>
                \/ events \cap mask[u] # {}
                \/ t \in Setters /\ p = "notify" /\ m \cap mask[u] # {}
  BY <1>1, <1>3, <1>4 DEF Places
<1>7. NoDanglingTicket' /\ LinkInv' /\ NoMissedEvent' /\ QueueInv'
  BY <1>1, <1>3, <1>4, <1>6, Elsewhere, ZenonT(40)
<1> QED
  BY <1>5, <1>7 DEF PollqInv

\* uk_pollq_clear(), and time: a deadline passes, and may wake a sleeper
LEMMA QuietInv ==
    ASSUME PollqInv, Clear \/ \E t \in Pollers : Expire(t) \/ TimedWake(t)
    PROVE  PollqInv'
<1>1. /\ UNCHANGED <<waitmask, wait, next, waitend, tail, passed, pc, mask, limit, timed>>
      /\ events' \subseteq events /\ blocked' \subseteq blocked /\ late \subseteq late'
      /\ late' \subseteq timed /\ \A u \in blocked \ blocked' : u \in late'
  BY DEF PollqInv, TypeOK, Clear, uk_pollq_clear, Expire, TimedWake, queueVars, callVars
<1>2. TypeOK'
  BY <1>1 DEF PollqInv, TypeOK
<1>3. \A u : (OnList(u)' <=> OnList(u)) /\ (NotifiedSoon(u)' <=> NotifiedSoon(u))
  BY <1>1, Zenon DEF OnList, NotifiedSoon, At
<1>4. NoDanglingTicket' /\ LinkInv'
  <2>1. /\ \A u \in Pollers : OnList(u)' => At(u, "link")' \/ At(u, "sleep")'
        /\ \A u \in blocked' : OnList(u)'
    BY <1>1, <1>3 DEF PollqInv, NoDanglingTicket, At
  <2>2. LinkInv'
    BY <1>1, Zenon DEF PollqInv, LinkInv, At, OnList, PrevOf
  <2> QED
    BY <1>1, <2>1, <2>2, Zenon DEF PollqInv, NoDanglingTicket
<1>5. NoMissedEvent'
  BY <1>1, <1>3 DEF PollqInv, NoMissedEvent
<1>6. /\ \A u \in Pollers : OnList(u)' /\ u \notin passed' => mask'[u] \subseteq waitmask'
      /\ \A u \in Pollers : (At(u, "register")' \/ At(u, "link")') /\ (events \cap mask[u] # {})'
                               => NotifiedSoon(u)'
      /\ \A u \in Pollers : OnList(u)' /\ u \notin blocked' => At(u, "link")' \/ u \in late'
      /\ \A u \in passed' : OnList(u)'
  BY <1>1, <1>3 DEF PollqInv, QueueInv, At
<1> QED
  BY <1>2, <1>4, <1>5, <1>6, Zenon DEF PollqInv, QueueInv

\* The exchange of _pollq_wait(): the poller gets the empty link of the tail, and its
\* ticket is the new tail, under waitmask
LEMMA WaitInv == ASSUME PollqInv, NEW t \in Pollers, _pollq_wait(t) PROVE PollqInv'
<1>1. /\ TypeOK /\ t \in Threads /\ pc[t] = "register" /\ ~OnList(t) /\ t \notin blocked
      /\ wait \in Seq(Pollers) /\ NoDuplicates(wait)
  BY DEF _pollq_wait, At, PollqInv, TypeOK, Threads, NoDanglingTicket
<1>2. /\ UNCHANGED <<events, mask, limit, timed, late, blocked, passed>>
      /\ waitmask' = waitmask \cup mask[t] /\ wait' = Append(wait, t) /\ waitend' = t
      /\ next' = [next EXCEPT ![t] = NoTicket] /\ tail' = [tail EXCEPT ![t] = waitend]
      /\ pc' = [pc EXCEPT ![t] = "link"]
  BY DEF _pollq_wait, callVars, Goto
<1>3. /\ wait' \in Seq(Pollers) /\ NoDuplicates(wait)' /\ wait' # <<>> /\ wait'[Len(wait')] = t
      /\ \A u : OnList(u)' <=> OnList(u) \/ u = t
  <2>1. wait' \in Seq(Pollers) /\ NoDuplicates(wait') /\ \A u : On(wait', u) <=> On(wait, u) \/ u = t
    BY <1>1, <1>2, AppendFacts DEF OnList
  <2>2. wait' # <<>> /\ wait'[Len(wait')] = t
    BY <1>1, <1>2
  <2> QED
    BY <2>1, <2>2, Zenon DEF OnList, NoDuplicates
<1>4. /\ pc'[t] = "link" /\ \A u \in Threads \ {t} : pc'[u] = pc[u]
      /\ pc' \in [Threads -> Places] /\ mask[t] \subseteq Events
  BY <1>1, <1>2 DEF TypeOK, Places
<1>5. /\ next'[t] = NoTicket /\ tail'[t] = waitend
      /\ \A x \in Pollers \cup {ListHead} : x # t => next'[x] = next[x]
      /\ \A u \in Pollers \ {t} : tail'[u] = tail[u]
      /\ next' \in [Pollers \cup {ListHead} -> Pollers \cup {NoTicket}]
      /\ tail' \in [Pollers -> Pollers \cup {ListHead}]
  BY <1>1, <1>2 DEF TypeOK
<1>6. TypeOK'
  BY <1>1, <1>2, <1>3, <1>4, <1>5 DEF TypeOK, Places
<1>7. \A u \in Pollers : NotifiedSoon(u) => NotifiedSoon(u)'
  <2> SUFFICES ASSUME NEW u \in Pollers, NotifiedSoon(u)
               PROVE  \E v \in Setters : pc'[v] = "notify" /\ mask'[v] \cap mask'[u] # {}
    BY Zenon DEF NotifiedSoon, At
  <2>1. PICK v \in Setters : pc[v] = "notify" /\ mask[v] \cap mask[u] # {}
    BY DEF NotifiedSoon, At
  <2> QED
    BY <1>1, <1>2, <1>4, <2>1 DEF Threads
<1>8. NoDanglingTicket'
  <2>1. /\ \A u \in Pollers : OnList(u)' => At(u, "link")' \/ At(u, "sleep")'
        /\ \A u \in blocked' : OnList(u)'
    BY <1>2, <1>3, <1>4 DEF PollqInv, NoDanglingTicket, At, Threads
  <2> QED
    BY <1>3, <2>1, Zenon DEF NoDanglingTicket
<1>9. LinkInv'
  <2> DEFINE n == Len(wait)
             Before(i) == IF i = 1 THEN ListHead ELSE wait'[i - 1]
  <2>1. /\ n \in Nat /\ DOMAIN wait = 1..n /\ DOMAIN wait' = 1..(n + 1) /\ wait'[n + 1] = t
        /\ \A i \in 1..n : wait'[i] = wait[i] /\ wait[i] \in Pollers /\ wait[i] # t
        /\ wait = <<>> <=> n = 0
    BY <1>1, <1>2 DEF OnList, On
  <2>2. /\ waitend = TailOf(wait) /\ next[waitend] = NoTicket
        /\ \A i \in DOMAIN wait :
              IF At(wait[i], "link") THEN tail[wait[i]] = PrevOf(i) /\ next[PrevOf(i)] = NoTicket
              ELSE next[PrevOf(i)] = wait[i]
    BY DEF PollqInv, LinkInv
  <2>3. TailOf(wait) = IF wait = <<>> THEN ListHead ELSE wait[n]
    BY DEF TailOf
  <2> HIDE DEF n
  <2>4. /\ \A i \in 1..n : Before(i) = PrevOf(i) /\ PrevOf(i) # t /\ PrevOf(i) \in Pollers \cup {ListHead}
        /\ Before(n + 1) = waitend /\ waitend # t /\ waitend \in Pollers \cup {ListHead}
    <3>1. ListHead # t
      BY PollQueueAssumption
    <3>2. \A i \in 1..n : Before(i) = PrevOf(i) /\ PrevOf(i) # t /\ PrevOf(i) \in Pollers \cup {ListHead}
      BY <2>1, <3>1 DEF PrevOf
    <3>3. Before(n + 1) = waitend /\ waitend # t /\ waitend \in Pollers \cup {ListHead}
      BY <2>1, <2>2, <2>3, <3>1
    <3> QED
      BY <3>2, <3>3
  <2> HIDE DEF Before
  <2>5. ASSUME NEW i \in DOMAIN wait'
        PROVE  IF pc'[wait'[i]] = "link" THEN tail'[wait'[i]] = Before(i) /\ next'[Before(i)] = NoTicket
               ELSE next'[Before(i)] = wait'[i]
    <3>1. CASE i = n + 1
      BY <1>4, <1>5, <2>1, <2>2, <2>4, <3>1
    <3>2. CASE i \in 1..n
      <4>1. /\ wait'[i] = wait[i] /\ tail'[wait[i]] = tail[wait[i]] /\ pc'[wait[i]] = pc[wait[i]]
            /\ Before(i) = PrevOf(i) /\ next'[PrevOf(i)] = next[PrevOf(i)]
        BY <1>4, <1>5, <2>1, <2>4, <3>2 DEF Threads
      <4> QED
        BY <2>1, <2>2, <3>2, <4>1 DEF At
    <3> QED
      BY <2>1, <3>1, <3>2
  <2>6. waitend' = TailOf(wait') /\ next'[waitend'] = NoTicket
    BY <1>2, <1>3, <1>5 DEF TailOf
  <2>7. \A u \in Pollers : pc'[u] = "link" => OnList(u)'
    BY <1>3, <1>4 DEF PollqInv, LinkInv, At, Threads
  <2> QED
    BY <2>5, <2>6, <2>7, Zenon DEF LinkInv, At, PrevOf, Before, TailOf
<1>10. NoMissedEvent'
  BY <1>1, <1>2, <1>7 DEF PollqInv, NoMissedEvent, TypeOK
<1>11. \A u \in Pollers : (At(u, "register")' \/ At(u, "link")') /\ (events \cap mask[u] # {})'
                             => NotifiedSoon(u)'
  BY <1>1, <1>2, <1>4, <1>7 DEF PollqInv, QueueInv, At, Threads
<1>12. /\ \A u \in Pollers : OnList(u)' /\ u \notin passed' => mask'[u] \subseteq waitmask'
       /\ \A u \in Pollers : OnList(u)' /\ u \notin blocked' => At(u, "link")' \/ u \in late'
       /\ \A u \in passed' : OnList(u)'
  BY <1>2, <1>3, <1>4 DEF PollqInv, QueueInv, At, Threads
<1> QED
  BY <1>6, <1>8, <1>9, <1>10, <1>11, <1>12, Zenon DEF PollqInv, QueueInv

\* The rest of _pollq_wait() up to its yield: the poller fills the link it has got,
\* which is nobody else's, and blocks
LEMMA LinkTicketInv == ASSUME PollqInv, NEW t \in Pollers, LinkTicket(t) PROVE PollqInv'
<1>1. /\ TypeOK /\ t \in Threads /\ pc[t] = "link" /\ OnList(t)
      /\ wait \in Seq(Pollers) /\ NoDuplicates(wait)
  BY DEF LinkTicket, At, PollqInv, TypeOK, Threads, NoDanglingTicket, LinkInv
<1>2. /\ UNCHANGED <<events, waitmask, wait, waitend, mask, limit, timed, late, passed>>
      /\ next' = [next EXCEPT ![tail[t]] = t] /\ tail' = [tail EXCEPT ![t] = ListHead]
      /\ blocked' = blocked \cup {t} /\ pc' = [pc EXCEPT ![t] = "sleep"]
  BY DEF LinkTicket, callVars, Goto
<1>3. /\ tail[t] \in Pollers \cup {ListHead} /\ next'[tail[t]] = t
      /\ \A x \in Pollers \cup {ListHead} : x # tail[t] => next'[x] = next[x]
      /\ \A u \in Pollers \ {t} : tail'[u] = tail[u]
      /\ next' \in [Pollers \cup {ListHead} -> Pollers \cup {NoTicket}]
      /\ tail' \in [Pollers -> Pollers \cup {ListHead}]
  BY <1>1, <1>2 DEF TypeOK
<1>4. /\ pc'[t] = "sleep" /\ \A u \in Threads \ {t} : pc'[u] = pc[u]
      /\ pc' \in [Threads -> Places]
  BY <1>1, <1>2 DEF TypeOK, Places
<1>5. TypeOK'
  BY <1>1, <1>2, <1>3, <1>4 DEF TypeOK, Places
<1>6. \A u : OnList(u)' <=> OnList(u)
  BY <1>2, Zenon DEF OnList
<1>7. \A u \in Pollers : NotifiedSoon(u) => NotifiedSoon(u)'
  <2> SUFFICES ASSUME NEW u \in Pollers, NotifiedSoon(u)
               PROVE  \E v \in Setters : pc'[v] = "notify" /\ mask'[v] \cap mask'[u] # {}
    BY Zenon DEF NotifiedSoon, At
  <2>1. PICK v \in Setters : pc[v] = "notify" /\ mask[v] \cap mask[u] # {}
    BY DEF NotifiedSoon, At
  <2> QED
    BY <1>1, <1>2, <1>4, <2>1 DEF Threads
<1>8. NoDanglingTicket'
  <2>1. /\ \A u \in Pollers : OnList(u)' => At(u, "link")' \/ At(u, "sleep")'
        /\ \A u \in blocked' : OnList(u)'
    BY <1>1, <1>2, <1>4, <1>6 DEF PollqInv, NoDanglingTicket, At, Threads
  <2> QED
    BY <1>2, <2>1, Zenon DEF PollqInv, NoDanglingTicket
<1>9. LinkInv'
  <2>1. PICK i \in DOMAIN wait : wait[i] = t
    BY <1>1 DEF OnList, On
  <2>2. /\ waitend = TailOf(wait) /\ next[waitend] = NoTicket
        /\ \A j \in DOMAIN wait :
              IF At(wait[j], "link") THEN tail[wait[j]] = PrevOf(j) /\ next[PrevOf(j)] = NoTicket
              ELSE next[PrevOf(j)] = wait[j]
        /\ \A u \in Pollers : At(u, "link") => OnList(u)
    BY DEF PollqInv, LinkInv
  <2>3. /\ TailOf(wait) \in Pollers \cup {ListHead}
        /\ \A j \in DOMAIN wait : PrevOf(j) \in Pollers \cup {ListHead} /\ PrevOf(j) # TailOf(wait)
        /\ \A j, k \in DOMAIN wait : PrevOf(j) = PrevOf(k) => j = k
    BY <1>1, Links
  <2>4. tail[t] = PrevOf(i)
    BY <1>1, <2>1, <2>2 DEF At
  <2>5. next'[waitend] = NoTicket
    BY <1>3, <2>2, <2>3, <2>4
  <2>6. ASSUME NEW j \in DOMAIN wait
        PROVE  IF pc'[wait[j]] = "link" THEN tail'[wait[j]] = PrevOf(j) /\ next'[PrevOf(j)] = NoTicket
               ELSE next'[PrevOf(j)] = wait[j]
    <3>1. CASE j = i
      BY <1>3, <1>4, <2>1, <2>4, <3>1
    <3>2. CASE j # i
      <4>1. wait[j] \in Pollers /\ wait[j] # t
        BY <1>1, <2>1, <3>2 DEF NoDuplicates
      <4>2. /\ tail'[wait[j]] = tail[wait[j]] /\ pc'[wait[j]] = pc[wait[j]]
            /\ next'[PrevOf(j)] = next[PrevOf(j)]
        BY <1>3, <1>4, <2>3, <2>4, <3>2, <4>1 DEF Threads
      <4> QED
        BY <2>2, <4>2 DEF At
    <3> QED
      BY <3>1, <3>2
  <2>7. \A u \in Pollers : pc'[u] = "link" => OnList(u)'
    BY <1>1, <1>4, <1>6, <2>2 DEF At, Threads
  <2>8. /\ wait' = wait /\ waitend' = waitend /\ TailOf(wait)' = TailOf(wait)
        /\ \A j : PrevOf(j)' = PrevOf(j)
    BY <1>2, Zenon DEF PrevOf, TailOf
  <2> HIDE DEF PrevOf, TailOf
  <2> QED
    BY <2>2, <2>5, <2>6, <2>7, <2>8, Zenon DEF LinkInv, At
<1>10. NoMissedEvent'
  <2> SUFFICES ASSUME NEW u \in blocked' \ passed', events' \cap mask'[u] # {} PROVE NotifiedSoon(u)'
    BY Zenon DEF NoMissedEvent
  <2>1. u \in Pollers /\ events \cap mask[u] # {}
    BY <1>1, <1>2 DEF TypeOK
  <2>2. NotifiedSoon(u)
    BY <1>1, <1>2, <2>1 DEF PollqInv, NoMissedEvent, QueueInv, At
  <2> QED
    BY <1>7, <2>1, <2>2
<1>11. \A u \in Pollers : (At(u, "register")' \/ At(u, "link")') /\ (events \cap mask[u] # {})'
                             => NotifiedSoon(u)'
  BY <1>2, <1>4, <1>7 DEF PollqInv, QueueInv, At, Threads
<1>12. /\ \A u \in Pollers : OnList(u)' /\ u \notin passed' => mask'[u] \subseteq waitmask'
       /\ \A u \in Pollers : OnList(u)' /\ u \notin blocked' => At(u, "link")' \/ u \in late'
       /\ \A u \in passed' : OnList(u)'
  BY <1>2, <1>4, <1>6 DEF PollqInv, QueueInv, At, Threads
<1> QED
  BY <1>5, <1>8, <1>9, <1>10, <1>11, <1>12, Zenon DEF PollqInv, QueueInv

\* A call returns: the thread has no mask any more, the others keep theirs.
LEMMA Returns ==
    ASSUME TypeOK, NEW t \in Threads, Return(t)
    PROVE  /\ pc'[t] = "out" /\ \A u \in Threads \ {t} : pc'[u] = pc[u] /\ mask'[u] = mask[u]
           /\ pc' \in [Threads -> Places] /\ mask' \in [Threads -> SUBSET Events]
           /\ limit' \in [Threads -> Limits \cup {0}] /\ late' = late \ {t}
           /\ late' \subseteq timed' /\ timed' \subseteq Pollers
  BY DEF TypeOK, Return, Goto, Places

\* uk_pollq_cancel_ticket() after a deadline: the ticket is gone when the call returns
LEMMA CancelInv ==
    ASSUME Keeping, PollqInv, NEW t \in Pollers, Awake(t), t \in late
    PROVE  PollqInv'
<1> DEFINE ps == {i \in DOMAIN wait : wait[i] = t}
<1>1. /\ TypeOK /\ NoDuplicates(wait) /\ wait \in Seq(Pollers) /\ t \in Threads
      /\ next \in [Pollers \cup {ListHead} -> Pollers \cup {NoTicket}]
      /\ pc[t] = "sleep" /\ t \notin blocked /\ WaitlockFree /\ Return(t)
      /\ Unlink({i \in Linked : wait[i] = t})
      /\ passed' = passed \ {t} /\ UNCHANGED <<waitmask, events, blocked>>
  BY DEF PollqInv, TypeOK, NoDanglingTicket, Threads, Awake, At, uk_pollq_cancel_ticket
<1>2. /\ wait' \in Seq(Pollers) /\ NoDuplicates(wait)' /\ Chain'
      /\ waitend' \in Pollers \cup {ListHead} /\ tail' = tail
      /\ next' \in [Pollers \cup {ListHead} -> Pollers \cup {NoTicket}]
      /\ \A u : OnList(u)' <=> OnList(u) /\ \A i \in ps : wait[i] # u
  <2>1. Chain /\ Unlink(ps)
    BY <1>1, Unbroken
  <2>2. \A i \in ps : i - 1 \notin ps
    BY <1>1 DEF NoDuplicates
  <2>3. ps \in SUBSET DOMAIN wait
    OBVIOUS
  <2> HIDE DEF ps
  <2> QED
    BY <1>1, <2>1, <2>2, <2>3, Unlinks
<1>3. \A u : OnList(u)' <=> OnList(u) /\ u # t
  BY <1>2 DEF OnList, On
<1>4. /\ pc'[t] = "out" /\ \A u \in Threads \ {t} : pc'[u] = pc[u] /\ mask'[u] = mask[u]
      /\ pc' \in [Threads -> Places] /\ mask' \in [Threads -> SUBSET Events]
      /\ limit' \in [Threads -> Limits \cup {0}] /\ late' = late \ {t}
      /\ late' \subseteq timed' /\ timed' \subseteq Pollers
  BY <1>1, Returns
<1> HIDE DEF ps
<1>5. TypeOK'
  BY <1>1, <1>2, <1>4 DEF TypeOK, Places
<1>6. \A u \in Pollers \ {t} : NotifiedSoon(u) => NotifiedSoon(u)'
  <2> SUFFICES ASSUME NEW u \in Pollers \ {t}, NotifiedSoon(u)
               PROVE  \E v \in Setters : pc'[v] = "notify" /\ mask'[v] \cap mask'[u] # {}
    BY Zenon DEF NotifiedSoon, At
  <2>1. PICK v \in Setters : pc[v] = "notify" /\ mask[v] \cap mask[u] # {}
    BY DEF NotifiedSoon, At
  <2> QED
    BY <1>1, <1>4, <2>1 DEF Threads
<1>7. NoDanglingTicket'
  <2>1. /\ \A u \in Pollers : OnList(u)' => At(u, "link")' \/ At(u, "sleep")'
        /\ \A u \in blocked' : OnList(u)'
    BY <1>1, <1>3, <1>4 DEF PollqInv, NoDanglingTicket, At, Threads
  <2> QED
    BY <1>2, <2>1, Zenon DEF NoDanglingTicket
<1>8. NoMissedEvent'
  <2> SUFFICES ASSUME NEW u \in blocked' \ passed', events' \cap mask'[u] # {} PROVE NotifiedSoon(u)'
    BY Zenon DEF NoMissedEvent
  <2>1. u \in Pollers \ {t} /\ u \in blocked \ passed /\ events \cap mask[u] # {}
    BY <1>1, <1>4 DEF TypeOK, Threads
  <2> QED
    BY <1>6, <2>1 DEF PollqInv, NoMissedEvent
<1>9. /\ \A u \in Pollers : OnList(u)' /\ u \notin passed' => mask'[u] \subseteq waitmask'
      /\ \A u \in Pollers : OnList(u)' /\ u \notin blocked' => At(u, "link")' \/ u \in late'
      /\ \A u \in passed' : OnList(u)'
  BY <1>1, <1>3, <1>4 DEF PollqInv, QueueInv, Threads, WaitlockFree
<1>10. \A u \in Pollers : pc'[u] # "register" /\ pc'[u] # "link"
  BY <1>1, <1>4 DEF WaitlockFree, At, Threads
<1>11. LinkInv'
  BY <1>2, <1>10, Rejoined
<1> QED
  BY <1>5, <1>7, <1>8, <1>9, <1>10, <1>11, Zenon DEF PollqInv, QueueInv, At

\* What a walk leaves behind: the tickets it has not unlinked, and of those that it
\* has not passed over, none that waits for one of the events.
LEMMA WalkLeaves ==
    ASSUME Keeping, PollqInv, WaitlockFree, NEW set \in SUBSET Events, NEW n, Walk(set, n)
    PROVE  /\ wait' \in Seq(Pollers) /\ NoDuplicates(wait)' /\ Chain'
           /\ waitend' \in Pollers \cup {ListHead} /\ tail' = tail
           /\ next' \in [Pollers \cup {ListHead} -> Pollers \cup {NoTicket}]
           /\ blocked' \subseteq blocked /\ passed' \subseteq Pollers /\ waitmask' \subseteq Events
           /\ \A u : OnList(u)' => OnList(u)
           /\ \A u : OnList(u)' /\ u \notin blocked' => u \notin blocked
           /\ \A u \in blocked' \cup passed' : OnList(u)'
           /\ \A u \in Pollers : OnList(u)' /\ u \notin passed' =>
                 u \notin passed /\ mask[u] \subseteq waitmask' /\ mask[u] \cap set = {}
<1>12. Chain /\ Linked = DOMAIN wait
  BY Unbroken
<1>1. PICK hit \in SUBSET DOMAIN wait :
         /\ Hits(hit, set, n) /\ Unlink(hit)
         /\ blocked' = blocked \ {wait[i] : i \in hit}
         /\ waitmask' = IF \E i \in DOMAIN wait : i - 1 \notin hit /\ Spent(hit, i, n) THEN waitmask
                        ELSE UNION {mask[u] : u \in {wait[i] : i \in DOMAIN wait \
                                         (hit \cup {j \in DOMAIN wait : PassedOver(hit, j, n)})}}
         /\ passed' = (passed \ {wait[i] : i \in hit})
                         \cup {wait[i] : i \in {j \in DOMAIN wait : PassedOver(hit, j, n)}}
  BY <1>12, Zenon DEF Walk
<1>2. /\ TypeOK /\ wait \in Seq(Pollers) /\ NoDuplicates(wait)
      /\ next \in [Pollers \cup {ListHead} -> Pollers \cup {NoTicket}]
      /\ \A i \in DOMAIN wait : wait[i] \in Pollers /\ mask[wait[i]] \subseteq Events
  <2>1. TypeOK /\ NoDuplicates(wait) /\ next \in [Pollers \cup {ListHead} -> Pollers \cup {NoTicket}]
    BY DEF PollqInv, NoDanglingTicket, TypeOK
  <2>2. wait \in Seq(Pollers) /\ mask \in [Threads -> SUBSET Events]
    BY <2>1 DEF TypeOK
  <2> QED
    BY <2>1, <2>2 DEF Threads
<1>4. \A i \in DOMAIN wait : i \in hit <=> ~PassedOver(hit, i, n) /\ mask[wait[i]] \cap set # {}
  BY <1>1, <1>12 DEF Hits
<1>3. /\ wait' \in Seq(Pollers) /\ NoDuplicates(wait)' /\ Chain'
      /\ waitend' \in Pollers \cup {ListHead} /\ tail' = tail
      /\ next' \in [Pollers \cup {ListHead} -> Pollers \cup {NoTicket}]
      /\ \A u : OnList(u)' <=> OnList(u) /\ \A i \in hit : wait[i] # u
  <2>1. \A i \in hit : i - 1 \notin hit
    BY <1>4 DEF PassedOver
  <2> QED
    BY <1>1, <1>2, <1>12, <2>1, Unlinks
<1>5. /\ \A u : u \in blocked' <=> u \in blocked /\ \A i \in hit : wait[i] # u
      /\ \A u : u \in passed' <=> \/ u \in passed /\ \A i \in hit : wait[i] # u
                                  \/ \E i \in DOMAIN wait : PassedOver(hit, i, n) /\ wait[i] = u
  BY <1>1
<1>6. /\ waitmask' \subseteq Events
      /\ \/ waitmask' = waitmask
         \/ \A i \in DOMAIN wait \ hit : ~PassedOver(hit, i, n) => mask[wait[i]] \subseteq waitmask'
  <2>1. CASE \E i \in DOMAIN wait : i - 1 \notin hit /\ Spent(hit, i, n)
    BY <1>1, <1>2, <2>1 DEF TypeOK
  <2>2. CASE ~\E i \in DOMAIN wait : i - 1 \notin hit /\ Spent(hit, i, n)
    <3>1. waitmask' = UNION {mask[u] : u \in {wait[i] : i \in DOMAIN wait \
                                 (hit \cup {j \in DOMAIN wait : PassedOver(hit, j, n)})}}
      BY <1>1, <2>2
    <3> QED
      BY <1>2, <3>1
  <2> QED
    BY <2>1, <2>2
<1>7. /\ \A u : OnList(u) <=> \E i \in DOMAIN wait : wait[i] = u
      /\ \A i, j \in DOMAIN wait : wait[i] = wait[j] => i = j
  BY <1>2 DEF OnList, On, NoDuplicates
<1>8. /\ \A u \in blocked \cup passed : OnList(u)
      /\ \A u \in Pollers : OnList(u) /\ u \notin passed => mask[u] \subseteq waitmask
  BY DEF PollqInv, NoDanglingTicket, QueueInv
<1>9. /\ blocked' \subseteq blocked /\ passed' \subseteq Pollers
      /\ \A u : OnList(u)' => OnList(u)
      /\ \A u : OnList(u)' /\ u \notin blocked' => u \notin blocked
  BY <1>2, <1>3, <1>5 DEF TypeOK
<1>10. \A u \in blocked' \cup passed' : OnList(u)'
  <2>1. ASSUME NEW u, NEW i \in DOMAIN wait, PassedOver(hit, i, n), wait[i] = u PROVE OnList(u)'
    BY <1>3, <1>4, <1>7, <2>1
  <2>2. ASSUME NEW u, u \in blocked \/ u \in passed, \A i \in hit : wait[i] # u PROVE OnList(u)'
    BY <1>3, <1>8, <2>2
  <2> QED
    BY <1>5, <2>1, <2>2
<1>11. ASSUME NEW u \in Pollers, OnList(u)', u \notin passed'
       PROVE  u \notin passed /\ mask[u] \subseteq waitmask' /\ mask[u] \cap set = {}
  <2>1. PICK i \in DOMAIN wait : wait[i] = u
    BY <1>9, <1>7, <1>11
  <2>2. i \notin hit /\ ~PassedOver(hit, i, n)
    BY <1>3, <1>5, <1>11, <2>1
  <2>3. u \notin passed
    BY <1>3, <1>5, <1>11
  <2> QED
    BY <1>4, <1>6, <1>7, <1>8, <2>1, <2>2, <2>3
<1> QED
  BY <1>3, <1>6, <1>9, <1>10, <1>11

\* pollq_notify_n(): who is left asleep did not wait for these events, or was
\* passed over
LEMMA NotifyInv ==
    ASSUME Keeping, PollqInv, NEW t \in Setters, pollq_notify_n(t)
    PROVE  PollqInv'
<1>1. /\ TypeOK /\ t \in Threads /\ pc[t] = "notify" /\ ~OnList(t) /\ mask[t] \in SUBSET Events
      /\ WaitlockFree /\ Return(t) /\ events' = events
  BY DEF PollqInv, TypeOK, NoDanglingTicket, OnList, On, Threads, pollq_notify_n, At
<1>2. /\ wait' \in Seq(Pollers) /\ NoDuplicates(wait)' /\ Chain'
      /\ waitend' \in Pollers \cup {ListHead} /\ tail' = tail
      /\ next' \in [Pollers \cup {ListHead} -> Pollers \cup {NoTicket}]
      /\ blocked' \subseteq blocked /\ passed' \subseteq Pollers /\ waitmask' \subseteq Events
      /\ \A u : OnList(u)' => OnList(u)
      /\ \A u : OnList(u)' /\ u \notin blocked' => u \notin blocked
      /\ \A u \in blocked' \cup passed' : OnList(u)'
      /\ \A u \in Pollers : OnList(u)' /\ u \notin passed' =>
            u \notin passed /\ mask[u] \subseteq waitmask' /\ mask[u] \cap mask[t] = {}
  <2>1. CASE waitmask \cap mask[t] # {}
    <3>1. Walk(mask[t], limit[t])
      BY <2>1 DEF pollq_notify_n
    <3> QED
      BY <1>1, <3>1, WalkLeaves
  <2>2. CASE waitmask \cap mask[t] = {}
    <3>1. UNCHANGED <<waitmask, wait, next, waitend, tail, passed, blocked>>
      BY <2>2 DEF pollq_notify_n, queueVars
    <3>2. (\A u : OnList(u)' <=> OnList(u)) /\ NoDuplicates(wait)' /\ Chain'
      <4>1. Chain
        BY <1>1, Unbroken
      <4> QED
        BY <3>1, <4>1, Zenon DEF PollqInv, NoDanglingTicket, OnList, Chain, PrevOf
    <3>3. /\ wait \in Seq(Pollers) /\ waitend \in Pollers \cup {ListHead}
          /\ next \in [Pollers \cup {ListHead} -> Pollers \cup {NoTicket}]
          /\ passed \subseteq Pollers /\ waitmask \subseteq Events
      BY <1>1 DEF TypeOK
    <3> QED
      BY <2>2, <3>1, <3>2, <3>3 DEF PollqInv, NoDanglingTicket, QueueInv
  <2> QED
    BY <2>1, <2>2
<1>3. /\ pc'[t] = "out" /\ \A u \in Threads \ {t} : pc'[u] = pc[u] /\ mask'[u] = mask[u]
      /\ pc' \in [Threads -> Places] /\ mask' \in [Threads -> SUBSET Events]
      /\ limit' \in [Threads -> Limits \cup {0}] /\ late' = late \ {t}
      /\ late' \subseteq timed' /\ timed' \subseteq Pollers
  BY <1>1, Returns
<1>4. \A u \in Pollers : OnList(u)' => u # t /\ OnList(u) /\ pc'[u] = pc[u] /\ mask'[u] = mask[u]
  BY <1>1, <1>2, <1>3 DEF Threads
<1>5. TypeOK'
  BY <1>1, <1>2, <1>3 DEF TypeOK, Places
<1>6. NoDanglingTicket'
  <2>1. /\ \A u \in Pollers : OnList(u)' => At(u, "link")' \/ At(u, "sleep")'
        /\ \A u \in blocked' : OnList(u)'
    BY <1>2, <1>4 DEF PollqInv, NoDanglingTicket, At
  <2> QED
    BY <1>2, <2>1, Zenon DEF NoDanglingTicket
<1>7. NoMissedEvent'
  <2> SUFFICES ASSUME NEW u \in blocked' \ passed', events' \cap mask'[u] # {}
               PROVE  \E v \in Setters : pc'[v] = "notify" /\ mask'[v] \cap mask'[u] # {}
    BY Zenon DEF NoMissedEvent, NotifiedSoon, At
  <2>1. u \in Pollers /\ u \in blocked \ passed /\ mask'[u] = mask[u] /\ mask[u] \cap mask[t] = {}
    BY <1>1, <1>2, <1>4 DEF TypeOK
  <2>2. PICK v \in Setters : pc[v] = "notify" /\ mask[v] \cap mask[u] # {}
    BY <1>1, <2>1 DEF PollqInv, NoMissedEvent, NotifiedSoon, At
  <2>3. v # t /\ v \in Threads
    BY <2>1, <2>2 DEF Threads
  <2> QED
    BY <1>3, <2>1, <2>2, <2>3
<1>8. /\ \A u \in Pollers : OnList(u)' /\ u \notin passed' => mask'[u] \subseteq waitmask'
      /\ \A u \in Pollers : OnList(u)' /\ u \notin blocked' => At(u, "link")' \/ u \in late'
      /\ \A u \in passed' : OnList(u)'
  BY <1>2, <1>3, <1>4 DEF PollqInv, QueueInv, At
<1>9. \A u \in Pollers : pc'[u] # "register" /\ pc'[u] # "link"
  BY <1>1, <1>3 DEF WaitlockFree, At, Threads
<1>10. LinkInv'
  BY <1>2, <1>9, Rejoined
<1> QED
  BY <1>5, <1>6, <1>7, <1>8, <1>9, <1>10, Zenon DEF PollqInv, QueueInv, At

\* Every step keeps the invariant.
LEMMA StepInv == ASSUME Keeping, PollqInv, [Next]_vars PROVE PollqInv'
<1>1. CASE UNCHANGED vars
  BY <1>1, Zenon DEF vars, PollqInv, TypeOK, NoDanglingTicket, LinkInv, NoMissedEvent, QueueInv,
                     OnList, NotifiedSoon, At, PrevOf
<1>2. ASSUME NEW t \in Pollers, Poll(t) \/ Step(t) PROVE PollqInv'
  BY <1>2, PollInv, WaitInv, LinkTicketInv, CancelInv, Zenon DEF Step
<1>3. ASSUME NEW t \in Setters, Set(t) \/ pollq_notify_n(t) PROVE PollqInv'
  BY <1>3, SetInv, NotifyInv
<1> QED
  BY <1>1, <1>2, <1>3, QuietInv, Zenon DEF Next

Library == INSTANCE FiniteSetTheorems

\* The theorems of the instance are about the same operators.
LEMMA SameOperators ==
    \A S : Cardinality(S) = Library!Cardinality(S) /\ (IsFiniteSet(S) <=> Library!IsFiniteSet(S))
  BY DEF Cardinality, IsFiniteSet, Library!Cardinality, Library!IsFiniteSet

\* The facts about finite sets that the positions of tickets need.
LEMMA Counting ==
    /\ \A n \in Nat : \A S \in SUBSET (1..n) : IsFiniteSet(S)
    /\ Cardinality({}) = 0
    /\ \A S : IsFiniteSet(S) => Cardinality(S) \in Nat /\ (Cardinality(S) = 0 => S = {})
    /\ \A S : IsFiniteSet(S) => \A x : x \notin S => Cardinality(S \cup {x}) = Cardinality(S) + 1
    /\ \A S : IsFiniteSet(S) => \A T \in SUBSET S : Cardinality(T) <= Cardinality(S)
<1>1. \A n \in Nat : \A S \in SUBSET (1..n) : IsFiniteSet(S)
  <2> TAKE n \in Nat
  <2> TAKE S \in SUBSET (1..n)
  <2>1. Library!IsFiniteSet(1..n)
    BY Library!FS_Interval
  <2>2. Library!IsFiniteSet(S)
    BY <2>1, Library!FS_Subset
  <2> QED
    BY <2>2, SameOperators
<1>2. Cardinality({}) = 0
  BY SameOperators, Library!FS_EmptySet
<1>3. \A S : IsFiniteSet(S) => Cardinality(S) \in Nat /\ (Cardinality(S) = 0 => S = {})
  BY SameOperators, Library!FS_CardinalityType, Library!FS_EmptySet
<1>4. \A S : IsFiniteSet(S) => \A x : x \notin S => Cardinality(S \cup {x}) = Cardinality(S) + 1
  BY SameOperators, Library!FS_AddElement
<1>5. \A S : IsFiniteSet(S) => \A T \in SUBSET S : Cardinality(T) <= Cardinality(S)
  BY SameOperators, Library!FS_Subset
<1> QED
  BY <1>1, <1>2, <1>3, <1>4, <1>5

LOCAL INSTANCE WellFoundedInduction

\* A set of natural numbers has a least element.
LEMMA Least ==
    ASSUME NEW S \in SUBSET Nat, S # {}
    PROVE  \E m \in S : \A k \in S : m <= k
<1> DEFINE R == OpToRel(<, Nat)
<1>1. IsWellFoundedOn(R, Nat)
  BY NatLessThanWellFounded
<1> HIDE DEF R
<1>2. PICK x \in S : \A y \in S : ~(<<y, x>> \in R)
  BY <1>1, WFMin
<1>3. ASSUME NEW y \in S PROVE x <= y
  <2>1. x \in Nat /\ y \in Nat
    OBVIOUS
  <2>2. y < x => <<y, x>> \in R
    BY <2>1 DEF R, OpToRel
  <2> QED
    BY <1>2, <2>1, <2>2
<1> QED
  BY <1>3

\* UpTo counts the positions one after the other.
LEMMA UpToCounts ==
    ASSUME NEW n \in Nat, NEW ps \in SUBSET (1..n)
    PROVE  /\ Cardinality(ps) \in Nat
           /\ UpTo(ps, 0) = 0 /\ UpTo(ps, n) = Cardinality(ps)
           /\ \A m \in 0..n : UpTo(ps, m) \in Nat
           /\ \A m \in 1..n : UpTo(ps, m) = UpTo(ps, m - 1) + (IF m \in ps THEN 1 ELSE 0)
           /\ \A p, r \in ps : p < r => UpTo(ps, p) < UpTo(ps, r)
           /\ \A p \in ps : UpTo(ps, p) \in 1..Cardinality(ps)
<1> DEFINE F(p) == {x \in ps : x <= p}
<1>1. /\ \A p : UpTo(ps, p) = Cardinality(F(p))
      /\ \A p, x : x \in F(p) <=> x \in ps /\ x <= p
      /\ \A p : F(p) \in SUBSET ps
  BY Zenon DEF UpTo
<1>2. \A x \in ps : x \in 1..n
  OBVIOUS
<1> HIDE DEF F
<1>3. IsFiniteSet(ps) /\ Cardinality(ps) \in Nat
  BY Counting
<1>4. \A p : F(p) \in SUBSET ps /\ IsFiniteSet(F(p)) /\ Cardinality(F(p)) \in Nat
  <2> TAKE p
  <2>1. F(p) \in SUBSET ps
    BY <1>1
  <2>2. F(p) \in SUBSET (1..n)
    BY <1>2, <2>1
  <2> QED
    BY <2>1, <2>2, Counting
<1>5. UpTo(ps, 0) = 0 /\ UpTo(ps, n) = Cardinality(ps)
  <2>1. F(0) = {} /\ F(n) = ps
    <3>1. \A x \in 1..n : x \notin F(0) /\ (x \in F(n) <=> x \in ps)
      BY <1>1, <1>2
    <3> QED
      BY <1>1, <3>1
  <2> QED
    BY <1>1, <2>1, Counting
<1>6. ASSUME NEW m \in 1..n
      PROVE  UpTo(ps, m) = UpTo(ps, m - 1) + (IF m \in ps THEN 1 ELSE 0)
  <2>1. CASE m \in ps
    <3>1. F(m) = F(m - 1) \cup {m} /\ m \notin F(m - 1)
      <4>1. \A x \in 1..n : x \in F(m) <=> x \in F(m - 1) \/ x = m
        BY <1>1, <1>2, <2>1
      <4>2. m \notin F(m - 1)
        BY <1>1
      <4> QED
        BY <1>1, <4>1, <4>2
    <3>2. Cardinality(F(m)) = Cardinality(F(m - 1)) + 1
      BY <1>4, <3>1, Counting
    <3> QED
      BY <1>1, <2>1, <3>2
  <2>2. CASE m \notin ps
    <3>1. F(m) = F(m - 1)
      <4>1. \A x \in 1..n : x \in F(m) <=> x \in F(m - 1)
        BY <1>1, <1>2, <2>2
      <4> QED
        BY <1>1, <4>1
    <3> QED
      BY <1>1, <1>4, <2>2, <3>1
  <2> QED
    BY <2>1, <2>2
<1>7. ASSUME NEW p \in ps, NEW r \in ps, p < r PROVE UpTo(ps, p) < UpTo(ps, r)
  <2>1. F(p) \cup {r} \in SUBSET F(r) /\ r \notin F(p)
    <3>1. p \in 1..n /\ r \in 1..n
      BY <1>2
    <3>2. \A x \in 1..n : x \in F(p) => x \in F(r)
      BY <1>1, <1>2, <1>7, <3>1
    <3>3. r \in F(r) /\ r \notin F(p)
      BY <1>1, <1>7, <3>1
    <3> QED
      BY <1>1, <3>2, <3>3
  <2>2. /\ Cardinality(F(p) \cup {r}) = Cardinality(F(p)) + 1
        /\ Cardinality(F(p) \cup {r}) <= Cardinality(F(r))
    BY <1>4, <2>1, Counting
  <2> QED
    BY <1>1, <1>4, <2>2
<1>8. ASSUME NEW p \in ps PROVE UpTo(ps, p) \in 1..Cardinality(ps)
  <2>1. F(p) # {}
    BY <1>1, <1>2
  <2>2. Cardinality(F(p)) # 0 /\ Cardinality(F(p)) <= Cardinality(ps)
    BY <1>3, <1>4, <2>1, Counting
  <2> QED
    BY <1>1, <1>3, <1>4, <2>2
<1>9. \A m \in 0..n : UpTo(ps, m) \in Nat
  BY <1>1, <1>4
<1> QED
  BY <1>3, <1>5, <1>6, <1>7, <1>8, <1>9

\* Every number up to that of the positions is the number of one of them.
LEMMA Numbered ==
    ASSUME NEW n \in Nat, NEW ps \in SUBSET (1..n), NEW k \in 1..Cardinality(ps)
    PROVE  \E p \in ps : UpTo(ps, p) = k
<1> DEFINE S == {m \in 0..n : UpTo(ps, m) >= k}
<1>1. /\ Cardinality(ps) \in Nat /\ k \in Nat \ {0} /\ k <= Cardinality(ps)
      /\ UpTo(ps, 0) = 0 /\ UpTo(ps, n) = Cardinality(ps)
      /\ \A m \in 0..n : UpTo(ps, m) \in Nat
      /\ \A m \in 1..n : UpTo(ps, m) = UpTo(ps, m - 1) + (IF m \in ps THEN 1 ELSE 0)
  BY UpToCounts
<1>2. n \in S /\ S \in SUBSET Nat
  BY <1>1
<1>3. PICK m \in S : \A x \in S : m <= x
  <2> HIDE DEF S
  <2> QED
    BY <1>2, Least
<1>4. m \in 1..n /\ UpTo(ps, m) >= k
  BY <1>1
<1>5. m - 1 \notin S /\ m - 1 \in 0..n
  BY <1>3, <1>4
<1>6. UpTo(ps, m - 1) < k /\ UpTo(ps, m - 1) \in Nat
  BY <1>1, <1>5
<1>7. CASE m \in ps
  <2>1. UpTo(ps, m) = UpTo(ps, m - 1) + 1
    BY <1>1, <1>4, <1>7
  <2>2. UpTo(ps, m) = k
    BY <1>1, <1>4, <1>6, <2>1
  <2> QED
    BY <1>7, <2>2
<1>8. CASE m \notin ps
  <2>1. UpTo(ps, m) = UpTo(ps, m - 1) + 0
    BY <1>1, <1>4, <1>8
  <2> QED
    BY <1>1, <1>4, <1>6, <2>1
<1> QED
  BY <1>7, <1>8

\* Unlinking tickets keeps the others, once each and in their order.
LEMMA KeepingHolds == Keeping
<1> SUFFICES ASSUME NEW q \in Seq(Pollers), NEW ps \in SUBSET DOMAIN q, NoDuplicates(q)
             PROVE  Kept(Keep(q, ps), q, ps)
  BY Zenon DEF Keeping
<1> DEFINE n == Len(q)
           c == Cardinality(ps)
           Nth(k) == CHOOSE p \in ps : UpTo(ps, p) = k
           r == Keep(q, ps)
<1>1. n \in Nat /\ DOMAIN q = 1..n /\ ps \in SUBSET (1..n) /\ \A p \in ps : p \in 1..n /\ q[p] \in Pollers
  OBVIOUS
<1>2. /\ c \in Nat /\ UpTo(ps, n) = c
      /\ \A p, x \in ps : p < x => UpTo(ps, p) < UpTo(ps, x)
      /\ \A p \in ps : UpTo(ps, p) \in 1..c
  BY <1>1, UpToCounts
<1>3. \A k \in 1..c : Nth(k) \in ps /\ UpTo(ps, Nth(k)) = k
  <2> TAKE k \in 1..c
  <2>1. \E p \in ps : UpTo(ps, p) = k
    BY <1>1, Numbered
  <2> QED
    BY <2>1
<1>4. r = [k \in 1..c |-> q[Nth(k)]]
  BY DEF Keep
<1> HIDE DEF Nth, r, n, c
<1>5. \A p \in ps : Nth(UpTo(ps, p)) = p
  BY <1>1, <1>2, <1>3
<1>6. r \in Seq(Pollers) /\ DOMAIN r = 1..c /\ Len(r) = c
  <2>1. r \in [1..c -> Pollers]
    BY <1>1, <1>3, <1>4
  <2> QED
    BY <1>2, <2>1
<1>7. NoDuplicates(r)
  <2> SUFFICES ASSUME NEW i \in 1..c, NEW j \in 1..c, r[i] = r[j] PROVE i = j
    BY <1>6 DEF NoDuplicates
  <2>1. Nth(i) = Nth(j)
    BY <1>1, <1>3, <1>4 DEF NoDuplicates
  <2> QED
    BY <1>3, <2>1
<1>8. ASSUME NEW u PROVE On(r, u) <=> \E i \in ps : q[i] = u
  <2>1. ASSUME On(r, u) PROVE \E i \in ps : q[i] = u
    BY <1>3, <1>4, <1>6, <2>1 DEF On
  <2>2. ASSUME NEW i \in ps, q[i] = u PROVE On(r, u)
    <3>1. UpTo(ps, i) \in 1..c /\ r[UpTo(ps, i)] = u
      BY <1>2, <1>4, <1>5, <2>2
    <3> QED
      BY <1>6, <3>1 DEF On
  <2> QED
    BY <2>1, <2>2
<1>9. ASSUME NEW k \in 1..c
      PROVE  \E b \in ps :
                /\ r[k] = q[b]
                /\ k = 1 => \A i \in ps : b <= i
                /\ k # 1 => \E a \in ps : r[k - 1] = q[a] /\ a < b /\ \A i \in ps : i <= a \/ b <= i
  <2> DEFINE b == Nth(k)
             a == Nth(k - 1)
  <2>1. b \in ps /\ b \in Nat /\ UpTo(ps, b) = k /\ r[k] = q[b]
    BY <1>1, <1>3, <1>4
  <2>2. ASSUME k = 1, NEW i \in ps PROVE b <= i
    <3>1. ~ (i < b)
      BY <1>2, <2>1, <2>2
    <3> QED
      BY <1>1, <2>1, <3>1
  <2>3. ASSUME k # 1 PROVE a \in ps /\ r[k - 1] = q[a] /\ a < b /\ \A i \in ps : i <= a \/ b <= i
    <3>1. k - 1 \in 1..c
      BY <1>2, <2>3
    <3>2. a \in ps /\ a \in Nat /\ UpTo(ps, a) = k - 1 /\ r[k - 1] = q[a]
      BY <1>1, <1>3, <1>4, <3>1
    <3> HIDE DEF a, b
    <3>3. a < b
      <4>1. b # a /\ ~ (b < a)
        BY <1>2, <2>1, <3>1, <3>2
      <4> QED
        BY <2>1, <3>2, <4>1
    <3>4. ASSUME NEW i \in ps PROVE i <= a \/ b <= i
      <4>1. i \in Nat /\ UpTo(ps, i) \in 1..c
        BY <1>1, <1>2
      <4>2. (a < i => k - 1 < UpTo(ps, i)) /\ (i < b => UpTo(ps, i) < k)
        BY <1>2, <2>1, <3>2
      <4> QED
        BY <2>1, <3>2, <4>1, <4>2
    <3> QED
      BY <3>2, <3>3, <3>4
  <2> HIDE DEF a, b
  <2> QED
    BY <2>1, <2>2, <2>3, Zenon
<1>10. IF r = <<>> THEN ps = {}
       ELSE \E b \in ps : TailOf(r) = q[b] /\ \A i \in ps : i <= b
  <2>1. CASE r = <<>>
    <3>1. c = 0
      BY <1>6, <2>1
    <3>2. ps = {}
      BY <1>2, <3>1
    <3> QED
      BY <2>1, <3>2
  <2>2. CASE r # <<>>
    <3>1. c \in 1..c
      BY <1>2, <1>6, <2>2
    <3>2. Nth(c) \in ps /\ Nth(c) \in Nat /\ UpTo(ps, Nth(c)) = c /\ TailOf(r) = q[Nth(c)]
      BY <1>1, <1>3, <1>4, <1>6, <2>2, <3>1 DEF TailOf
    <3>3. \A i \in ps : i <= Nth(c)
      <4> TAKE i \in ps
      <4>1. ~ (Nth(c) < i)
        BY <1>2, <3>2
      <4> QED
        BY <1>1, <3>2, <4>1
    <3> QED
      BY <2>2, <3>2, <3>3
  <2> QED
    BY <2>1, <2>2
<1>11. \A k \in DOMAIN r : \E b \in ps :
          /\ r[k] = q[b]
          /\ k = 1 => \A i \in ps : b <= i
          /\ k # 1 => \E a \in ps : r[k - 1] = q[a] /\ a < b /\ \A i \in ps : i <= a \/ b <= i
  BY <1>6, <1>9, Zenon
<1> QED
  BY <1>6, <1>7, <1>8, <1>10, <1>11, Zenon DEF Kept, r

\* While nobody registers a walk comes to every ticket, and who registers has an
\* empty link: what the code asserts of the tail.
LEMMA TailIsGenuine == PollqInv => GenuineTail
<1> SUFFICES ASSUME PollqInv PROVE GenuineTail
  OBVIOUS
<1>1. ASSUME NEW t \in Pollers, At(t, "link") PROVE next[tail[t]] = NoTicket
  <2>1. PICK i \in DOMAIN wait : wait[i] = t
    BY <1>1 DEF PollqInv, LinkInv, OnList, On
  <2> QED
    BY <1>1, <2>1 DEF PollqInv, LinkInv
<1>2. ASSUME WaitlockFree
      PROVE  Linked = DOMAIN wait /\ waitend = TailOf(wait) /\ next[waitend] = NoTicket
  BY <1>2, Unbroken, Zenon DEF Chain
<1> QED
  BY <1>1, <1>2, Zenon DEF GenuineTail

\* For any pollers, setters and events, and any limits: the lists, the events and
\* the threads of a poll queue fit together in every state.
THEOREM PollqInvariance == Spec => []PollqInv
<1>1. Init => PollqInv
  <2>1. Init => TypeOK
    BY DEF Init, InitWith, TypeOK
  <2>2. Init => NoDanglingTicket /\ LinkInv /\ NoMissedEvent /\ QueueInv
    BY DEF Init, InitWith, NoDanglingTicket, OnList, On, NoDuplicates, LinkInv, TailOf,
           NoMissedEvent, QueueInv, At, Threads
  <2> QED
    BY <2>1, <2>2 DEF PollqInv
<1>2. PollqInv /\ [Next]_vars => PollqInv'
  BY KeepingHolds, StepInv
<1> QED
  BY <1>1, <1>2, PTL DEF Spec

\* No ticket outlives the call of its poller, and no sleeper is without one.
THEOREM TicketsDoNotDangle == Spec => []NoDanglingTicket
  BY PollqInvariance, PTL DEF PollqInv

\* The assertion of _pollq_wait() never fails, in whatever order pollers exchange the
\* tail and link their tickets; the links lead to every ticket when the list is walked.
THEOREM WaitendIsTail == Spec => []GenuineTail
  BY PollqInvariance, TailIsGenuine, PTL

\* An event that a sleeper waits for is about to be notified, unless a walk of the
\* list has passed its ticket over.
THEOREM NoEventIsMissed == Spec => []NoMissedEvent
  BY PollqInvariance, PTL DEF PollqInv
=============================================================================
