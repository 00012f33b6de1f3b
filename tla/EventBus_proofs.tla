-------------------------- MODULE EventBus_proofs --------------------------
(***************************************************************************)
(* Proofs about EventBus, for any clients, requests and capacity.          *)
(*                                                                         *)
(* The order: what is retained ascends up to the last event published, so  *)
(* does what is queued for a client, and the next event to be published is *)
(* above both (Retained, Ordered).  It needs nothing of the floor.         *)
(*                                                                         *)
(* The gaps: every event whose commit succeeded at once and that is above  *)
(* trimmedUpTo is in the buffer or about to be published (Floored), so a   *)
(* subscription that subscribe accepts starts with all that its client     *)
(* missed, and a publication either adds to its queue or closes it         *)
(* (Gapless).  Floored starts when the floor is seeded, and is lost if a   *)
(* commit succeeds without seeding it: hence the hypothesis on             *)
(* FloorReadMayFail.                                                       *)
(*                                                                         *)
(* After is a function over the positions of the buffer; what it returns   *)
(* is found through the least position where it would differ.              *)
(***************************************************************************)
EXTENDS EventBus, SequenceTheorems, WellFoundedInduction, TLAPS

(* Events whose only commit succeeded at once.                             *)
Good == confirmed \ unconfirmed

Ascends(s) == \A i, j \in DOMAIN s : i < j => s[i] < s[j]

(* The retained events ascend, up to the last one published.               *)
Retained ==
    /\ lastPublished <= revision
    /\ \A i \in DOMAIN buffer : buffer[i] <= lastPublished
    /\ Ascends(buffer)

(* So do the events in a queue, and the next one to be published is new to *)
(* the client.                                                             *)
Ordered(c) ==
    /\ clients[c].cursor <= revision
    /\ clients[c].status = "out" => clients[c].queue = <<>>
    /\ clients[c].status # "out" =>
           clients[c].cursor = clients[c].after \/ clients[c].cursor <= lastPublished
    /\ clients[c].status = "open" => clients[c].after <= clients[c].cursor
    /\ \A i \in DOMAIN clients[c].queue :
           clients[c].cursor < clients[c].queue[i] /\ clients[c].queue[i] <= lastPublished
    /\ Ascends(clients[c].queue)

ToCome(r) == r = pending /\ r > lastPublished
IsIn(r, s) == \E i \in DOMAIN s : s[i] = r

(* The bus has every good event above its floor.                           *)
Floored ==
    /\ ~seeded => buffer = <<>> /\ pending = 0
    /\ ~seeded => \A c \in Client : clients[c].loaded \in {NotLoading, revision}
    /\ seeded => \A r \in Good : r > trimmedUpTo => ToCome(r) \/ IsIn(r, buffer)

(* A client has seen every good event up to its cursor; up to the end of   *)
(* its queue there is none that is not in the queue, and while it is       *)
(* connected there is none at all that is neither queued nor to come.      *)
Gapless(c) ==
    /\ \A r \in Good :
           clients[c].base < r /\ r <= clients[c].cursor => r \in clients[c].seen
    /\ \A r \in Good : \A k \in DOMAIN clients[c].queue :
           clients[c].cursor < r /\ r <= clients[c].queue[k] => IsIn(r, clients[c].queue)
    /\ clients[c].status = "open" => \A r \in Good :
           r > clients[c].cursor => ToCome(r) \/ IsIn(r, clients[c].queue)

(* A replay can confirm an event that was not good, but not make it good.  *)
Reported == eventful \subseteq confirmed \cup unconfirmed

OrderInv == TypeOK /\ Reported /\ Retained /\ \A c \in Client : Ordered(c)
GapInv == Floored /\ \A c \in Client : Gapless(c)

-----------------------------------------------------------------------------
LEMMA Least ==
  ASSUME NEW S, S \subseteq Nat, S # {}
  PROVE  \E m \in S : \A n \in S : m <= n
<1> DEFINE R == {ss \in Nat \X Nat : ss[1] < ss[2]}
<1>1. IsWellFoundedOn(R, Nat)
  BY NatLessThanWellFounded DEF OpToRel
<1>2. PICK m \in S : \A n \in S : <<n, m>> \notin R
  BY <1>1, WFMin
<1>3. \A n \in S : m <= n
  <2> TAKE n \in S
  <2>1. m \in Nat /\ n \in Nat /\ <<n, m>> \notin R
    BY <1>2
  <2>2. ~(n < m)
    BY <2>1
  <2> QED
    BY <2>1, <2>2
<1> QED
  BY <1>3

(* What subscribe puts into the queue is the end of the retained events.   *)
Sent(events, cursor, sent) ==
    sent = [n \in 0..Len(events) |->
              IF n = 0 THEN <<>>
              ELSE IF events[n] > cursor THEN Append(sent[n - 1], events[n])
              ELSE sent[n - 1]]

LEMMA AfterIsSent ==
  ASSUME NEW events, NEW cursor, NEW f, Sent(events, cursor, f)
  PROVE  \E g : Sent(events, cursor, g) /\ After(events, cursor) = g[Len(events)]
BY DEF After, Sent

LEMMA AfterIsEnd ==
  ASSUME NEW s \in Seq(Nat), NEW cursor \in Nat,
         Ascends(s)
  PROVE  \E k \in 0..Len(s) :
            /\ After(s, cursor) = SubSeq(s, k + 1, Len(s))
            /\ \A i \in 1..k : s[i] <= cursor
            /\ \A i \in (k + 1)..Len(s) : s[i] > cursor
<1>1. Len(s) \in Nat /\ DOMAIN s = 1..Len(s) /\ \A i \in 1..Len(s) : s[i] \in Nat
  OBVIOUS
<1>2. PICK k \in 0..Len(s) : /\ \A i \in 1..k : s[i] <= cursor
                             /\ \A i \in (k + 1)..Len(s) : s[i] > cursor
  <2> DEFINE Above == {i \in 1..Len(s) : s[i] > cursor}
  <2>1. CASE Above = {}
    <3>1. \A i \in 1..Len(s) : s[i] <= cursor
      BY <1>1, <2>1
    <3> QED
      BY <1>1, <3>1
  <2>2. CASE Above # {}
    <3>1. PICK m \in Above : \A n \in Above : m <= n
      <4>1. Above \subseteq Nat
        OBVIOUS
      <4> HIDE DEF Above
      <4> QED
        BY <2>2, <4>1, Least
    <3>2. m \in 1..Len(s) /\ s[m] > cursor
      BY <3>1
    <3>3. \A i \in 1..(m - 1) : s[i] <= cursor
      BY <1>1, <3>1, <3>2
    <3>4. \A i \in m..Len(s) : s[i] > cursor
      <4> TAKE i \in m..Len(s)
      <4>1. i \in DOMAIN s /\ m \in DOMAIN s /\ s[i] \in Nat /\ s[m] \in Nat
        BY <1>1, <3>2
      <4>2. i = m \/ s[m] < s[i]
        BY <1>1, <3>2, <4>1 DEF Ascends
      <4> QED
        BY <3>2, <4>1, <4>2
    <3>5. m - 1 \in 0..Len(s) /\ (m - 1) + 1 = m
      BY <1>1, <3>2
    <3> QED
      BY <3>3, <3>4, <3>5
  <2> QED
    BY <2>1, <2>2
<1>3. \A n \in 1..Len(s) :
         SubSeq(s, k + 1, n) = IF s[n] > cursor
                               THEN Append(SubSeq(s, k + 1, n - 1), s[n])
                               ELSE SubSeq(s, k + 1, n - 1)
  <2> TAKE n \in 1..Len(s)
  <2>1. CASE n <= k
    <3>1. ~(s[n] > cursor)
      BY <1>1, <1>2, <2>1
    <3>2. k + 1 \in Int /\ n \in Int /\ n - 1 \in Int /\ n < k + 1 /\ n - 1 < k + 1
      BY <1>1, <2>1
    <3>3. SubSeq(s, k + 1, n) = <<>> /\ SubSeq(s, k + 1, n - 1) = <<>>
      BY <3>2, SubSeqEmpty
    <3> QED
      BY <3>1, <3>3
  <2>2. CASE n > k
    <3>1. s[n] > cursor /\ k + 1 \in 1..Len(s) /\ n \in (k + 1)..Len(s)
      BY <1>1, <1>2, <2>2
    <3>2. SubSeq(s, k + 1, n) = SubSeq(s, k + 1, n - 1) \o <<s[n]>>
      BY <3>1, SubSeqRecursiveSecond
    <3>3. SubSeq(s, k + 1, n - 1) \in Seq(Nat)
      BY <1>1, <1>2, <2>2, SubSeqProperties
    <3>4. s[n] \in Nat
      BY <1>1
    <3>5. Append(SubSeq(s, k + 1, n - 1), s[n]) = SubSeq(s, k + 1, n - 1) \o <<s[n]>>
      BY <3>3, <3>4, AppendIsConcat
    <3> QED
      BY <3>1, <3>2, <3>5
  <2> QED
    BY <1>1, <1>2, <2>1, <2>2
<1>4. SubSeq(s, k + 1, 0) = <<>>
  BY <1>2, SubSeqEmpty
<1> DEFINE f == [n \in 0..Len(s) |-> SubSeq(s, k + 1, n)]
<1>5. Sent(s, cursor, f)
  <2>1. \A n \in 0..Len(s) : f[n] = IF n = 0 THEN <<>>
                                    ELSE IF s[n] > cursor THEN Append(f[n - 1], s[n])
                                    ELSE f[n - 1]
    <3> TAKE n \in 0..Len(s)
    <3>1. CASE n = 0
      BY <1>1, <1>4, <3>1
    <3>2. CASE n # 0
      <4>1. n \in 1..Len(s) /\ n - 1 \in 0..Len(s)
        BY <1>1, <3>2
      <4>2. f[n] = SubSeq(s, k + 1, n) /\ f[n - 1] = SubSeq(s, k + 1, n - 1)
        BY <4>1
      <4> QED
        BY <1>3, <3>2, <4>1, <4>2
    <3> QED
      BY <3>1, <3>2
  <2>2. f = [n \in 0..Len(s) |-> f[n]]
    OBVIOUS
  <2> HIDE DEF f
  <2> QED
    BY <2>1, <2>2 DEF Sent
<1> HIDE DEF f
<1>6. PICK g : Sent(s, cursor, g) /\ After(s, cursor) = g[Len(s)]
  BY <1>5, AfterIsSent
<1>7. \A n \in 0..Len(s) : g[n] = SubSeq(s, k + 1, n)
  <2> DEFINE Bad == {n \in 0..Len(s) : g[n] # SubSeq(s, k + 1, n)}
  <2>1. SUFFICES ASSUME Bad # {} PROVE FALSE
    OBVIOUS
  <2>2. PICK m \in Bad : \A n \in Bad : m <= n
    <3>1. Bad \subseteq Nat
      BY <1>1
    <3> HIDE DEF Bad
    <3> QED
      BY <2>1, <3>1, Least
  <2>3. m \in 0..Len(s) /\ g[m] # SubSeq(s, k + 1, m)
    BY <2>2
  <2>4. CASE m = 0
    BY <1>1, <1>4, <1>6, <2>3, <2>4 DEF Sent
  <2>5. CASE m # 0
    <3>1. m \in 1..Len(s) /\ m - 1 \in 0..Len(s) /\ ~(m <= m - 1)
      BY <1>1, <2>3, <2>5
    <3>2. g[m - 1] = SubSeq(s, k + 1, m - 1)
      BY <2>2, <3>1
    <3>3. g[m] = IF s[m] > cursor THEN Append(g[m - 1], s[m]) ELSE g[m - 1]
      BY <1>6, <2>5, <3>1 DEF Sent
    <3> QED
      BY <1>3, <2>3, <3>1, <3>2, <3>3
  <2> QED
    BY <2>4, <2>5
<1>8. After(s, cursor) = SubSeq(s, k + 1, Len(s))
  BY <1>1, <1>6, <1>7
<1> QED
  BY <1>2, <1>8

-----------------------------------------------------------------------------
(* Commits and replays: what they add to the good events is still to be    *)
(* published.                                                              *)
Bounds ==
    /\ \A r \in eventful : r \in Nat /\ r <= revision /\ r # 0
    /\ pending \in Nat /\ pending <= revision

LEMMA BoundsHold ==
  ASSUME TypeOK
  PROVE  Bounds
BY DEF TypeOK, Bounds

LEMMA FloorStep ==
  ASSUME TypeOK, EnsureFloor
  PROVE  /\ seeded' \in BOOLEAN /\ trimmedUpTo' \in Nat
         /\ ~FloorReadMayFail =>
               seeded' /\ trimmedUpTo' = IF seeded THEN trimmedUpTo ELSE revision
BY DEF TypeOK, EnsureFloor, SeedFloor

StoreStep ==
    /\ pending = 0
    /\ EnsureFloor
    /\ UNCHANGED <<lastPublished, buffer, clients>>
    /\ revision' \in Nat /\ revision <= revision'
    /\ eventful' \subseteq 1..revision'
    /\ ledger' \in [RequestID -> Nat]
    /\ pending' \in eventful' \cup {0}
    /\ confirmed' \subseteq eventful' /\ unconfirmed' \subseteq eventful'
    /\ Reported'
    /\ \A r \in Good' : r \in Good \/ (r = pending' /\ r > revision)

LEMMA CommitIsStoreStep ==
  ASSUME TypeOK, Reported, NEW q \in RequestID, NEW hasEvent \in BOOLEAN, Commit(q, hasEvent)
  PROVE  StoreStep
<1>1. revision' = revision + 1 /\ revision \in Nat
  BY DEF Commit, TypeOK
<1>2. /\ pending = 0 /\ EnsureFloor
      /\ UNCHANGED <<lastPublished, buffer, clients>>
      /\ ledger' = [ledger EXCEPT ![q] = revision']
      /\ eventful' = IF hasEvent THEN eventful \cup {revision'} ELSE eventful
  BY DEF Commit
<1>3. ledger' \in [RequestID -> Nat]
  BY <1>1, <1>2 DEF TypeOK
<1>4. eventful' \subseteq 1..revision' /\ eventful \subseteq eventful'
  BY <1>1, <1>2 DEF TypeOK
<1>5. CASE /\ pending' = IF hasEvent THEN revision' ELSE 0
           /\ confirmed' = confirmed \cup ({revision'} \cap eventful')
           /\ UNCHANGED unconfirmed
  <2>1. pending' \in eventful' \cup {0}
    BY <1>2, <1>5
  <2>2. confirmed' \subseteq eventful' /\ unconfirmed' \subseteq eventful' /\ Reported'
    BY <1>2, <1>4, <1>5 DEF TypeOK, Reported
  <2>3. \A r \in Good' : r \in Good \/ (r = pending' /\ r > revision)
    <3> TAKE r \in Good'
    <3>1. CASE r \in confirmed
      BY <1>5, <3>1 DEF Good
    <3>2. CASE r \notin confirmed
      <4>1. r = revision' /\ r \in eventful'
        BY <1>5, <3>2 DEF Good
      <4>2. hasEvent
        BY <1>1, <1>2, <4>1 DEF TypeOK
      <4> QED
        BY <1>1, <1>5, <4>1, <4>2
    <3> QED
      BY <3>1, <3>2
  <2> QED
    BY <1>1, <1>2, <1>3, <1>4, <2>1, <2>2, <2>3 DEF StoreStep
<1>6. CASE /\ unconfirmed' = unconfirmed \cup ({revision'} \cap eventful')
           /\ UNCHANGED <<pending, confirmed>>
  <2>1. pending' \in eventful' \cup {0}
    BY <1>2, <1>6
  <2>2. confirmed' \subseteq eventful' /\ unconfirmed' \subseteq eventful' /\ Reported'
    BY <1>2, <1>4, <1>6 DEF TypeOK, Reported
  <2>3. \A r \in Good' : r \in Good
    BY <1>6 DEF Good
  <2> QED
    BY <1>1, <1>2, <1>3, <1>4, <2>1, <2>2, <2>3 DEF StoreStep
<1> QED
  BY <1>5, <1>6 DEF Commit

LEMMA ReplayIsStoreStep ==
  ASSUME TypeOK, Reported, NEW q \in RequestID, Replay(q)
  PROVE  StoreStep
<1>1. /\ pending = 0 /\ EnsureFloor
      /\ UNCHANGED <<lastPublished, buffer, clients>>
      /\ UNCHANGED <<revision, eventful, ledger, unconfirmed>>
  BY DEF Replay, store
<1>2. /\ pending' \in eventful \cup {0}
      /\ confirmed' \in {confirmed, confirmed \cup ({ledger[q]} \cap eventful)}
  BY <1>1 DEF Replay, TypeOK
<1>3. /\ confirmed' \subseteq eventful' /\ unconfirmed' \subseteq eventful' /\ Reported'
      /\ \A r \in Good' : r \in Good
  BY <1>1, <1>2 DEF TypeOK, Reported, Good
<1>4. revision \in Nat /\ revision <= revision /\ eventful \subseteq 1..revision
      /\ ledger \in [RequestID -> Nat]
  BY DEF TypeOK
<1> QED
  BY <1>1, <1>2, <1>3, <1>4 DEF StoreStep

LEMMA StoreStepKeeps ==
  ASSUME OrderInv, StoreStep
  PROVE  OrderInv' /\ (~FloorReadMayFail /\ GapInv => GapInv')
<1> USE DEF OrderInv
<1>1. Bounds /\ (Bounds)'
  BY BoundsHold DEF StoreStep, TypeOK, Bounds
<1>2. TypeOK'
  <2>1. seeded' \in BOOLEAN /\ trimmedUpTo' \in Nat
    BY FloorStep DEF StoreStep
  <2> QED
    BY <2>1 DEF TypeOK, StoreStep
<1>3. revision \in Nat /\ revision' \in Nat /\ revision <= revision' /\ lastPublished \in Nat
  BY DEF StoreStep, TypeOK
<1>4. Retained'
  BY <1>3 DEF StoreStep, Retained
<1>5. \A c \in Client : Ordered(c)'
  <2> TAKE c \in Client
  <2>1. Ordered(c) /\ clients[c].cursor \in Nat
    BY DEF TypeOK, Subscription
  <2> QED
    BY <1>3, <2>1 DEF StoreStep, Ordered
<1>6. ASSUME ~FloorReadMayFail, GapInv
      PROVE  GapInv'
  <2>1. seeded' /\ trimmedUpTo' = IF seeded THEN trimmedUpTo ELSE revision
    BY <1>6, FloorStep DEF StoreStep
  <2>2. \A r \in Good : r \in Nat /\ r <= revision /\ ~ToCome(r)
    BY <1>1 DEF Good, TypeOK, Bounds, ToCome, StoreStep
  <2>3. \A r \in Good' : r \notin Good => ToCome(r)' /\ r > revision
    BY <1>3 DEF Retained, ToCome, StoreStep
  <2>6. \A r \in Good' : r \in Nat
    BY <1>1, <1>2 DEF Good, TypeOK, Bounds
  <2>4. Floored'
    <3>1. ASSUME NEW r \in Good', r > trimmedUpTo'
          PROVE  ToCome(r)' \/ IsIn(r, buffer)'
      <4>1. CASE r \in Good
        <5>1. seeded /\ r > trimmedUpTo
          BY <1>3, <2>1, <2>2, <3>1, <4>1
        <5> QED
          BY <1>6, <2>2, <4>1, <5>1 DEF GapInv, Floored, IsIn, StoreStep
      <4> QED
        BY <2>3, <4>1
    <3> QED
      BY <2>1, <3>1 DEF Floored
  <2>5. \A c \in Client : Gapless(c)'
    <3> TAKE c \in Client
    <3>1. clients'[c] = clients[c] /\ clients[c] \in Subscription
      <4>1. clients' = clients
        BY DEF StoreStep
      <4>2. clients[c] \in Subscription
        BY DEF TypeOK
      <4> QED
        BY <4>1, <4>2
    <3>0. Ordered(c)
      OBVIOUS
    <3>2. clients[c].cursor <= revision /\ clients[c].cursor \in Nat
      BY <3>1, <3>0 DEF Ordered, Subscription
    <3>3. \A k \in DOMAIN clients[c].queue :
            clients[c].queue[k] \in Nat /\ clients[c].queue[k] <= revision
      <4> TAKE k \in DOMAIN clients[c].queue
      <4>1. clients[c].queue[k] \in Nat
        BY <3>1 DEF Subscription
      <4>2. clients[c].queue[k] <= lastPublished
        BY <3>0 DEF Ordered
      <4> QED
        BY <1>3, <4>1, <4>2 DEF Retained
    <3>4. Gapless(c)
      BY <1>6 DEF GapInv
    <3>5. \A r \in Good' : clients[c].base < r /\ r <= clients[c].cursor => r \in clients[c].seen
      BY <1>3, <2>3, <2>6, <3>2, <3>4 DEF Gapless
    <3>6. \A r \in Good' : \A k \in DOMAIN clients[c].queue :
             clients[c].cursor < r /\ r <= clients[c].queue[k] => IsIn(r, clients[c].queue)
      BY <1>3, <2>3, <2>6, <3>3, <3>4 DEF Gapless
    <3>7. clients[c].status = "open" => \A r \in Good' :
             r > clients[c].cursor => ToCome(r)' \/ IsIn(r, clients[c].queue)
      BY <2>2, <2>3, <3>4 DEF Gapless
    <3> QED
      BY <3>1, <3>5, <3>6, <3>7 DEF Gapless, IsIn
  <2> QED
    BY <2>4, <2>5 DEF GapInv
<1> QED
  BY <1>2, <1>4, <1>5, <1>6 DEF StoreStep

-----------------------------------------------------------------------------
(* Publication.                                                            *)

LEMMA AppendAscends ==
  ASSUME NEW s \in Seq(Nat), Ascends(s), NEW r \in Nat,
         \A i \in DOMAIN s : s[i] < r
  PROVE  /\ Append(s, r) \in Seq(Nat) /\ Len(Append(s, r)) = Len(s) + 1
         /\ Ascends(Append(s, r))
         /\ \A i \in DOMAIN Append(s, r) : IF i \in DOMAIN s THEN Append(s, r)[i] = s[i]
                                                           ELSE Append(s, r)[i] = r
         /\ \A x : IsIn(x, s) \/ x = r => IsIn(x, Append(s, r))
<1> DEFINE t == Append(s, r)
<1>1. /\ t \in Seq(Nat) /\ Len(t) = Len(s) + 1 /\ Len(s) \in Nat
      /\ DOMAIN s = 1..Len(s) /\ DOMAIN t = 1..(Len(s) + 1)
      /\ \A i \in 1..Len(s) : t[i] = s[i]
      /\ t[Len(s) + 1] = r
  OBVIOUS
<1> HIDE DEF t
<1>2. \A i \in DOMAIN t : IF i \in DOMAIN s THEN t[i] = s[i] ELSE t[i] = r /\ i = Len(s) + 1
  BY <1>1
<1>3. Ascends(t)
  <2> SUFFICES ASSUME NEW i \in DOMAIN t, NEW j \in DOMAIN t, i < j
               PROVE  t[i] < t[j]
    BY DEF Ascends
  <2>1. i \in DOMAIN s
    BY <1>1
  <2>2. t[i] = s[i]
    BY <1>2, <2>1
  <2>3. CASE j \in DOMAIN s
    BY <1>2, <2>1, <2>2, <2>3 DEF Ascends
  <2>4. CASE j \notin DOMAIN s
    BY <1>2, <2>1, <2>2, <2>4
  <2> QED
    BY <2>3, <2>4
<1>4. \A x : IsIn(x, s) \/ x = r => IsIn(x, t)
  BY <1>1 DEF IsIn
<1> QED
  BY <1>1, <1>2, <1>3, <1>4 DEF t

LEMMA TailAscends ==
  ASSUME NEW s \in Seq(Nat), s # <<>>, Ascends(s)
  PROVE  /\ Tail(s) \in Seq(Nat) /\ Len(Tail(s)) = Len(s) - 1 /\ Head(s) \in Nat
         /\ Ascends(Tail(s))
         /\ \A i \in DOMAIN Tail(s) :
               i + 1 \in DOMAIN s /\ Tail(s)[i] = s[i + 1] /\ Head(s) < Tail(s)[i]
         /\ \A x : IsIn(x, s) => x = Head(s) \/ IsIn(x, Tail(s))
<1> DEFINE t == Tail(s)
<1>1. /\ t \in Seq(Nat) /\ Len(t) = Len(s) - 1 /\ Len(s) \in Nat \ {0}
      /\ DOMAIN s = 1..Len(s) /\ DOMAIN t = 1..(Len(s) - 1)
      /\ \A i \in 1..(Len(s) - 1) : t[i] = s[i + 1]
      /\ Head(s) = s[1] /\ s[1] \in Nat
  OBVIOUS
<1> HIDE DEF t
<1>2. \A i \in DOMAIN t : i + 1 \in DOMAIN s /\ t[i] = s[i + 1] /\ s[1] < t[i]
  <2> TAKE i \in DOMAIN t
  <2>1. i \in Nat /\ i + 1 \in 1..Len(s) /\ 1 \in 1..Len(s) /\ 1 < i + 1
    BY <1>1
  <2>2. t[i] = s[i + 1]
    BY <1>1
  <2>3. s[1] < s[i + 1]
    BY <1>1, <2>1 DEF Ascends
  <2> QED
    BY <1>1, <2>1, <2>2, <2>3
<1>3. Ascends(t)
  <2> SUFFICES ASSUME NEW i \in DOMAIN t, NEW j \in DOMAIN t, i < j
               PROVE  t[i] < t[j]
    BY DEF Ascends
  <2>0. i \in 1..(Len(s) - 1) /\ j \in 1..(Len(s) - 1)
    BY <1>1
  <2>1. i \in Nat /\ j \in Nat
    BY <1>1, <2>0
  <2>3. i + 1 < j + 1
    BY <2>1
  <2>2. s[i + 1] < s[j + 1]
    BY <1>2, <2>3 DEF Ascends
  <2> QED
    BY <1>2, <2>2
<1>4. \A x : IsIn(x, s) => x = s[1] \/ IsIn(x, t)
  <2> SUFFICES ASSUME NEW i \in DOMAIN s
               PROVE  s[i] = s[1] \/ IsIn(s[i], t)
    BY DEF IsIn
  <2>1. CASE i = 1
    BY <2>1
  <2>2. CASE i # 1
    <3>1. i - 1 \in 1..(Len(s) - 1) /\ (i - 1) + 1 = i
      BY <1>1, <2>2
    <3>2. i - 1 \in DOMAIN t /\ t[i - 1] = s[i]
      BY <1>1, <3>1
    <3> QED
      BY <3>2 DEF IsIn
  <2> QED
    BY <2>1, <2>2
<1> QED
  BY <1>1, <1>2, <1>3, <1>4 DEF t

LEMMA PublishOldKeeps ==
  ASSUME OrderInv, Publish, ~IsNew(pending)
  PROVE  OrderInv' /\ (GapInv => GapInv')
<1>1. /\ pending # 0 /\ pending' = 0
      /\ UNCHANGED <<lastPublished, buffer, trimmedUpTo, clients, seeded>>
      /\ UNCHANGED <<revision, eventful, ledger, confirmed, unconfirmed>>
  BY DEF Publish, store, history
<1>2. TypeOK'
  BY <1>1 DEF OrderInv, TypeOK
<1>3. Reported' /\ Retained' /\ \A c \in Client : Ordered(c)'
  BY <1>1 DEF OrderInv, Reported, Retained, Ordered
<1>4. \A r : ~ToCome(r)
  BY DEF ToCome, IsNew
<1>5. ASSUME GapInv
      PROVE  GapInv'
  <2>1. Good' = Good
    BY <1>1 DEF Good
  <2>2. Floored'
    BY <1>1, <1>4, <1>5, <2>1 DEF GapInv, Floored, IsIn
  <2>3. \A c \in Client : Gapless(c)'
    <3> TAKE c \in Client
    <3>1. Gapless(c)
      BY <1>5 DEF GapInv
    <3> QED
      BY <1>1, <1>4, <2>1, <3>1 DEF Gapless, IsIn
  <2> QED
    BY <2>2, <2>3 DEF GapInv
<1> QED
  BY <1>2, <1>3, <1>5 DEF OrderInv

(* What a publication leaves of the buffer, before it adds its event.      *)
Kept == IF Len(buffer) = Capacity THEN Tail(buffer) ELSE buffer

LEMMA PublishNewKeeps ==
  ASSUME OrderInv, Publish, IsNew(pending)
  PROVE  OrderInv' /\ (GapInv => GapInv')
<1> DEFINE p == pending
<1>1. /\ p # 0 /\ pending' = 0 /\ lastPublished' = p
      /\ buffer' = Append(Kept, p)
      /\ trimmedUpTo' = IF Len(buffer) = Capacity /\ Head(buffer) > trimmedUpTo
                        THEN Head(buffer) ELSE trimmedUpTo
      /\ clients' = [c \in Client |-> Offered(clients[c], p)]
      /\ UNCHANGED <<revision, eventful, ledger, seeded, confirmed, unconfirmed>>
  BY DEF Publish, Kept, store, history
<1>2. /\ p \in Nat /\ p \in eventful /\ p <= revision /\ revision \in Nat
      /\ lastPublished \in Nat /\ lastPublished < p
  BY <1>1, BoundsHold DEF OrderInv, Bounds, TypeOK, IsNew
<1> HIDE DEF p
<1>3. /\ buffer \in Seq(Nat) /\ Ascends(buffer) /\ Len(buffer) <= Capacity /\ Len(buffer) \in Nat
      /\ trimmedUpTo \in Nat /\ Capacity \in Nat \ {0}
      /\ \A i \in DOMAIN buffer : buffer[i] \in Nat /\ buffer[i] <= lastPublished
  BY CapacityAssumption DEF OrderInv, TypeOK, Retained
<1>4. /\ Kept \in Seq(Nat) /\ Len(Kept) < Capacity /\ Len(Kept) \in Nat /\ Ascends(Kept)
      /\ \A i \in DOMAIN Kept : Kept[i] < p
      /\ trimmedUpTo' \in Nat /\ trimmedUpTo <= trimmedUpTo'
      /\ \A r \in Nat : r > trimmedUpTo' /\ IsIn(r, buffer) => IsIn(r, Kept)
  <2>1. CASE Len(buffer) = Capacity
    <3>1. buffer # <<>> /\ Kept = Tail(buffer)
      BY <1>3, <2>1 DEF Kept
    <3>2. /\ Kept \in Seq(Nat) /\ Len(Kept) = Len(buffer) - 1 /\ Head(buffer) \in Nat
          /\ Ascends(Kept)
          /\ \A i \in DOMAIN Kept : i + 1 \in DOMAIN buffer /\ Kept[i] = buffer[i + 1]
          /\ \A x : IsIn(x, buffer) => x = Head(buffer) \/ IsIn(x, Kept)
      BY <1>3, <3>1, TailAscends
    <3>3. \A i \in DOMAIN Kept : Kept[i] < p
      BY <1>2, <1>3, <3>2
    <3>4. trimmedUpTo' \in Nat /\ trimmedUpTo <= trimmedUpTo' /\ Head(buffer) <= trimmedUpTo'
      BY <1>1, <1>3, <2>1, <3>2
    <3> QED
      BY <1>3, <3>2, <3>3, <3>4
  <2>2. CASE Len(buffer) # Capacity
    BY <1>1, <1>2, <1>3, <2>2 DEF Kept
  <2> QED
    BY <2>1, <2>2
<1>5. /\ buffer' \in Seq(Nat) /\ Len(buffer') <= Capacity /\ Ascends(buffer')
      /\ \A i \in DOMAIN buffer' : buffer'[i] <= p
      /\ \A x : IsIn(x, Kept) \/ x = p => IsIn(x, buffer')
  <2>1. /\ Append(Kept, p) \in Seq(Nat) /\ Len(Append(Kept, p)) = Len(Kept) + 1
        /\ Ascends(Append(Kept, p))
        /\ \A i \in DOMAIN Append(Kept, p) : IF i \in DOMAIN Kept THEN Append(Kept, p)[i] = Kept[i]
                                                                 ELSE Append(Kept, p)[i] = p
        /\ \A x : IsIn(x, Kept) \/ x = p => IsIn(x, Append(Kept, p))
    BY <1>2, <1>4, AppendAscends
  <2>2. \A i \in DOMAIN Append(Kept, p) : Append(Kept, p)[i] <= p
    BY <1>2, <1>4, <2>1
  <2> QED
    BY <1>1, <1>3, <1>4, <2>1, <2>2
<1>6. \A c \in Client :
         /\ clients'[c] \in Subscription /\ Len(clients'[c].queue) <= Capacity
         /\ Ordered(c)'
         /\ GapInv => Gapless(c)'
  <2> TAKE c \in Client
  <2> DEFINE s == clients[c]
  <2> DEFINE d == clients'[c]
  <2>1. d = Offered(s, p)
    BY <1>1
  <2>2. /\ s \in Subscription /\ Len(s.queue) <= Capacity /\ Ordered(c)
        /\ s.cursor \in Nat /\ s.after \in Nat /\ s.queue \in Seq(Nat) /\ Len(s.queue) \in Nat
        /\ \A i \in DOMAIN s.queue : s.queue[i] \in Nat
    BY DEF OrderInv, TypeOK, Subscription
  <2>3. /\ s.cursor <= revision
        /\ s.status = "out" => s.queue = <<>>
        /\ s.status # "out" => s.cursor = s.after \/ s.cursor <= lastPublished
        /\ s.status = "open" => s.after <= s.cursor
        /\ \A i \in DOMAIN s.queue : s.cursor < s.queue[i] /\ s.queue[i] <= lastPublished
        /\ Ascends(s.queue)
    BY <2>2 DEF Ordered
  <2>4. ASSUME GapInv
        PROVE  /\ \A r \in Good : s.base < r /\ r <= s.cursor => r \in s.seen
               /\ \A r \in Good : \A k \in DOMAIN s.queue :
                     s.cursor < r /\ r <= s.queue[k] => IsIn(r, s.queue)
               /\ s.status = "open" => \A r \in Good :
                     r > s.cursor => r = p \/ IsIn(r, s.queue)
    BY <2>4 DEF GapInv, Gapless, ToCome, p
  <2>5. \A r \in Good : r \in Nat
    BY BoundsHold DEF OrderInv, TypeOK, Bounds, Good
  <2>6. Good' = Good
    BY <1>1 DEF Good
  <2> SUFFICES
        /\ d \in Subscription /\ Len(d.queue) <= Capacity
        /\ d.cursor = s.cursor /\ d.base = s.base /\ d.seen = s.seen /\ d.after = s.after
        /\ d.status = "out" => d.queue = <<>>
        /\ d.status # "out" => s.status # "out"
        /\ d.status = "open" => s.status = "open"
        /\ \A i \in DOMAIN d.queue : s.cursor < d.queue[i] /\ d.queue[i] <= p
        /\ Ascends(d.queue)
        /\ GapInv => /\ \A r \in Good : \A k \in DOMAIN d.queue :
                           s.cursor < r /\ r <= d.queue[k] => IsIn(r, d.queue)
                     /\ d.status = "open" => \A r \in Good :
                           r > s.cursor => IsIn(r, d.queue)
    <3> HIDE DEF s, d
    <3>1. clients[c] = s /\ clients'[c] = d
      BY DEF s, d
    <3>2. Ordered(c)'
      BY <1>1, <1>2, <2>2, <2>3, <3>1 DEF Ordered
    <3>3. ASSUME GapInv PROVE Gapless(c)'
      BY <2>4, <2>6, <3>1, <3>3 DEF Gapless, IsIn
    <3> QED
      BY <3>1, <3>2, <3>3
  <2> HIDE DEF s, d
  <2>7. CASE s.status # "open" \/ p <= s.after
    <3>1. d = s
      BY <2>1, <2>7 DEF Offered
    <3>2. \A i \in DOMAIN d.queue : s.cursor < d.queue[i] /\ d.queue[i] <= p
      BY <1>2, <2>2, <2>3, <3>1
    <3>3. ASSUME GapInv, d.status = "open", NEW r \in Good, r > s.cursor
          PROVE  IsIn(r, d.queue)
      <4>1. r # p
        BY <1>2, <2>2, <2>3, <2>5, <2>7, <3>1, <3>3
      <4> QED
        BY <2>4, <3>1, <3>3, <4>1
    <3> QED
      BY <2>2, <2>3, <2>4, <3>1, <3>2, <3>3
  <2>8. CASE s.status = "open" /\ ~(p <= s.after) /\ Len(s.queue) < Capacity
    <3>1. d = [s EXCEPT !.queue = Append(s.queue, p)]
      BY <2>1, <2>8 DEF Offered
    <3>2. s.cursor < p /\ \A i \in DOMAIN s.queue : s.queue[i] < p
      BY <1>2, <2>2, <2>3, <2>8
    <3>3. /\ d.queue = Append(s.queue, p)
          /\ d.status = "open" /\ d.cursor = s.cursor /\ d.base = s.base
          /\ d.seen = s.seen /\ d.after = s.after
      BY <2>2, <2>8, <3>1 DEF Subscription
    <3>4. /\ d.queue \in Seq(Nat) /\ Len(d.queue) = Len(s.queue) + 1
          /\ Ascends(d.queue)
          /\ \A i \in DOMAIN d.queue : IF i \in DOMAIN s.queue THEN d.queue[i] = s.queue[i]
                                                               ELSE d.queue[i] = p
          /\ \A x : IsIn(x, s.queue) \/ x = p => IsIn(x, d.queue)
      BY <1>2, <2>2, <2>3, <3>2, <3>3, AppendAscends
    <3>5. d \in Subscription /\ Len(d.queue) <= Capacity
      <4>1. Append(s.queue, p) \in Seq(Nat)
        BY <3>3, <3>4
      <4>2. d \in Subscription
        BY <2>2, <3>1, <4>1 DEF Subscription
      <4>3. Len(s.queue) + 1 <= Capacity
        BY <1>3, <2>2, <2>8
      <4> QED
        BY <3>4, <4>2, <4>3
    <3>6. \A i \in DOMAIN d.queue : s.cursor < d.queue[i] /\ d.queue[i] <= p
      BY <1>2, <2>2, <2>3, <3>2, <3>4
    <3>7. GapInv => \A r \in Good : r > s.cursor => IsIn(r, d.queue)
      BY <2>4, <2>8, <3>4
    <3>8. GapInv => \A r \in Good : \A k \in DOMAIN d.queue :
             s.cursor < r /\ r <= d.queue[k] => IsIn(r, d.queue)
      BY <2>2, <2>5, <3>7
    <3> QED
      BY <3>3, <3>4, <3>5, <3>6, <3>7, <3>8, <2>8
  <2>9. CASE s.status = "open" /\ ~(p <= s.after) /\ ~(Len(s.queue) < Capacity)
    <3>1. d = [s EXCEPT !.status = "closed"]
      BY <2>1, <2>9 DEF Offered
    <3>2. /\ d.queue = s.queue
          /\ d.status = "closed" /\ d.cursor = s.cursor /\ d.base = s.base
          /\ d.seen = s.seen /\ d.after = s.after
      BY <2>2, <3>1 DEF Subscription
    <3>3. d \in Subscription /\ Len(d.queue) <= Capacity
      BY <2>2, <3>1 DEF Subscription
    <3>4. \A i \in DOMAIN d.queue : s.cursor < d.queue[i] /\ d.queue[i] <= p
      BY <1>2, <2>2, <2>3, <3>2
    <3> QED
      BY <2>3, <2>4, <2>9, <3>2, <3>3, <3>4
  <2> QED
    BY <2>7, <2>8, <2>9
<1>7. TypeOK'
  <2>1. clients' \in [Client -> Subscription]
    BY <1>1, <1>6
  <2> QED
    BY <1>1, <1>2, <1>4, <1>5, <1>6, <2>1 DEF OrderInv, TypeOK
<1>8. Reported' /\ Retained'
  BY <1>1, <1>2, <1>5 DEF OrderInv, Reported, Retained
<1>9. ASSUME GapInv
      PROVE  Floored'
  <2>1. seeded
    BY <1>1, <1>9 DEF GapInv, Floored, p
  <2>2. ASSUME NEW r \in Good', r > trimmedUpTo'
        PROVE  IsIn(r, buffer')
    <3>1. r \in Good /\ r \in Nat
      BY <1>1, BoundsHold DEF OrderInv, TypeOK, Bounds, Good
    <3>2. r > trimmedUpTo
      BY <1>3, <1>4, <2>2, <3>1
    <3>3. r = p \/ IsIn(r, buffer)
      BY <1>9, <2>1, <3>1, <3>2 DEF GapInv, Floored, ToCome, p
    <3> QED
      BY <1>4, <1>5, <2>2, <3>1, <3>3
  <2> QED
    BY <1>1, <2>1, <2>2 DEF Floored, IsIn
<1> QED
  BY <1>6, <1>7, <1>8, <1>9 DEF OrderInv, GapInv

-----------------------------------------------------------------------------
(* The steps of one client.                                                *)

ClientStep(c) ==
    /\ UNCHANGED <<revision, eventful, ledger, pending, lastPublished, buffer>>
    /\ UNCHANGED <<confirmed, unconfirmed>>
    /\ seeded' \in BOOLEAN /\ trimmedUpTo' \in Nat
    /\ \E d \in Subscription : clients' = [clients EXCEPT ![c] = d]

LEMMA ClientStepKeeps ==
  ASSUME OrderInv, NEW c \in Client, ClientStep(c),
         Ordered(c)', Len(clients'[c].queue) <= Capacity
  PROVE  OrderInv' /\ (GapInv /\ Floored' /\ Gapless(c)' => GapInv')
<1>1. PICK d \in Subscription : clients' = [clients EXCEPT ![c] = d]
  BY DEF ClientStep
<1>2. clients \in [Client -> Subscription]
  BY DEF OrderInv, TypeOK
<1>3. /\ clients' \in [Client -> Subscription]
      /\ \A e \in Client : e # c => clients'[e] = clients[e]
  BY <1>1, <1>2
<1>4. TypeOK'
  <2>1. \A e \in Client : Len(clients'[e].queue) <= Capacity
    <3> TAKE e \in Client
    <3>1. CASE e = c
      BY <3>1
    <3>2. CASE e # c
      BY <1>3, <3>2 DEF OrderInv, TypeOK
    <3> QED
      BY <3>1, <3>2
  <2> QED
    BY <1>3, <2>1 DEF OrderInv, TypeOK, ClientStep
<1>5. Reported' /\ Retained'
  BY DEF OrderInv, ClientStep, Reported, Retained
<1>6. \A e \in Client : Ordered(e)'
  <2> TAKE e \in Client
  <2>1. CASE e = c
    BY <2>1
  <2>2. CASE e # c
    <3>1. clients'[e] = clients[e] /\ Ordered(e)
      BY <1>3, <2>2 DEF OrderInv
    <3>2. lastPublished' = lastPublished /\ revision' = revision
      BY DEF ClientStep
    <3> QED
      BY <3>1, <3>2 DEF Ordered
  <2> QED
    BY <2>1, <2>2
<1>7. ASSUME GapInv, Gapless(c)'
      PROVE  \A e \in Client : Gapless(e)'
  <2> TAKE e \in Client
  <2>1. CASE e = c
    BY <1>7, <2>1
  <2>2. CASE e # c
    <3>1. clients'[e] = clients[e] /\ Gapless(e)
      BY <1>3, <1>7, <2>2 DEF GapInv
    <3>2. Good' = Good /\ lastPublished' = lastPublished /\ pending' = pending
      BY DEF ClientStep, Good
    <3> QED
      BY <3>1, <3>2 DEF Gapless, ToCome, IsIn
  <2> QED
    BY <2>1, <2>2
<1> QED
  BY <1>4, <1>5, <1>6, <1>7 DEF OrderInv, GapInv

(* What the proofs of the clients' steps use of the invariants.            *)
LEMMA ClientFacts ==
  ASSUME OrderInv, NEW c \in Client
  PROVE  /\ clients \in [Client -> Subscription] /\ clients[c] \in Subscription
         /\ clients[c].after \in Nat /\ clients[c].cursor \in Nat /\ clients[c].base \in Nat
         /\ clients[c].queue \in Seq(Nat) /\ Len(clients[c].queue) <= Capacity
         /\ clients[c].seen \subseteq Nat
         /\ revision \in Nat /\ lastPublished \in Nat /\ lastPublished <= revision
         /\ seeded \in BOOLEAN /\ trimmedUpTo \in Nat
         /\ Ordered(c)
         /\ GapInv => Floored /\ Gapless(c)
         /\ \A r \in Good : r \in Nat /\ r <= revision
<1>1. clients \in [Client -> Subscription] /\ clients[c] \in Subscription
  BY DEF OrderInv, TypeOK
<1>2. \A r \in Good : r \in Nat /\ r <= revision
  BY BoundsHold DEF OrderInv, TypeOK, Bounds, Good
<1>3. /\ clients[c].after \in Nat /\ clients[c].cursor \in Nat /\ clients[c].base \in Nat
      /\ clients[c].queue \in Seq(Nat) /\ clients[c].seen \subseteq Nat
  BY <1>1 DEF Subscription
<1>4. Len(clients[c].queue) <= Capacity /\ revision \in Nat /\ lastPublished \in Nat
      /\ seeded \in BOOLEAN /\ trimmedUpTo \in Nat
  BY DEF OrderInv, TypeOK
<1>5. lastPublished <= revision /\ Ordered(c) /\ (GapInv => Floored /\ Gapless(c))
  BY DEF OrderInv, Retained, GapInv
<1> QED
  BY <1>1, <1>2, <1>3, <1>4, <1>5

LEMMA FloorLoadKeeps ==
  ASSUME OrderInv, NEW c \in Client, LoadFloor(c) \/ SetFloor(c)
  PROVE  OrderInv' /\ (GapInv => GapInv')
<1> DEFINE s == clients[c]
<1>1. /\ UNCHANGED <<revision, eventful, ledger, pending, lastPublished, buffer>>
      /\ UNCHANGED <<confirmed, unconfirmed>>
  BY DEF LoadFloor, SetFloor, store, bus, history
<1>2. PICK l \in {NotLoading, revision} : clients' = [clients EXCEPT ![c].loaded = l]
  BY DEF LoadFloor, SetFloor
<1>3. seeded' \in BOOLEAN /\ trimmedUpTo' \in Nat
  <2>1. CASE LoadFloor(c)
    BY <2>1, ClientFacts DEF LoadFloor, bus
  <2>2. CASE SetFloor(c)
    <3>1. clients[c].loaded \in Nat
      BY <2>2, ClientFacts DEF SetFloor, Subscription
    <3> QED
      BY <2>2, <3>1, ClientFacts DEF SetFloor, SeedFloor
  <2> QED
    BY <2>1, <2>2
<1>4. clients'[c] = [s EXCEPT !.loaded = l] /\ [s EXCEPT !.loaded = l] \in Subscription
  BY <1>2, ClientFacts DEF Subscription
<1>5. /\ clients'[c].cursor = s.cursor /\ clients'[c].base = s.base
      /\ clients'[c].seen = s.seen /\ clients'[c].after = s.after
      /\ clients'[c].status = s.status /\ clients'[c].queue = s.queue
      /\ clients'[c].loaded = l
  BY <1>4, ClientFacts DEF Subscription
<1>6. ClientStep(c)
  <2>1. clients' = [clients EXCEPT ![c] = [s EXCEPT !.loaded = l]]
    BY <1>2
  <2> QED
    BY <1>1, <1>3, <1>4, <2>1 DEF ClientStep
<1>7. Ordered(c)' /\ Len(clients'[c].queue) <= Capacity
  BY <1>1, <1>5, ClientFacts DEF Ordered
<1>8. ASSUME GapInv
      PROVE  Gapless(c)' /\ Floored'
  <2>1. Good' = Good
    BY <1>1 DEF Good
  <2>2. Gapless(c)'
    BY <1>1, <1>5, <1>8, <2>1, ClientFacts DEF Gapless, IsIn, ToCome
  <2>3. CASE LoadFloor(c)
    <3>1. ~seeded /\ UNCHANGED <<seeded, trimmedUpTo>>
      BY <2>3 DEF LoadFloor, bus
    <3>2. \A e \in Client : clients'[e].loaded \in {NotLoading, revision'}
      <4> TAKE e \in Client
      <4>1. CASE e = c
        BY <1>1, <1>5, <4>1
      <4>2. CASE e # c
        <5>1. clients'[e] = clients[e]
          BY <1>2, <4>2, ClientFacts
        <5> QED
          BY <1>1, <1>8, <3>1, <5>1 DEF GapInv, Floored
      <4> QED
        BY <4>1, <4>2
    <3> QED
      BY <1>1, <1>8, <2>2, <3>1, <3>2 DEF GapInv, Floored
  <2>4. CASE SetFloor(c)
    <3>1. seeded' /\ trimmedUpTo' = IF seeded THEN trimmedUpTo ELSE s.loaded
      BY <2>4 DEF SetFloor, SeedFloor
    <3>2. ASSUME NEW r \in Good, r > trimmedUpTo'
          PROVE  ToCome(r) \/ IsIn(r, buffer)
      <4>1. CASE seeded
        BY <1>8, <3>1, <3>2, <4>1 DEF GapInv, Floored
      <4>2. CASE ~seeded
        <5>1. s.loaded = revision
          BY <1>8, <2>4, <4>2 DEF GapInv, Floored, SetFloor
        <5> QED
          BY <3>1, <3>2, <4>2, <5>1, ClientFacts
      <4> QED
        BY <4>1, <4>2
    <3> QED
      BY <1>1, <2>1, <2>2, <3>1, <3>2 DEF Floored, IsIn, ToCome
  <2> QED
    BY <2>3, <2>4
<1> QED
  BY <1>6, <1>7, <1>8, ClientStepKeeps

LEMMA SubscribeKeeps ==
  ASSUME OrderInv, NEW c \in Client, Subscribe(c)
  PROVE  OrderInv' /\ (GapInv => GapInv')
<1> DEFINE s == clients[c]
<1>1. /\ UNCHANGED <<revision, eventful, ledger, pending, lastPublished, buffer>>
      /\ UNCHANGED <<confirmed, unconfirmed, seeded, trimmedUpTo>>
      /\ seeded /\ ~(s.cursor < trimmedUpTo)
      /\ clients' = [clients EXCEPT ![c].status = "open", ![c].after = s.cursor,
                                    ![c].queue = After(buffer, s.cursor)]
  BY DEF Subscribe, Expired, store, bus, history
<1>2. /\ s \in Subscription /\ s.cursor \in Nat /\ trimmedUpTo \in Nat
      /\ clients \in [Client -> Subscription] /\ s.cursor <= revision
  BY ClientFacts DEF Ordered
<1>3. /\ buffer \in Seq(Nat) /\ Ascends(buffer) /\ Len(buffer) <= Capacity /\ Len(buffer) \in Nat
      /\ DOMAIN buffer = 1..Len(buffer)
      /\ \A i \in DOMAIN buffer : buffer[i] <= lastPublished
  BY DEF OrderInv, TypeOK, Retained
<1>4. PICK k \in 0..Len(buffer) :
         /\ After(buffer, s.cursor) = SubSeq(buffer, k + 1, Len(buffer))
         /\ \A i \in 1..k : buffer[i] <= s.cursor
         /\ \A i \in (k + 1)..Len(buffer) : buffer[i] > s.cursor
  BY <1>2, <1>3, AfterIsEnd
<1> DEFINE q == After(buffer, s.cursor)
<1>5. /\ q \in Seq(Nat) /\ Len(q) = Len(buffer) - k
      /\ \A i \in 1..(Len(buffer) - k) : q[i] = buffer[k + i]
  <2>1. CASE k = Len(buffer)
    <3>1. k + 1 \in Int /\ Len(buffer) \in Int /\ Len(buffer) < k + 1
      BY <1>3, <2>1
    <3>2. q = <<>>
      BY <1>4, <3>1, SubSeqEmpty
    <3> QED
      BY <1>3, <2>1, <3>2
  <2>2. CASE k # Len(buffer)
    <3>0. k \in Nat /\ Len(buffer) \in Nat /\ k < Len(buffer)
      <4>1. k \in 0..Len(buffer) /\ Len(buffer) \in Nat
        BY <1>3
      <4>2. k \in Nat /\ k <= Len(buffer)
        BY <4>1
      <4> QED
        BY <2>2, <4>1, <4>2
    <3>1. k + 1 \in 1..Len(buffer) /\ Len(buffer) - (k + 1) + 1 = Len(buffer) - k
      BY <1>3, <3>0
    <3>2. \A i \in 1..(Len(buffer) - k) : (k + 1) + i - 1 = k + i
      BY <1>3
    <3>3. /\ SubSeq(buffer, k + 1, Len(buffer)) \in Seq(Nat)
          /\ Len(SubSeq(buffer, k + 1, Len(buffer))) = Len(buffer) - (k + 1) + 1
          /\ \A i \in 1..(Len(buffer) - (k + 1) + 1) :
                SubSeq(buffer, k + 1, Len(buffer))[i] = buffer[(k + 1) + i - 1]
      <4>1. Len(buffer) \in (k + 1)..Len(buffer)
        BY <1>3, <3>0
      <4> QED
        BY <1>3, <3>1, <4>1, SubSeqProperties
    <3> QED
      BY <1>4, <3>1, <3>2, <3>3
  <2> QED
    BY <2>1, <2>2
<1>6. q \in Seq(Nat) /\ DOMAIN q = 1..(Len(buffer) - k) /\ Len(q) <= Capacity
  <2>1. Len(buffer) - k <= Capacity
    BY <1>3, CapacityAssumption
  <2> QED
    BY <1>5, <2>1
<1> HIDE DEF s, q
<1>7. \A i \in DOMAIN q : /\ k + i \in DOMAIN buffer /\ q[i] = buffer[k + i]
                          /\ s.cursor < q[i] /\ q[i] <= lastPublished
  <2> TAKE i \in DOMAIN q
  <2>0. i \in 1..(Len(buffer) - k)
    BY <1>6
  <2>1. k + i \in (k + 1)..Len(buffer) /\ k + i \in 1..Len(buffer)
    BY <1>3, <2>0
  <2> QED
    BY <1>2, <1>3, <1>4, <1>5, <2>0, <2>1
<1>8. Ascends(q)
  <2> SUFFICES ASSUME NEW i \in DOMAIN q, NEW j \in DOMAIN q, i < j
               PROVE  q[i] < q[j]
    BY DEF Ascends
  <2>1. i \in 1..(Len(buffer) - k) /\ j \in 1..(Len(buffer) - k)
    BY <1>6
  <2>2. i \in Nat /\ j \in Nat /\ k \in Nat
    BY <2>1
  <2>3. k + i < k + j
    BY <2>2
  <2> QED
    BY <1>3, <1>7, <2>3 DEF Ascends
<1>9. ASSUME NEW r, IsIn(r, buffer), r > s.cursor
      PROVE  IsIn(r, q)
  <2>1. PICK i \in 1..Len(buffer) : buffer[i] = r
    BY <1>3, <1>9 DEF IsIn
  <2>2. ~(i \in 1..k)
    BY <1>2, <1>3, <1>4, <1>9, <2>1
  <2>3. i - k \in 1..(Len(buffer) - k) /\ k + (i - k) = i
    BY <1>3, <2>1, <2>2
  <2> QED
    BY <1>6, <1>7, <2>1, <2>3 DEF IsIn
<1> DEFINE d == [s EXCEPT !.status = "open", !.after = s.cursor, !.queue = q]
<1>10. /\ d \in Subscription /\ d.status = "open" /\ d.after = s.cursor /\ d.queue = q
       /\ d.cursor = s.cursor /\ d.base = s.base /\ d.seen = s.seen
  BY <1>2, <1>6 DEF Subscription
<1>11. clients' = [clients EXCEPT ![c] = d]
  BY <1>1 DEF s, q
<1> HIDE DEF d
<1>12. clients'[c] = d
  BY <1>2, <1>11
<1>13. ClientStep(c)
  BY <1>1, <1>10, <1>11, ClientFacts DEF ClientStep
<1>14. Ordered(c)' /\ Len(clients'[c].queue) <= Capacity
  <2>1. revision' = revision /\ lastPublished' = lastPublished /\ s.cursor <= revision
        /\ s.cursor <= s.cursor
    BY <1>1, <1>2
  <2>2. \A i \in DOMAIN q : s.cursor < q[i] /\ q[i] <= lastPublished
    BY <1>7
  <2> QED
    BY <1>6, <1>8, <1>10, <1>12, <2>1, <2>2 DEF Ordered
<1>15. ASSUME GapInv
       PROVE  Gapless(c)' /\ Floored'
  <2>1. Good' = Good /\ \A r \in Good : r \in Nat
    BY <1>1, ClientFacts DEF Good
  <2>2. \A r \in Good : r > s.cursor => ToCome(r) \/ IsIn(r, q)
    <3> TAKE r \in Good
    <3>1. r > s.cursor => r > trimmedUpTo
      BY <1>1, <1>2, <2>1 DEF s
    <3> QED
      BY <1>1, <1>9, <1>15, <3>1 DEF GapInv, Floored
  <2>3. \A r \in Good : \A i \in DOMAIN q : s.cursor < r /\ r <= q[i] => IsIn(r, q)
    <3> TAKE r \in Good
    <3> TAKE i \in DOMAIN q
    <3>1. q[i] \in Nat /\ q[i] <= lastPublished /\ lastPublished \in Nat
      BY <1>6, <1>7, ClientFacts
    <3>2. s.cursor < r /\ r <= q[i] => ~ToCome(r)
      BY <2>1, <3>1 DEF ToCome
    <3> QED
      BY <1>2, <2>1, <2>2, <3>2
  <2>4. \A r \in Good : s.base < r /\ r <= s.cursor => r \in s.seen
    BY <1>15, ClientFacts DEF Gapless, s
  <2>5. Gapless(c)'
    BY <1>1, <1>10, <1>12, <2>1, <2>2, <2>3, <2>4 DEF Gapless, IsIn, ToCome
  <2>6. Floored'
    BY <1>1, <1>15, <2>1 DEF GapInv, Floored, IsIn, ToCome
  <2> QED
    BY <2>5, <2>6
<1> QED
  BY <1>13, <1>14, <1>15, ClientStepKeeps

LEMMA GetSnapshotKeeps ==
  ASSUME OrderInv, NEW c \in Client, GetSnapshot(c)
  PROVE  OrderInv' /\ (GapInv => GapInv')
<1> DEFINE s == clients[c]
<1> DEFINE d == [s EXCEPT !.base = revision, !.cursor = revision, !.seen = {}]
<1>1. /\ UNCHANGED <<revision, eventful, ledger, pending, lastPublished, buffer>>
      /\ UNCHANGED <<confirmed, unconfirmed, seeded, trimmedUpTo>>
      /\ s.status = "out" /\ s.loaded = NotLoading
      /\ clients' = [clients EXCEPT ![c] = d]
  BY DEF GetSnapshot, store, bus, history
<1>2. s \in Subscription /\ s.queue = <<>> /\ revision \in Nat
  BY <1>1, ClientFacts DEF Ordered
<1>3. /\ d \in Subscription /\ d.status = "out" /\ d.queue = <<>> /\ d.loaded = NotLoading
      /\ d.base = revision /\ d.cursor = revision
  BY <1>1, <1>2 DEF Subscription
<1> HIDE DEF s, d
<1>4. clients'[c] = d /\ \A e \in Client : e # c => clients'[e] = clients[e]
  BY <1>1, ClientFacts
<1>5. ClientStep(c)
  BY <1>1, <1>3, ClientFacts DEF ClientStep
<1>6. Ordered(c)' /\ Len(clients'[c].queue) <= Capacity
  <2>1. Ascends(<<>>) /\ Len(<<>>) <= Capacity /\ revision <= revision
    BY <1>2, CapacityAssumption DEF Ascends
  <2> QED
    BY <1>1, <1>3, <1>4, <2>1 DEF Ordered
<1>7. ASSUME GapInv
      PROVE  Gapless(c)' /\ Floored'
  <2>1. Good' = Good /\ \A r \in Good : ~(revision < r)
    BY <1>1, ClientFacts DEF Good
  <2>2. Gapless(c)'
    BY <1>3, <1>4, <2>1 DEF Gapless
  <2>3. \A e \in Client : clients[e].loaded \in {NotLoading, revision} =>
                          clients'[e].loaded \in {NotLoading, revision}
    BY <1>3, <1>4
  <2>4. Floored'
    BY <1>1, <1>7, <2>1, <2>3 DEF GapInv, Floored, IsIn, ToCome
  <2> QED
    BY <2>2, <2>4
<1> QED
  BY <1>5, <1>6, <1>7, ClientStepKeeps

LEMMA LeaveKeeps ==
  ASSUME OrderInv, NEW c \in Client, Leave(c)
  PROVE  OrderInv' /\ (GapInv => GapInv')
<1> DEFINE s == clients[c]
<1> DEFINE d == [s EXCEPT !.status = "out", !.queue = <<>>]
<1>1. /\ UNCHANGED <<revision, eventful, ledger, pending, lastPublished, buffer>>
      /\ UNCHANGED <<confirmed, unconfirmed, seeded, trimmedUpTo>>
      /\ clients' = [clients EXCEPT ![c] = d]
  BY DEF Leave, store, bus, history
<1>2. s \in Subscription /\ revision \in Nat /\ s.cursor <= revision
  BY ClientFacts DEF Ordered
<1>3. /\ d \in Subscription /\ d.status = "out" /\ d.queue = <<>> /\ d.loaded = s.loaded
      /\ d.base = s.base /\ d.cursor = s.cursor /\ d.seen = s.seen
  <2>1. <<>> \in Seq(Nat)
    OBVIOUS
  <2> QED
    BY <1>2, <2>1 DEF Subscription
<1>4. clients[c] = s
  OBVIOUS
<1> HIDE DEF s, d
<1>5. clients'[c] = d /\ \A e \in Client : e # c => clients'[e] = clients[e]
  BY <1>1, ClientFacts
<1>6. ClientStep(c)
  BY <1>1, <1>3, ClientFacts DEF ClientStep
<1>7. Ordered(c)' /\ Len(clients'[c].queue) <= Capacity
  <2>1. Ascends(<<>>) /\ Len(<<>>) <= Capacity
    BY CapacityAssumption DEF Ascends
  <2> QED
    BY <1>1, <1>2, <1>3, <1>5, <2>1 DEF Ordered
<1>8. ASSUME GapInv
      PROVE  Gapless(c)' /\ Floored'
  <2>1. Good' = Good
    BY <1>1 DEF Good
  <2>2. \A r \in Good : s.base < r /\ r <= s.cursor => r \in s.seen
    BY <1>4, <1>8, ClientFacts DEF Gapless
  <2>3. Gapless(c)'
    BY <1>3, <1>5, <2>1, <2>2 DEF Gapless
  <2>4. \A e \in Client : clients'[e].loaded = clients[e].loaded
    BY <1>3, <1>4, <1>5
  <2>5. Floored'
    BY <1>1, <1>8, <2>1, <2>4 DEF GapInv, Floored, IsIn, ToCome
  <2> QED
    BY <2>3, <2>5
<1> QED
  BY <1>6, <1>7, <1>8, ClientStepKeeps

LEMMA ReceiveKeeps ==
  ASSUME OrderInv, NEW c \in Client, Receive(c)
  PROVE  OrderInv' /\ (GapInv => GapInv')
<1> DEFINE s == clients[c]
<1> DEFINE h == Head(s.queue)
<1> DEFINE q == Tail(s.queue)
<1> DEFINE d == [s EXCEPT !.queue = q, !.cursor = h, !.seen = @ \cup {h}]
<1>1. /\ UNCHANGED <<revision, eventful, ledger, pending, lastPublished, buffer>>
      /\ UNCHANGED <<confirmed, unconfirmed, seeded, trimmedUpTo>>
      /\ s.queue # <<>>
      /\ clients' = [clients EXCEPT ![c] = d]
  BY DEF Receive, store, bus, history
<1>2. /\ s \in Subscription /\ s.queue \in Seq(Nat) /\ s.cursor \in Nat /\ s.after \in Nat
      /\ Len(s.queue) <= Capacity /\ lastPublished \in Nat /\ revision \in Nat
      /\ lastPublished <= revision /\ s.seen \subseteq Nat
  BY ClientFacts
<1>3. /\ s.status # "out" /\ (s.status = "open" => s.after <= s.cursor)
      /\ Ascends(s.queue)
      /\ \A i \in DOMAIN s.queue : s.cursor < s.queue[i] /\ s.queue[i] <= lastPublished
  BY <1>1, ClientFacts DEF Ordered
<1>4. /\ q \in Seq(Nat) /\ Len(q) = Len(s.queue) - 1 /\ h \in Nat /\ Ascends(q)
      /\ \A i \in DOMAIN q : i + 1 \in DOMAIN s.queue /\ q[i] = s.queue[i + 1] /\ h < q[i]
      /\ \A x : IsIn(x, s.queue) => x = h \/ IsIn(x, q)
  BY <1>1, <1>2, <1>3, TailAscends
<1>5. 1 \in DOMAIN s.queue /\ h = s.queue[1] /\ Len(s.queue) \in Nat
  BY <1>1, <1>2
<1>6. clients[c] = s
  OBVIOUS
<1> HIDE DEF h, q
<1>7. /\ d \in Subscription /\ d.status = s.status /\ d.queue = q /\ d.after = s.after
      /\ d.base = s.base /\ d.cursor = h /\ d.seen = s.seen \cup {h} /\ d.loaded = s.loaded
  BY <1>2, <1>4 DEF Subscription
<1> HIDE DEF s, d
<1>8. clients'[c] = d /\ \A e \in Client : e # c => clients'[e] = clients[e]
  BY <1>1, ClientFacts
<1>9. ClientStep(c)
  BY <1>1, <1>7, ClientFacts DEF ClientStep
<1>10. s.cursor < h /\ h <= lastPublished /\ h <= revision
  BY <1>2, <1>3, <1>4, <1>5
<1>11. Ordered(c)' /\ Len(clients'[c].queue) <= Capacity
  <2>1. Len(q) <= Capacity
    BY <1>2, <1>4, <1>5, CapacityAssumption
  <2>2. s.status = "open" => s.after <= h
    BY <1>2, <1>3, <1>4, <1>10
  <2>3. \A i \in DOMAIN q : h < q[i] /\ q[i] <= lastPublished
    BY <1>3, <1>4
  <2>4. revision' = revision /\ lastPublished' = lastPublished
    BY <1>1
  <2> QED
    BY <1>3, <1>4, <1>7, <1>8, <1>10, <2>1, <2>2, <2>3, <2>4 DEF Ordered
<1>12. ASSUME GapInv
       PROVE  Gapless(c)' /\ Floored'
  <2>1. Good' = Good /\ \A r \in Good : r \in Nat
    BY <1>1, ClientFacts DEF Good
  <2>2. /\ \A r \in Good : s.base < r /\ r <= s.cursor => r \in s.seen
        /\ \A r \in Good : \A k \in DOMAIN s.queue :
              s.cursor < r /\ r <= s.queue[k] => IsIn(r, s.queue)
        /\ s.status = "open" => \A r \in Good :
              r > s.cursor => ToCome(r) \/ IsIn(r, s.queue)
    BY <1>6, <1>12, ClientFacts DEF Gapless
  <2>3. ASSUME NEW r \in Good, s.base < r, r <= h
        PROVE  r \in d.seen
    <3>1. CASE r <= s.cursor
      BY <1>7, <2>2, <2>3, <3>1
    <3>2. CASE ~(r <= s.cursor)
      <4>1. s.cursor < r /\ r <= s.queue[1]
        BY <1>2, <1>5, <2>1, <2>3, <3>2
      <4>2. r = h \/ IsIn(r, q)
        BY <1>4, <1>5, <2>2, <4>1
      <4>3. ~IsIn(r, q)
        BY <1>4, <2>1, <2>3 DEF IsIn
      <4> QED
        BY <1>7, <4>2, <4>3
    <3> QED
      BY <3>1, <3>2
  <2>4. ASSUME NEW r \in Good, r > h, IsIn(r, s.queue)
        PROVE  IsIn(r, q)
    BY <1>4, <2>1, <2>4
  <2>5. \A r \in Good : r > h => r > s.cursor
    BY <1>2, <1>4, <1>10, <2>1
  <2>6. \A r \in Good : \A k \in DOMAIN q : h < r /\ r <= q[k] => IsIn(r, q)
    <3> SUFFICES ASSUME NEW r \in Good, NEW k \in DOMAIN q, h < r, r <= q[k]
                 PROVE  IsIn(r, q)
      OBVIOUS
    <3>1. k + 1 \in DOMAIN s.queue /\ r <= s.queue[k + 1] /\ s.cursor < r /\ r > h
      BY <1>4, <2>1, <2>5
    <3> QED
      BY <2>2, <2>4, <3>1
  <2>7. s.status = "open" => \A r \in Good : r > h => ToCome(r) \/ IsIn(r, q)
    BY <2>2, <2>4, <2>5
  <2>8. Gapless(c)'
    BY <1>1, <1>7, <1>8, <2>1, <2>3, <2>6, <2>7 DEF Gapless, IsIn, ToCome
  <2>9. \A e \in Client : clients'[e].loaded = clients[e].loaded
    BY <1>6, <1>7, <1>8
  <2>10. Floored'
    BY <1>1, <1>12, <2>1, <2>9 DEF GapInv, Floored, IsIn, ToCome
  <2> QED
    BY <2>8, <2>10
<1> QED
  BY <1>9, <1>11, <1>12, ClientStepKeeps

LEMMA RestartKeeps ==
  ASSUME OrderInv, Restart
  PROVE  OrderInv' /\ (GapInv => GapInv')
<1>1. /\ UNCHANGED <<revision, eventful, ledger, confirmed, unconfirmed>>
      /\ pending' = 0 /\ seeded' = FALSE /\ trimmedUpTo' = 0 /\ lastPublished' = 0
      /\ buffer' = <<>>
      /\ clients' = [c \in Client |-> [clients[c] EXCEPT !.status = "out", !.queue = <<>>,
                                                          !.loaded = NotLoading]]
  BY DEF Restart, store, history
<1>2. \A c \in Client :
         /\ clients'[c] \in Subscription /\ clients'[c].status = "out"
         /\ clients'[c].queue = <<>> /\ clients'[c].loaded = NotLoading
         /\ clients'[c].cursor = clients[c].cursor /\ clients'[c].base = clients[c].base
         /\ clients'[c].seen = clients[c].seen
  <2> TAKE c \in Client
  <2> DEFINE s == clients[c]
  <2>1. clients'[c] = [s EXCEPT !.status = "out", !.queue = <<>>, !.loaded = NotLoading]
    BY <1>1
  <2>2. s \in Subscription
    BY ClientFacts
  <2>3. <<>> \in Seq(Nat)
    OBVIOUS
  <2> HIDE DEF s
  <2>4. /\ clients'[c] \in Subscription /\ clients'[c].status = "out"
        /\ clients'[c].queue = <<>> /\ clients'[c].loaded = NotLoading
        /\ clients'[c].cursor = s.cursor /\ clients'[c].base = s.base
        /\ clients'[c].seen = s.seen
    BY <2>1, <2>2, <2>3 DEF Subscription
  <2> QED
    BY <2>4 DEF s
<1>3. Ascends(<<>>) /\ Len(<<>>) <= Capacity /\ <<>> \in Seq(Nat) /\ DOMAIN <<>> = {}
  BY CapacityAssumption DEF Ascends
<1>4. TypeOK'
  <2>1. clients' \in [Client -> Subscription]
    BY <1>1, <1>2
  <2> QED
    BY <1>1, <1>2, <1>3, <2>1 DEF OrderInv, TypeOK
<1>5. Reported' /\ Retained'
  <2>1. 0 <= revision
    <3>1. revision \in Nat
      BY DEF OrderInv, TypeOK
    <3> QED
      BY <3>1
  <2> QED
    BY <1>1, <1>3, <2>1 DEF OrderInv, Reported, Retained
<1>6. \A c \in Client : Ordered(c)'
  <2> TAKE c \in Client
  <2>1. clients[c].cursor <= revision
    BY ClientFacts DEF Ordered
  <2> QED
    BY <1>1, <1>2, <1>3, <2>1 DEF Ordered
<1>7. ASSUME GapInv
      PROVE  GapInv'
  <2>1. Good' = Good
    BY <1>1 DEF Good
  <2>2. Floored'
    BY <1>1, <1>2 DEF Floored
  <2>3. \A c \in Client : Gapless(c)'
    <3> TAKE c \in Client
    <3>1. \A r \in Good : clients[c].base < r /\ r <= clients[c].cursor => r \in clients[c].seen
      BY <1>7 DEF GapInv, Gapless
    <3> QED
      BY <1>2, <2>1, <3>1 DEF Gapless
  <2> QED
    BY <2>2, <2>3 DEF GapInv
<1> QED
  BY <1>4, <1>5, <1>6, <1>7 DEF OrderInv

-----------------------------------------------------------------------------
LEMMA InitHolds ==
  Init => OrderInv /\ GapInv
<1> SUFFICES ASSUME Init PROVE OrderInv /\ GapInv
  OBVIOUS
<1>1. \A c \in Client : clients[c] = NewClient
  BY DEF Init
<1>2. NewClient \in Subscription /\ NewClient.queue = <<>> /\ NewClient.cursor = 0
      /\ NewClient.status = "out" /\ NewClient.loaded = NotLoading
  BY DEF NewClient, Subscription
<1>3. Ascends(<<>>) /\ Len(<<>>) <= Capacity /\ <<>> \in Seq(Nat) /\ DOMAIN <<>> = {}
  BY CapacityAssumption DEF Ascends
<1>4. TypeOK
  BY <1>1, <1>2, <1>3 DEF Init, TypeOK
<1>5. Reported /\ Retained
  BY <1>3 DEF Init, Reported, Retained
<1>6. \A c \in Client : Ordered(c)
  <2> TAKE c \in Client
  <2>1. /\ clients[c].cursor = 0 /\ clients[c].queue = <<>> /\ clients[c].status = "out"
        /\ revision = 0 /\ 0 <= 0
    BY <1>1, <1>2 DEF Init
  <2> QED
    BY <1>3, <2>1 DEF Ordered
<1>7. Floored /\ \A c \in Client : Gapless(c)
  BY <1>1, <1>2 DEF Init, Floored, Gapless, Good
<1> QED
  BY <1>4, <1>5, <1>6, <1>7 DEF OrderInv, GapInv

LEMMA StepKeeps ==
  OrderInv /\ [Next]_vars => OrderInv' /\ (~FloorReadMayFail /\ GapInv => GapInv')
<1> SUFFICES ASSUME OrderInv, [Next]_vars
             PROVE  OrderInv' /\ (~FloorReadMayFail /\ GapInv => GapInv')
  OBVIOUS
<1>1. TypeOK /\ Reported
  BY DEF OrderInv
<1>2. CASE \E q \in RequestID, hasEvent \in BOOLEAN : Commit(q, hasEvent)
  BY <1>1, <1>2, CommitIsStoreStep, StoreStepKeeps
<1>3. CASE \E q \in RequestID : Replay(q)
  BY <1>1, <1>3, ReplayIsStoreStep, StoreStepKeeps
<1>4. CASE Publish
  BY <1>4, PublishOldKeeps, PublishNewKeeps
<1>5. CASE \E c \in Client : LoadFloor(c) \/ SetFloor(c)
  BY <1>5, FloorLoadKeeps
<1>6. CASE \E c \in Client : Subscribe(c)
  BY <1>6, SubscribeKeeps
<1>7. CASE \E c \in Client : GetSnapshot(c)
  BY <1>7, GetSnapshotKeeps
<1>8. CASE \E c \in Client : Receive(c)
  BY <1>8, ReceiveKeeps
<1>9. CASE \E c \in Client : Leave(c)
  BY <1>9, LeaveKeeps
<1>10. CASE Restart
  BY <1>10, RestartKeeps
<1>11. CASE UNCHANGED vars
  <2>1. /\ UNCHANGED <<revision, eventful, ledger, pending, seeded, trimmedUpTo>>
        /\ UNCHANGED <<lastPublished, buffer, clients, confirmed, unconfirmed>>
    BY <1>11 DEF vars, store, bus, history
  <2>2. OrderInv'
    BY <2>1 DEF OrderInv, TypeOK, Reported, Retained, Ordered
  <2>3. GapInv => GapInv'
    BY <2>1 DEF GapInv, Floored, Gapless, Good, ToCome, IsIn
  <2> QED
    BY <2>2, <2>3
<1> QED
  BY <1>2, <1>3, <1>4, <1>5, <1>6, <1>7, <1>8, <1>9, <1>10, <1>11 DEF Next

-----------------------------------------------------------------------------
(* What is retained and queued is in commit order and ends with what has   *)
(* been published, in every step of the commits, the bus and the clients.  *)
THEOREM Invariance == Spec => []OrderInv
<1>1. Init => OrderInv
  BY InitHolds
<1>2. OrderInv /\ [Next]_vars => OrderInv'
  BY StepKeeps
<1> QED
  BY <1>1, <1>2, PTL DEF Spec

(* The type invariant of the commits, the bus and the subscriptions: no    *)
(* buffer and no queue outgrows its capacity.                              *)
THEOREM TypeCorrect == Spec => []TypeOK
<1>1. OrderInv => TypeOK
  BY DEF OrderInv
<1> QED
  BY <1>1, Invariance, PTL

(* What publish and subscribe queue for a client ascends and is above its  *)
(* cursor: no event is delivered twice, and no replay as a new one.        *)
THEOREM DeliveredInOrder == Spec => []InOrderOnce
<1>1. OrderInv => InOrderOnce
  BY DEF OrderInv, Ordered, Ascends, InOrderOnce
<1> QED
  BY <1>1, Invariance, PTL

(* No gap can open where ensureFloor reads the floor in commit.            *)
LEMMA GapInvariance == ~FloorReadMayFail => (Spec => [](OrderInv /\ GapInv))
<1> SUFFICES ASSUME ~FloorReadMayFail
             PROVE  Spec => [](OrderInv /\ GapInv)
  OBVIOUS
<1>1. Init => OrderInv /\ GapInv
  BY InitHolds
<1>2. OrderInv /\ GapInv /\ [Next]_vars => (OrderInv /\ GapInv)'
  BY StepKeeps
<1> QED
  BY <1>1, <1>2, PTL DEF Spec

(* While the store answers the read by which commit seeds the floor, the   *)
(* cursor of no client jumps over an event whose commit succeeded at once: *)
(* not by an overflow of its queue, an eviction from the buffer, a         *)
(* resumption, or a restart of the process.                                *)
THEOREM NothingSkipped == ~FloorReadMayFail => (Spec => []NoSilentGap)
<1>1. OrderInv /\ GapInv => NoSilentGap
  BY DEF OrderInv, GapInv, Gapless, Good, NoSilentGap, Due, TypeOK, Subscription
<1> QED
  BY <1>1, GapInvariance, PTL

(* Under the same condition a subscriber that is still connected and has   *)
(* read its queue has seen all of them: publish disconnects a client that  *)
(* falls behind and never only leaves it behind.                           *)
THEOREM ConnectedIsComplete == ~FloorReadMayFail => (Spec => []ConnectedMeansComplete)
<1>1. OrderInv /\ GapInv => ConnectedMeansComplete
  <2> SUFFICES ASSUME OrderInv, GapInv, NEW c \in Client, clients[c].status = "open",
                      clients[c].queue = <<>>, NEW r \in confirmed \ unconfirmed, Due(c, r)
               PROVE  r \in clients[c].seen
    BY DEF ConnectedMeansComplete
  <2>1. r \in Good /\ r > clients[c].base /\ r # pending /\ r \in Nat
    BY ClientFacts DEF Good, Due
  <2>2. ~ToCome(r) /\ ~IsIn(r, clients[c].queue)
    BY <2>1 DEF ToCome, IsIn
  <2>3. Gapless(c) /\ clients[c].cursor \in Nat /\ clients[c].base \in Nat
    BY ClientFacts
  <2>4. r <= clients[c].cursor
    BY <2>1, <2>2, <2>3 DEF Gapless
  <2> QED
    BY <2>1, <2>3, <2>4 DEF Gapless
<1> QED
  BY <1>1, GapInvariance, PTL

=============================================================================
