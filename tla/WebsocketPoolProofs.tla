------------------------- MODULE WebsocketPoolProofs -------------------------
(***************************************************************************)
(* Theorems about WebsocketPool, for any finite set of topics and any      *)
(* limits: of how the topics of the miner lie in the websockets.           *)
(***************************************************************************)
EXTENDS WebsocketPool, FiniteSetTheorems, WellFoundedInduction, TLAPS

USE TopicAssumption, LimitAssumption, MaxSocketsAssumption

(* What a list of sockets must satisfy to be filled                        *)
Fine(s) ==
    /\ s \in Seq(SUBSET Topic) /\ Len(s) <= MaxSockets
    /\ \A i, j \in DOMAIN s : i # j => s[i] \cap s[j] = {}
    /\ \A i \in DOMAIN s : Cardinality(s[i]) <= Limit

All(s) == UNION {s[i] : i \in DOMAIN s}

-----------------------------------------------------------------------------
(* A socket that takes a topic had room for it, so it stays in its limit.  *)
LEMMA HeldWithinLimit ==
    ASSUME NEW s, Fine(s), NEW new \in SUBSET Topic,
           NEW f \in [new -> 1..Rejected], NEW n \in Len(s)..(Rejected - 1),
           Fills(s, f, n), NEW i \in 1..n
    PROVE  Held(s, f, i) \subseteq Topic /\ Cardinality(Held(s, f, i)) <= Limit
<1> DEFINE H == Held(s, f, i)
<1>1. H \subseteq Topic /\ IsFiniteSet(H)
  <2>1. H \subseteq Topic
    BY DEF Fine, Held
  <2> QED
    BY <2>1, FS_Subset
<1>2. CASE \E t \in new : f[t] = i
  <2>1. PICK t \in new : f[t] = i
    BY <1>2
  <2>2. t \in H /\ i # Rejected
    BY <2>1 DEF Held, Rejected
  <2>3. Cardinality(H \ {t}) < Limit
    BY <2>1, <2>2 DEF Fills, Room
  <2>4. Cardinality(H \ {t}) = Cardinality(H) - 1 /\ Cardinality(H) \in Nat
    BY <1>1, <2>2, FS_RemoveElement, FS_CardinalityType
  <2> HIDE DEF H
  <2>5. Cardinality(H) <= Limit
    BY <2>3, <2>4
  <2> QED
    BY <1>1, <2>5 DEF H
<1>3. CASE ~ \E t \in new : f[t] = i
  <2>1. H = IF i <= Len(s) THEN s[i] ELSE {}
    BY <1>3 DEF Held
  <2>2. Cardinality(IF i <= Len(s) THEN s[i] ELSE {}) <= Limit
    BY FS_EmptySet DEF Fine
  <2> QED
    BY <1>1, <2>1, <2>2
<1> QED
  BY <1>2, <1>3

(* Filling disjoint sockets with new topics leaves them disjoint and       *)
(* within the limit, starts what it opens, and places every topic unless   *)
(* it raises.                                                              *)
LEMMA PutResult ==
    ASSUME TypeOK, NEW s, Fine(s), Len(s) <= Len(sockets),
           NEW new \in SUBSET Topic, new \cap All(s) = {},
           Put(s, new)
    PROVE  /\ Fine(sockets')
           /\ started' \subseteq DOMAIN sockets' /\ raised' \in BOOLEAN
           /\ running /\ started = DOMAIN sockets => started' = DOMAIN sockets'
           /\ ~raised' => All(sockets') = All(s) \cup new
<1>1. PICK f \in [new -> 1..Rejected], n \in Len(s)..(Rejected - 1) :
          /\ Fills(s, f, n)
          /\ sockets' = [i \in 1..n |-> Held(s, f, i)]
          /\ started' = (started \cap 1..Len(s)) \cup Opened(Len(s), n)
          /\ raised' = (\E t \in new : f[t] = Rejected)
  BY DEF Put
<1>2. Len(s) \in Nat /\ DOMAIN s = 1..Len(s) /\ n \in Nat /\ n <= MaxSockets
  BY DEF Fine, Rejected
<1>3. \A i \in 1..n : /\ Held(s, f, i) \subseteq Topic
                      /\ Cardinality(Held(s, f, i)) <= Limit
  BY <1>1, HeldWithinLimit
<1>4. /\ sockets' \in Seq(SUBSET Topic) /\ Len(sockets') = n
      /\ DOMAIN sockets' = 1..n
  BY <1>1, <1>2, <1>3
<1>5. \A i, j \in 1..n : i # j => Held(s, f, i) \cap Held(s, f, j) = {}
  <2> SUFFICES ASSUME NEW i \in 1..n, NEW j \in 1..n, i # j,
                      NEW t \in Held(s, f, i), t \in Held(s, f, j)
               PROVE  FALSE
    OBVIOUS
  <2>1. ASSUME NEW k \in 1..n, t \in Held(s, f, k)
        PROVE  (k <= Len(s) /\ t \in s[k]) \/ (t \in new /\ f[t] = k)
    BY <2>1 DEF Held
  <2>2. t \in new => \A k \in 1..Len(s) : t \notin s[k]
    BY <1>2 DEF All
  <2>3. \A k, l \in 1..Len(s) : k # l => s[k] \cap s[l] = {}
    BY <1>2 DEF Fine
  <2> QED
    BY <2>1, <2>2, <2>3
<1>6. Fine(sockets')
  BY <1>1, <1>2, <1>3, <1>4, <1>5 DEF Fine
<1>7. /\ started' \subseteq DOMAIN sockets' /\ raised' \in BOOLEAN
      /\ running /\ started = DOMAIN sockets => started' = DOMAIN sockets'
  BY <1>1, <1>2, <1>4 DEF Opened, TypeOK
<1>8. ASSUME ~raised' PROVE All(sockets') = All(s) \cup new
  <2>1. \A t \in new : f[t] \in 1..n
    <3> SUFFICES ASSUME NEW t \in new PROVE f[t] \in 1..n
      OBVIOUS
    <3>1. f[t] \in 1..Rejected /\ f[t] # Rejected
      BY <1>1, <1>8
    <3>2. f[t] <= n
      BY <1>1, <3>1 DEF Fills
    <3> QED
      BY <1>2, <3>1, <3>2 DEF Rejected
  <2>2. All(sockets') \subseteq All(s) \cup new
    BY <1>1, <1>2, <1>4 DEF All, Held
  <2>3. All(s) \subseteq All(sockets')
    <3>1. \A i \in DOMAIN s : i \in 1..n /\ s[i] \subseteq Held(s, f, i)
      BY <1>2 DEF Held
    <3> QED
      BY <1>1, <1>4, <3>1 DEF All
  <2>4. new \subseteq All(sockets')
    <3>1. \A t \in new : t \in Held(s, f, f[t])
      BY DEF Held
    <3> QED
      BY <1>1, <1>4, <2>1, <3>1 DEF All
  <2> QED
    BY <2>2, <2>3, <2>4
<1> QED
  BY <1>6, <1>7, <1>8

-----------------------------------------------------------------------------
LEMMA InitPool == Init => PoolInv
<1> SUFFICES ASSUME Init PROVE PoolInv
  OBVIOUS
<1>1. /\ sockets \in Seq(SUBSET Topic) /\ Len(sockets) = 0
      /\ DOMAIN sockets = {}
  BY DEF Init
<1>2. TypeOK
  <2>1. Len(sockets) <= MaxSockets
    BY <1>1
  <2>2. /\ started = {} /\ wanted = {}
        /\ running \in BOOLEAN /\ raised \in BOOLEAN
    BY DEF Init
  <2> QED
    BY <1>1, <2>1, <2>2 DEF TypeOK
<1>3. Disjoint /\ WithinLimit
  BY <1>1 DEF Disjoint, WithinLimit
<1>4. RunningIsStarted /\ NothingLost
  BY <1>1 DEF Init, RunningIsStarted, NothingLost, Subscribed
<1> QED
  BY <1>2, <1>3, <1>4 DEF PoolInv

LEMMA AddKeepsPool ==
    ASSUME PoolInv, NEW topics \in SUBSET Topic, AddTopics(topics)
    PROVE  PoolInv'
<1>1. Fine(sockets) /\ All(sockets) = Subscribed
  BY DEF PoolInv, TypeOK, Disjoint, WithinLimit, Fine, All, Subscribed
<1>2. Added(topics) \in SUBSET Topic /\ Added(topics) \cap All(sockets) = {}
  BY <1>1 DEF Added
<1>3. /\ Fine(sockets')
      /\ started' \subseteq DOMAIN sockets' /\ raised' \in BOOLEAN
      /\ running /\ started = DOMAIN sockets => started' = DOMAIN sockets'
      /\ ~raised' => All(sockets') = All(sockets) \cup Added(topics)
  BY <1>1, <1>2, PutResult DEF AddTopics, PoolInv, TypeOK
<1>4. TypeOK' /\ Disjoint' /\ WithinLimit' /\ RunningIsStarted'
  BY <1>3 DEF AddTopics, PoolInv, TypeOK, Disjoint, WithinLimit,
              RunningIsStarted, Fine
<1>5. NothingLost'
  BY <1>1, <1>3 DEF AddTopics, PoolInv, NothingLost, Added, All, Subscribed
<1> QED
  BY <1>4, <1>5 DEF PoolInv

(* Without the topics removed and the sockets popped the rest stays fine,  *)
(* and the topics of the popped ones are in none of them.                  *)
LEMMA RemainderIsFine ==
    ASSUME PoolInv, NEW topics \in SUBSET Topic, NEW keep \in 0..Len(sockets),
           NEW left, left = Left(topics),
           NEW rest, rest = SubSeq(left, 1, keep)
    PROVE  /\ Fine(rest) /\ Len(rest) = keep
           /\ Recycled(left, keep) \in SUBSET Topic
           /\ Recycled(left, keep) \cap All(rest) = {}
           /\ All(rest) \cup Recycled(left, keep) = Subscribed \ topics
<1>1. /\ Len(sockets) \in Nat /\ DOMAIN sockets = 1..Len(sockets)
      /\ Len(sockets) <= MaxSockets
      /\ \A i \in DOMAIN sockets : sockets[i] \subseteq Topic
  BY DEF PoolInv, TypeOK
<1>2. /\ left \in Seq(SUBSET Topic) /\ Len(left) = Len(sockets)
      /\ DOMAIN left = 1..Len(sockets)
      /\ \A i \in 1..Len(sockets) : left[i] = sockets[i] \ topics
  BY <1>1 DEF Left
<1>3. /\ rest \in Seq(SUBSET Topic) /\ Len(rest) = keep
      /\ DOMAIN rest = 1..keep
      /\ \A i \in 1..keep : rest[i] = sockets[i] \ topics
  BY <1>1, <1>2
<1>4. \A i \in 1..keep : Cardinality(rest[i]) <= Limit
  <2> SUFFICES ASSUME NEW i \in 1..keep PROVE Cardinality(rest[i]) <= Limit
    OBVIOUS
  <2>1. /\ IsFiniteSet(sockets[i]) /\ Cardinality(sockets[i]) <= Limit
        /\ rest[i] \subseteq sockets[i]
    BY <1>1, <1>3, FS_Subset DEF PoolInv, WithinLimit
  <2>2. /\ Cardinality(rest[i]) <= Cardinality(sockets[i])
        /\ Cardinality(rest[i]) \in Nat /\ Cardinality(sockets[i]) \in Nat
    BY <2>1, FS_Subset, FS_CardinalityType
  <2> QED
    BY <2>1, <2>2
<1>5. \A i, j \in 1..Len(sockets) : i # j => left[i] \cap left[j] = {}
  BY <1>1, <1>2 DEF PoolInv, Disjoint
<1>6. \A i \in 1..keep : i \in 1..Len(sockets) /\ rest[i] = left[i]
  <2> SUFFICES ASSUME NEW i \in 1..keep
               PROVE  i \in 1..Len(sockets) /\ rest[i] = left[i]
    OBVIOUS
  <2>1. i \in 1..Len(sockets)
    BY <1>1
  <2> QED
    BY <1>2, <1>3, <2>1
<1>7. Recycled(left, keep) \in SUBSET Topic
  BY <1>1, <1>2 DEF Recycled
<1>8. Fine(rest)
  <2>1. \A i, j \in 1..keep : i # j => rest[i] \cap rest[j] = {}
    BY <1>5, <1>6
  <2>2. Len(rest) <= MaxSockets
    BY <1>1, <1>3
  <2> QED
    BY <1>3, <1>4, <2>1, <2>2 DEF Fine
<1>9. Recycled(left, keep) \cap All(rest) = {}
  BY <1>1, <1>2, <1>3, <1>5, <1>6 DEF Recycled, All
<1>10. 1..Len(sockets) = (1..keep) \cup (keep + 1 .. Len(left))
  BY <1>1, <1>2
<1>11. Subscribed \ topics = UNION {left[i] : i \in 1..Len(sockets)}
  BY <1>1, <1>2 DEF Subscribed
<1>12. All(rest) = UNION {left[i] : i \in 1..keep}
  BY <1>3, <1>6 DEF All
<1>13. All(rest) \cup Recycled(left, keep) = Subscribed \ topics
  BY <1>10, <1>11, <1>12 DEF Recycled
<1> QED
  BY <1>3, <1>7, <1>8, <1>9, <1>13

LEMMA RemoveKeepsPool ==
    ASSUME PoolInv, NEW topics \in SUBSET Topic, RemoveTopics(topics)
    PROVE  PoolInv'
<1>1. PICK left : left = Left(topics)
  OBVIOUS
<1>2. PICK keep \in 0..Len(sockets) :
          Put(SubSeq(left, 1, keep), Recycled(left, keep))
  BY <1>1 DEF RemoveTopics
<1>3. PICK rest : rest = SubSeq(left, 1, keep)
  OBVIOUS
<1>4. /\ Fine(rest) /\ Len(rest) = keep
      /\ Recycled(left, keep) \in SUBSET Topic
      /\ Recycled(left, keep) \cap All(rest) = {}
      /\ All(rest) \cup Recycled(left, keep) = Subscribed \ topics
  BY <1>1, <1>3, RemainderIsFine
<1>5. keep <= Len(sockets)
  BY DEF PoolInv, TypeOK
<1>6. /\ Fine(sockets')
      /\ started' \subseteq DOMAIN sockets' /\ raised' \in BOOLEAN
      /\ running /\ started = DOMAIN sockets => started' = DOMAIN sockets'
      /\ ~raised' => All(sockets') = All(rest) \cup Recycled(left, keep)
  <2>1. TypeOK /\ Put(rest, Recycled(left, keep)) /\ Len(rest) <= Len(sockets)
    BY <1>2, <1>3, <1>4, <1>5 DEF PoolInv
  <2> QED
    BY <1>4, <2>1, PutResult
<1>7. TypeOK' /\ Disjoint' /\ WithinLimit' /\ RunningIsStarted'
  BY <1>6 DEF RemoveTopics, PoolInv, TypeOK, Disjoint, WithinLimit,
              RunningIsStarted, Fine
<1>8. NothingLost'
  BY <1>4, <1>6 DEF RemoveTopics, PoolInv, NothingLost, All, Subscribed
<1> QED
  BY <1>7, <1>8 DEF PoolInv

(* The stop of the pool that clears the topics leaves its sockets empty.   *)
LEMMA StopKeepsPool ==
    ASSUME PoolInv, NEW clear \in BOOLEAN, Stop(clear)
    PROVE  PoolInv'
<1>1. CASE clear
  <2>1. sockets' = [i \in DOMAIN sockets |-> {}] /\ wanted' = {}
    BY <1>1 DEF Stop
  <2>2. /\ sockets' \in Seq(SUBSET Topic) /\ Len(sockets') = Len(sockets)
        /\ DOMAIN sockets' = DOMAIN sockets
    BY <2>1 DEF PoolInv, TypeOK
  <2>3. TypeOK' /\ RunningIsStarted'
    BY <2>1, <2>2 DEF Stop, PoolInv, TypeOK, RunningIsStarted
  <2>4. Disjoint' /\ WithinLimit'
    BY <2>1, <2>2, FS_EmptySet DEF Disjoint, WithinLimit
  <2>5. NothingLost'
    BY <2>1, <2>2 DEF NothingLost, Subscribed
  <2> QED
    BY <2>3, <2>4, <2>5 DEF PoolInv
<1>2. CASE ~clear
  BY <1>2 DEF Stop, PoolInv, TypeOK, Disjoint, WithinLimit, RunningIsStarted,
              NothingLost, Subscribed
<1> QED
  BY <1>1, <1>2

-----------------------------------------------------------------------------
(* Through any additions, removals, recyclings, starts and stops: sockets  *)
(* are disjoint and within Twitch's limit, those of a running pool are     *)
(* started, and they hold exactly the topics the miner listens for.        *)
THEOREM PoolInvariant == Spec => []PoolInv
<1>1. PoolInv /\ [Next]_vars => PoolInv'
  <2> SUFFICES ASSUME PoolInv, [Next]_vars PROVE PoolInv'
    OBVIOUS
  <2>1. CASE Start
    BY <2>1 DEF Start, PoolInv, TypeOK, Disjoint, WithinLimit,
                RunningIsStarted, NothingLost, Subscribed
  <2>2. CASE UNCHANGED vars
    BY <2>2 DEF vars, PoolInv, TypeOK, Disjoint, WithinLimit,
                RunningIsStarted, NothingLost, Subscribed
  <2> QED
    BY <2>1, <2>2, StopKeepsPool, AddKeepsPool, RemoveKeepsPool DEF Next
<1> QED
  BY <1>1, InitPool, PTL DEF Spec

(* No two sockets share a topic, so no message is handled twice.           *)
THEOREM SocketsAreDisjoint == Spec => []Disjoint
  BY PoolInvariant, PTL DEF PoolInv

(* No socket holds more topics than Twitch allows.                         *)
THEOREM SocketsAreWithinLimit == Spec => []WithinLimit
  BY PoolInvariant, PTL DEF PoolInv

(* No topic is lost or kept by mistake, unless a request was refused.      *)
THEOREM NoTopicIsLost == Spec => []NothingLost
  BY PoolInvariant, PTL DEF PoolInv

(* A running pool has started every socket it holds.                       *)
THEOREM SocketsAreStarted == Spec => []RunningIsStarted
  BY PoolInvariant, PTL DEF PoolInv

-----------------------------------------------------------------------------
(* Counting the topics.  What holds of a list of sockets is shown at the   *)
(* first place where it would fail: numbers have a least one.              *)
LEMMA LeastExists ==
    ASSUME NEW S \in SUBSET Nat, S # {}
    PROVE  \E e \in S : \A f \in S : e <= f
<1> DEFINE T == {0..e : e \in S}
<1>1. T \subseteq FiniteSubsetsOf(Nat)
  <2> SUFFICES ASSUME NEW e \in S PROVE IsFiniteSet(0..e) /\ 0..e \subseteq Nat
    BY DEF FiniteSubsetsOf
  <2> QED
    BY FS_Interval
<1>2. T # {}
  OBVIOUS
<1>3. PICK x \in T : \A y \in T : <<y, x>> \notin StrictSubsetOrdering(Nat)
  BY <1>1, <1>2, FS_StrictSubsetOrderingWellFounded, WFMin
<1>4. PICK e \in S : x = 0..e
  OBVIOUS
<1>5. ASSUME NEW f \in S PROVE e <= f
  <2> SUFFICES ASSUME f < e PROVE FALSE
    OBVIOUS
  <2>1. e \in 0..e /\ e \notin 0..f /\ 0..f \subseteq 0..e
    OBVIOUS
  <2>2. 0..f # 0..e
    BY <2>1, Zenon
  <2>3. <<0..f, 0..e>> \in StrictSubsetOrdering(Nat)
    BY <2>1, <2>2 DEF StrictSubsetOrdering
  <2> QED
    BY <1>3, <1>4, <2>3
<1> QED
  BY <1>5

(* The topics of the first m sockets                                       *)
First(s, m) == UNION {s[i] : i \in 1..m}

LEMMA FirstOfNext ==
    ASSUME NEW s, Fine(s), NEW m \in Nat, m + 1 <= Len(s)
    PROVE  /\ IsFiniteSet(First(s, m)) /\ Cardinality(First(s, m)) \in Nat
           /\ IsFiniteSet(s[m + 1]) /\ Cardinality(s[m + 1]) \in 0..Limit
           /\ Cardinality(First(s, m + 1))
                 = Cardinality(First(s, m)) + Cardinality(s[m + 1])
<1>1. /\ Len(s) \in Nat /\ DOMAIN s = 1..Len(s) /\ m + 1 \in 1..Len(s)
      /\ \A i \in 1..m : i \in 1..Len(s) /\ i # m + 1
      /\ \A i \in 1..Len(s) : s[i] \subseteq Topic
  BY DEF Fine
<1>2. First(s, m) \subseteq Topic /\ s[m + 1] \subseteq Topic
  BY <1>1 DEF First
<1>3. /\ IsFiniteSet(First(s, m)) /\ Cardinality(First(s, m)) \in Nat
      /\ IsFiniteSet(s[m + 1]) /\ Cardinality(s[m + 1]) \in Nat
  BY <1>2, FS_Subset, FS_CardinalityType
<1>4. 1..m + 1 = (1..m) \cup {m + 1}
  OBVIOUS
<1>5. First(s, m + 1) = First(s, m) \cup s[m + 1]
  BY <1>4 DEF First
<1>6. First(s, m) \cap s[m + 1] = {}
  <2>1. \A i \in 1..m : s[i] \cap s[m + 1] = {}
    BY <1>1 DEF Fine
  <2> QED
    BY <2>1 DEF First
<1>7. Cardinality(First(s, m + 1))
         = Cardinality(First(s, m)) + Cardinality(s[m + 1]) - Cardinality({})
  BY <1>3, <1>5, <1>6, FS_Union
<1>8. Cardinality(s[m + 1]) <= Limit
  BY <1>1 DEF Fine
<1> QED
  BY <1>3, <1>7, <1>8, FS_EmptySet

LEMMA FirstOfNone ==
    ASSUME NEW s
    PROVE  Cardinality(First(s, 0)) = 0
<1>1. First(s, 0) = {}
  BY DEF First
<1> QED
  BY <1>1, FS_EmptySet

LEMMA OneMore ==
    ASSUME NEW m \in Nat
    PROVE  Limit * (m + 1) = Limit * m + Limit /\ Limit * m \in Nat
  OBVIOUS

(* Sockets hold at most as many topics as all of them may.                 *)
LEMMA AtMost ==
    ASSUME NEW s, Fine(s)
    PROVE  Cardinality(All(s)) <= Limit * Len(s)
<1>1. Len(s) \in Nat /\ DOMAIN s = 1..Len(s)
  BY DEF Fine
<1> DEFINE bad == {m \in 0..Len(s) : ~(Cardinality(First(s, m)) <= Limit * m)}
<1>2. bad = {}
  <2> SUFFICES ASSUME bad # {} PROVE FALSE
    OBVIOUS
  <2>1. bad \in SUBSET Nat
    OBVIOUS
  <2>2. PICK e \in bad : \A f \in bad : e <= f
    <3> HIDE DEF bad
    <3> QED
      BY <2>1, LeastExists
  <2>3. e # 0
    BY FirstOfNone
  <2> DEFINE m == e - 1
  <2>4. m \in Nat /\ m + 1 = e /\ m \in 0..Len(s) /\ m \notin bad /\ m + 1 <= Len(s)
    BY <1>1, <2>2, <2>3
  <2>5. Cardinality(First(s, m)) <= Limit * m
    BY <2>4
  <2>6. ~(Cardinality(First(s, m + 1)) <= Limit * (m + 1))
    BY <2>4
  <2> HIDE DEF m, bad
  <2> QED
    BY <2>4, <2>5, <2>6, FirstOfNext, OneMore
<1>3. Len(s) \notin bad
  BY <1>2
<1>4. All(s) = First(s, Len(s))
  BY <1>1 DEF All, First
<1> QED
  BY <1>1, <1>3, <1>4

(* Full sockets hold all that they may.                                    *)
LEMMA AllOfIt ==
    ASSUME NEW s, Fine(s), \A i \in 1..Len(s) : ~Room(s[i])
    PROVE  Cardinality(All(s)) >= Limit * Len(s)
<1>1. Len(s) \in Nat /\ DOMAIN s = 1..Len(s)
  BY DEF Fine
<1> DEFINE bad == {m \in 0..Len(s) : ~(Cardinality(First(s, m)) >= Limit * m)}
<1>2. bad = {}
  <2> SUFFICES ASSUME bad # {} PROVE FALSE
    OBVIOUS
  <2>1. bad \in SUBSET Nat
    OBVIOUS
  <2>2. PICK e \in bad : \A f \in bad : e <= f
    <3> HIDE DEF bad
    <3> QED
      BY <2>1, LeastExists
  <2>3. e # 0
    BY FirstOfNone
  <2> DEFINE m == e - 1
  <2>4. m \in Nat /\ m + 1 = e /\ m \in 0..Len(s) /\ m \notin bad /\ m + 1 <= Len(s)
    BY <1>1, <2>2, <2>3
  <2>5. Cardinality(First(s, m)) >= Limit * m
    BY <2>4
  <2>6. ~(Cardinality(First(s, m + 1)) >= Limit * (m + 1))
    BY <2>4
  <2> HIDE DEF m, bad
  <2>7. ~(Cardinality(s[m + 1]) < Limit)
    BY <1>1, <2>4 DEF Room
  <2> QED
    BY <2>4, <2>5, <2>6, <2>7, FirstOfNext, OneMore
<1>3. Len(s) \notin bad
  BY <1>2
<1>4. All(s) = First(s, Len(s))
  BY <1>1 DEF All, First
<1> QED
  BY <1>1, <1>3, <1>4

(* A topic is refused only if all sockets together are too small.          *)
LEMMA RefusedIsTooMuch ==
    ASSUME TypeOK, NEW s, Fine(s), Len(s) <= Len(sockets),
           NEW new \in SUBSET Topic, new \cap All(s) = {},
           Put(s, new), raised'
    PROVE  Cardinality(All(s) \cup new) > Limit * MaxSockets
<1>1. PICK f \in [new -> 1..Rejected], n \in Len(s)..(Rejected - 1) :
          /\ Fills(s, f, n)
          /\ sockets' = [i \in 1..n |-> Held(s, f, i)]
          /\ \E t \in new : f[t] = Rejected
  BY DEF Put
<1>2. PICK t \in new : f[t] = Rejected
  BY <1>1
<1>3. Len(s) \in Nat /\ DOMAIN s = 1..Len(s) /\ n \in Nat /\ n <= MaxSockets
  BY DEF Fine, Rejected
<1>4. \A i \in 1..MaxSockets : ~Room(Held(s, f, i))
  <2>1. \A i \in 1..(f[t] - 1) : ~Room(Held(s, f, i))
    BY <1>1, <1>2 DEF Fills
  <2>2. f[t] - 1 = MaxSockets
    BY <1>2 DEF Rejected
  <2> QED
    BY <2>1, <2>2
<1>5. n = MaxSockets
  <2> SUFFICES ASSUME n < MaxSockets PROVE FALSE
    BY <1>3
  <2>1. MaxSockets \in 1..MaxSockets /\ ~(MaxSockets <= Len(s))
    BY <1>3
  <2>2. \A x \in new : f[x] # MaxSockets
    <3> SUFFICES ASSUME NEW x \in new, f[x] = MaxSockets PROVE FALSE
      OBVIOUS
    <3>1. f[x] # Rejected
      BY DEF Rejected
    <3>2. f[x] <= n
      BY <1>1, <3>1 DEF Fills
    <3> QED
      BY <1>3, <3>2
  <2>3. Held(s, f, MaxSockets) = {}
    BY <2>1, <2>2 DEF Held
  <2>4. ~(Cardinality({}) < Limit)
    BY <1>4, <2>1, <2>3 DEF Room
  <2> QED
    BY <2>4, FS_EmptySet
<1>6. /\ Fine(sockets') /\ Len(sockets') = MaxSockets /\ DOMAIN sockets' = 1..MaxSockets
      /\ \A i \in 1..MaxSockets : sockets'[i] = Held(s, f, i)
  <2>1. Fine(sockets')
    BY PutResult
  <2>2. DOMAIN sockets' = 1..MaxSockets
    BY <1>1, <1>5
  <2>3. Len(sockets') = MaxSockets
    BY <2>1, <2>2 DEF Fine
  <2> QED
    BY <1>1, <1>5, <2>1, <2>2, <2>3
<1>7. Cardinality(All(sockets')) >= Limit * MaxSockets
  BY <1>4, <1>6, AllOfIt
<1>8. All(sockets') \subseteq (All(s) \cup new) \ {t}
  <2> SUFFICES ASSUME NEW i \in 1..MaxSockets, NEW x \in Held(s, f, i)
               PROVE  x \in (All(s) \cup new) \ {t}
    BY <1>6 DEF All
  <2>1. CASE i <= Len(s) /\ x \in s[i]
    BY <1>3, <2>1 DEF All
  <2>2. CASE x \in new /\ f[x] = i
    BY <1>2, <2>2 DEF Rejected
  <2> QED
    BY <2>1, <2>2 DEF Held
<1>9. All(s) \cup new \subseteq Topic
  BY <1>3 DEF All, Fine
<1> DEFINE every == All(s) \cup new
<1>10. /\ IsFiniteSet(every) /\ Cardinality(every) \in Nat
       /\ IsFiniteSet(every \ {t}) /\ Cardinality(every \ {t}) = Cardinality(every) - 1
  BY <1>2, <1>9, FS_Subset, FS_RemoveElement, FS_CardinalityType
<1>11. /\ Cardinality(All(sockets')) <= Cardinality(every \ {t})
       /\ Cardinality(All(sockets')) \in Nat
  BY <1>8, <1>10, FS_Subset, FS_CardinalityType
<1>12. Limit * MaxSockets \in Nat
  OBVIOUS
<1> QED
  BY <1>7, <1>10, <1>11, <1>12

-----------------------------------------------------------------------------
(* The pool implements the one set of topics.                              *)

LEMMA TopicsFit ==
    ASSUME NEW s, Fine(s)
    PROVE  Cardinality(All(s)) \in Nat /\ Cardinality(All(s)) <= Limit * MaxSockets
<1>1. Len(s) \in Nat /\ Len(s) <= MaxSockets /\ All(s) \subseteq Topic
  BY DEF Fine, All
<1>2. Cardinality(All(s)) \in Nat
  BY <1>1, FS_Subset, FS_CardinalityType
<1>3. Limit * Len(s) <= Limit * MaxSockets /\ Limit * Len(s) \in Nat
  BY <1>1
<1> QED
  BY <1>2, <1>3, AtMost

LEMMA SocketsAreFine ==
    ASSUME PoolInv
    PROVE  Fine(sockets) /\ All(sockets) = Subscribed
  BY DEF PoolInv, TypeOK, Disjoint, WithinLimit, Fine, All, Subscribed

(* TopicSet counts like the pool does.                                     *)
LEMMA SameCount ==
    ASSUME NEW S
    PROVE  Pool!Cardinality(S) = Cardinality(S)
  BY DEF Pool!Cardinality, Cardinality

(* Topics are refused exactly when there are too many of them.             *)
LEMMA AddSubscribes ==
    ASSUME PoolInv, NEW topics \in SUBSET Topic, AddTopics(topics)
    PROVE  Pool!Subscribe(topics)
<1>1. Fine(sockets) /\ All(sockets) = wanted
  BY SocketsAreFine DEF PoolInv, NothingLost, AddTopics
<1>2. /\ Added(topics) \in SUBSET Topic /\ Added(topics) \cap All(sockets) = {}
      /\ All(sockets) \cup Added(topics) = wanted'
  BY <1>1, SocketsAreFine DEF Added, AddTopics
<1>3. Put(sockets, Added(topics)) /\ TypeOK /\ Len(sockets) <= Len(sockets)
  BY DEF AddTopics, PoolInv, TypeOK
<1>4. Fine(sockets') /\ raised' \in BOOLEAN /\ (~raised' => All(sockets') = wanted')
  BY <1>1, <1>2, <1>3, PutResult
<1>5. CASE raised'
  <2>1. Cardinality(wanted') > Limit * MaxSockets
    BY <1>1, <1>2, <1>3, <1>5, RefusedIsTooMuch
  <2>2. raised' = (Cardinality(wanted') > Limit * MaxSockets)
    BY <1>4, <1>5, <2>1
  <2> QED
    BY <2>2, SameCount DEF Pool!Subscribe, AddTopics
<1>6. CASE ~raised'
  <2>1. /\ Cardinality(wanted') \in Nat /\ Cardinality(wanted') <= Limit * MaxSockets
        /\ Limit * MaxSockets \in Nat
    BY <1>4, <1>6, TopicsFit
  <2>2. ~(Cardinality(wanted') > Limit * MaxSockets)
    BY <2>1
  <2>3. raised' = (Cardinality(wanted') > Limit * MaxSockets)
    BY <1>4, <1>6, <2>2
  <2> QED
    BY <2>3, SameCount DEF Pool!Subscribe, AddTopics
<1> QED
  BY <1>5, <1>6

(* Recycling never refuses a topic: there are no more than before.         *)
LEMMA RemoveUnsubscribes ==
    ASSUME PoolInv, NEW topics \in SUBSET Topic, RemoveTopics(topics)
    PROVE  Pool!Unsubscribe(topics)
<1>1. PICK left : left = Left(topics)
  OBVIOUS
<1>2. PICK keep \in 0..Len(sockets) :
          Put(SubSeq(left, 1, keep), Recycled(left, keep))
  BY <1>1 DEF RemoveTopics
<1>3. PICK rest : rest = SubSeq(left, 1, keep)
  OBVIOUS
<1>4. /\ Fine(rest) /\ Len(rest) = keep
      /\ Recycled(left, keep) \in SUBSET Topic
      /\ Recycled(left, keep) \cap All(rest) = {}
      /\ All(rest) \cup Recycled(left, keep) = Subscribed \ topics
  BY <1>1, <1>3, RemainderIsFine
<1>5. TypeOK /\ Put(rest, Recycled(left, keep)) /\ Len(rest) <= Len(sockets)
  BY <1>2, <1>3, <1>4 DEF PoolInv, TypeOK
<1>6. ~raised'
  <2> SUFFICES ASSUME raised' PROVE FALSE
    OBVIOUS
  <2>1. Cardinality(Subscribed \ topics) > Limit * MaxSockets
    BY <1>4, <1>5, RefusedIsTooMuch
  <2>2. /\ Cardinality(Subscribed) \in Nat /\ Cardinality(Subscribed) <= Limit * MaxSockets
        /\ Subscribed \subseteq Topic
    <3>1. Fine(sockets) /\ All(sockets) = Subscribed
      BY SocketsAreFine
    <3>2. Subscribed \subseteq Topic
      BY DEF PoolInv, TypeOK, Subscribed
    <3> QED
      BY <3>1, <3>2, TopicsFit
  <2>3. /\ Cardinality(Subscribed \ topics) <= Cardinality(Subscribed)
        /\ Cardinality(Subscribed \ topics) \in Nat
    BY <2>2, FS_Subset, FS_CardinalityType
  <2>4. Limit * MaxSockets \in Nat
    OBVIOUS
  <2> QED
    BY <2>1, <2>2, <2>3, <2>4
<1>7. raised' \in BOOLEAN
  BY <1>4, <1>5, PutResult
<1> QED
  BY <1>6, <1>7 DEF RemoveTopics, Pool!Unsubscribe, PoolInv, TypeOK

(* For any finite set of topics and any limits the pool is one set of      *)
(* topics, refused exactly when they exceed all websockets together: never *)
(* because of how they are spread, and never while recycling (pool.py).    *)
THEOREM PoolImplementsTopicSet == Spec => ImplementsTopicSet
<1>1. Init => Pool!Init
  BY DEF Init, Pool!Init
<1>2. PoolInv /\ [Next]_vars => [Pool!Next]_<<wanted, raised>>
  <2> SUFFICES ASSUME PoolInv, [Next]_vars PROVE [Pool!Next]_<<wanted, raised>>
    OBVIOUS
  <2>1. CASE Start \/ UNCHANGED vars
    BY <2>1 DEF Start, vars
  <2>2. ASSUME NEW clear \in BOOLEAN, Stop(clear)
        PROVE  [Pool!Next]_<<wanted, raised>>
    BY <2>2 DEF Stop, Pool!Next, Pool!Forget
  <2>3. ASSUME NEW topics \in SUBSET Topic, AddTopics(topics)
        PROVE  [Pool!Next]_<<wanted, raised>>
    BY <2>3, AddSubscribes DEF Pool!Next
  <2>4. ASSUME NEW topics \in SUBSET Topic, RemoveTopics(topics)
        PROVE  [Pool!Next]_<<wanted, raised>>
    BY <2>4, RemoveUnsubscribes DEF Pool!Next
  <2> QED
    BY <2>1, <2>2, <2>3, <2>4 DEF Next
<1> QED
  BY <1>1, <1>2, PoolInvariant, PTL DEF Spec, ImplementsTopicSet, Pool!Spec
=============================================================================
