--------------------------- MODULE ServicesProofs ---------------------------
(* Safety of the services, for every value of their constants: a behaviour of *)
(* MCServices is that of one service, and each service has an inductive       *)
(* invariant of its own, Inv in its module.                                   *)
EXTENDS MCServices, Integers, Sequences, FiniteSetTheorems, SequenceTheorems,
        WellFoundedInduction, TLAPS

USE DEF slots, all

-----------------------------------------------------------------------------
(* A set of numbers has a least one: the intervals up to each of them are      *)
(* finite, and strict inclusion of finite sets is well-founded.              *)
LEMMA LeastExists ==
    ASSUME NEW numbers \in SUBSET Nat, numbers # {}
    PROVE  \E e \in numbers : \A f \in numbers : e <= f
<1> DEFINE spans == {0..e : e \in numbers}
<1>1. spans \subseteq FiniteSubsetsOf(Nat)
  <2> SUFFICES ASSUME NEW e \in numbers PROVE IsFiniteSet(0..e) /\ 0..e \subseteq Nat
    BY DEF FiniteSubsetsOf
  <2> QED
    BY FS_Interval
<1>2. spans # {}
  OBVIOUS
<1>3. PICK x \in spans : \A y \in spans : <<y, x>> \notin StrictSubsetOrdering(Nat)
  BY <1>1, <1>2, FS_StrictSubsetOrderingWellFounded, WFMin
<1>4. PICK e \in numbers : x = 0..e
  OBVIOUS
<1>5. ASSUME NEW f \in numbers PROVE e <= f
  <2> SUFFICES ASSUME f < e PROVE FALSE
    OBVIOUS
  <2>1. e \in 0..e /\ e \notin 0..f /\ 0..f \subseteq 0..e
    OBVIOUS
  <2>2. 0..f # 0..e
    BY <2>1, Zenon
  <2>3. <<0..f, 0..e>> \in StrictSubsetOrdering(Nat)
    BY <2>1, <2>2 DEF StrictSubsetOrdering
  <2> QED
    BY <1>3, <1>4, <2>3
<1> QED
  BY <1>5

-----------------------------------------------------------------------------
(* Maintenance: a boundary waits among the triggers or is waited for until it *)
(* is served, and what is waited for is never later than the others.         *)

MaintenanceInv == which = "maintenance" => M!Inv

LEMMA MaintenanceStarts == Init => MaintenanceInv
<1> SUFFICES ASSUME Init, which = "maintenance" PROVE M!Inv
  BY DEF MaintenanceInv
<1>1. M!Init /\ M!ConstantsOK
  BY ServicesAssumption DEF Init, ServicesAssumption
<1>2. M!Types
  BY <1>1 DEF M!Types, M!Init, M!ConstantsOK, M!NoTask, M!NotFetching
<1> QED
  BY <1>1, <1>2 DEF M!Inv, M!WaitsForTheFirst, M!Chosen, M!NoneIsForgotten, M!Init, M!NoTask,
     M!NotFetching

(* What is due first.                                                        *)
LEMMA MaintenanceNext ==
    ASSUME M!ConstantsOK, M!Types
    PROVE  /\ M!NextPeriod \in Nat
           /\ M!NextTrigger \in {M!NextPeriod} \cup s5
           /\ M!NextTrigger <= M!NextPeriod
           /\ \A b \in s5 : M!NextTrigger <= b
<1>1. s3 \in Nat /\ s4 \in Nat /\ s5 \subseteq Nat /\ Horizon \in Nat
  BY DEF M!ConstantsOK, M!Types
<1>2. M!Max({1, s3}) \in Nat
  <2>1. \E x \in {1, s3} : \A y \in {1, s3} : x >= y
    BY <1>1
  <2> QED
    BY <1>1, <2>1 DEF M!Max
<1>3. M!NextPeriod \in Nat
  BY <1>1, <1>2 DEF M!NextPeriod, M!Never
<1>4. \E x \in {M!NextPeriod} \cup s5 : \A y \in {M!NextPeriod} \cup s5 : x <= y
  BY <1>1, <1>3, LeastExists
<1>5. /\ M!NextTrigger \in {M!NextPeriod} \cup s5
      /\ \A y \in {M!NextPeriod} \cup s5 : M!NextTrigger <= y
  BY <1>4 DEF M!NextTrigger, M!Min
<1> QED
  BY <1>3, <1>5

(* Either the reload is asked for, which ends the task, or it sleeps again.  *)
LEMMA MaintenanceTurns ==
    ASSUME M!ConstantsOK, M!Types, M!Reload \/ M!Sleep, UNCHANGED <<s1, s2, s3>>
    PROVE  \/ /\ s6' = M!NoTask /\ s4' = s1 /\ s5' = s5 /\ M!Reload
           \/ /\ M!Sleep /\ s4' = s4 /\ s5' = s5 \ {M!NextTrigger} /\ s7' = FALSE
              /\ s6' = [at |-> "asleep", until |-> M!NextTrigger, period |-> M!NextPeriod]
              /\ ~(s2 /\ s1 >= M!NextPeriod)
              /\ M!NextPeriod' = M!NextPeriod
  BY DEF M!Reload, M!Sleep, M!NextPeriod

LEMMA MaintenanceTypes ==
    ASSUME M!ConstantsOK, M!Inv, M!Next PROVE M!Types'
<1> USE DEF M!ConstantsOK, M!Inv, M!Types
<1>1. s1 \in Nat
  OBVIOUS
<1>2. ASSUME M!TaskStarts \/ M!TaskWakes PROVE M!Types'
  <2>1. UNCHANGED <<s1, s2, s3, s8, s10, s13>> /\ (M!Reload \/ M!Sleep)
    BY <1>2 DEF M!TaskStarts, M!TaskWakes, M!settings
  <2>2. s11' \in {s1, s11}
    BY <1>2 DEF M!TaskStarts, M!TaskWakes, M!Reload
  <2>3. s4' \in Nat /\ s5' \subseteq Nat
    BY <1>1, <2>1, MaintenanceTurns
  <2>4. s6' \in [at : {"none", "new", "asleep"}, until : Nat, period : Nat]
    <3>1. M!NextPeriod \in Nat /\ M!NextTrigger \in Nat
      BY MaintenanceNext
    <3>2. s6' = M!NoTask \/ s6' = [at |-> "asleep", until |-> M!NextTrigger,
                                    period |-> M!NextPeriod]
      BY <2>1, MaintenanceTurns
    <3> QED
      BY <3>1, <3>2 DEF M!NoTask
  <2> QED
    BY <1>1, <2>1, <2>2, <2>3, <2>4
<1>3. ASSUME M!ChangeSettings PROVE M!Types'
  BY <1>3 DEF M!ChangeSettings
<1>4. ASSUME M!Cleanup PROVE M!Types'
  BY <1>4 DEF M!Cleanup, M!settings
<1>5. ASSUME M!FetchReplaces PROVE M!Types'
  <2>1. PICK found \in Inventories : s8' = M!Fetching(found)
    BY <1>5 DEF M!FetchReplaces
  <2>2. /\ s13' = s1 + Hour /\ s5' = {} /\ s10' = {}
        /\ UNCHANGED <<s1, s2, s3, s4, s6, s11>>
    BY <1>5 DEF M!FetchReplaces, M!settings
  <2>3. found \subseteq M!Campaign
    OBVIOUS
  <2>4. \A k \in M!Campaign : M!Boundaries(k) \subseteq Nat
    BY DEF M!Campaign, M!Boundaries
  <2>5. M!Soon(found) \subseteq found
    BY DEF M!Soon
  <2>6. UNION {M!Boundaries(k) : k \in M!Soon(found)} \subseteq Nat
    BY <2>3, <2>4, <2>5
  <2>7. s8' \in [at : {"idle", "adding"}, found : SUBSET M!Campaign, chosen : SUBSET Nat]
    BY <2>1, <2>3, <2>6 DEF M!Fetching
  <2> QED
    BY <1>1, <2>2, <2>7
<1>6. ASSUME M!FetchEnds PROVE M!Types'
  BY <1>1, <1>6 DEF M!FetchEnds, M!settings, M!NewTask, M!NotFetching
<1>7. ASSUME M!Tick PROVE M!Types'
  BY <1>7 DEF M!Tick, M!settings
<1> QED
  BY <1>2, <1>3, <1>4, <1>5, <1>6, <1>7 DEF M!Next

LEMMA MaintenanceWaits ==
    ASSUME M!ConstantsOK, M!Inv, M!Next PROVE M!WaitsForTheFirst'
<1> USE DEF M!ConstantsOK, M!Inv, M!WaitsForTheFirst
<1>1. ASSUME M!TaskStarts \/ M!TaskWakes PROVE M!WaitsForTheFirst'
  <2>1. UNCHANGED <<s1, s2, s3>> /\ (M!Reload \/ M!Sleep)
    BY <1>1 DEF M!TaskStarts, M!TaskWakes, M!settings
  <2>2. CASE s6' = M!NoTask
    BY <2>2 DEF M!NoTask
  <2>3. CASE s6' # M!NoTask
    <3>1. /\ s5' = s5 \ {M!NextTrigger} /\ M!NextPeriod' = M!NextPeriod
          /\ s6' = [at |-> "asleep", until |-> M!NextTrigger, period |-> M!NextPeriod]
      BY <2>1, <2>3, MaintenanceTurns
    <3> QED
      BY <3>1, MaintenanceNext
  <2> QED
    BY <2>2, <2>3
<1>2. ASSUME M!ChangeSettings PROVE M!WaitsForTheFirst'
  BY <1>2 DEF M!ChangeSettings
<1>3. ASSUME M!Cleanup \/ M!Tick PROVE M!WaitsForTheFirst'
  <2>1. UNCHANGED <<s2, s3, s4, s5, s6, s7>>
    BY <1>3 DEF M!Cleanup, M!Tick, M!settings
  <2>2. M!NextPeriod' = M!NextPeriod
    BY <2>1 DEF M!NextPeriod
  <2> QED
    BY <2>1, <2>2
<1>4. ASSUME M!FetchReplaces PROVE M!WaitsForTheFirst'
  BY <1>4 DEF M!FetchReplaces, M!settings, M!NextPeriod
<1>5. ASSUME M!FetchEnds PROVE M!WaitsForTheFirst'
  BY <1>5 DEF M!FetchEnds, M!NewTask
<1> QED
  BY <1>1, <1>2, <1>3, <1>4, <1>5 DEF M!Next

(* What lies ahead of a campaign that is near was chosen, and stays so.       *)
LEMMA MaintenanceChooses ==
    ASSUME M!ConstantsOK, M!Inv, M!Next PROVE M!Chosen'
<1> USE DEF M!ConstantsOK, M!Inv, M!Chosen
<1>1. s1 \in Nat /\ s8 \in [at : {"idle", "adding"}, found : SUBSET M!Campaign,
                              chosen : SUBSET Nat]
  BY DEF M!Types
<1>2. ASSUME M!FetchReplaces PROVE M!Chosen'
  <2>1. PICK found \in Inventories : s8' = M!Fetching(found)
    BY <1>2 DEF M!FetchReplaces
  <2>2. s13' = s1 + Hour /\ s1' = s1
    BY <1>2 DEF M!FetchReplaces, M!settings
  <2>3. SUFFICES ASSUME NEW k \in found, k.starts < s1 + Hour, NEW b \in M!Boundaries(k),
                        ~(b <= s1)
                 PROVE  b \in UNION {M!Boundaries(j) : j \in M!Soon(found)}
    BY <2>1, <2>2 DEF M!Fetching
  <2>4. k \in M!Campaign
    OBVIOUS
  <2>5. s1 < k.ends
    BY <1>1, <2>3, <2>4 DEF M!Boundaries, M!Campaign
  <2>6. k \in M!Soon(found)
    BY <2>3, <2>5 DEF M!Soon
  <2> QED
    BY <2>3, <2>6
<1>3. ASSUME M!FetchEnds PROVE M!Chosen'
  BY <1>3 DEF M!FetchEnds, M!NotFetching
<1>4. ASSUME M!TaskStarts \/ M!TaskWakes \/ M!ChangeSettings \/ M!Cleanup PROVE M!Chosen'
  BY <1>4 DEF M!TaskStarts, M!TaskWakes, M!ChangeSettings, M!Cleanup, M!settings
<1>5. ASSUME M!Tick PROVE M!Chosen'
  <2>1. s1' = s1 + 1 /\ UNCHANGED <<s8, s13>>
    BY <1>5 DEF M!Tick
  <2>2. \A k \in s8.found : M!Boundaries(k) \subseteq Nat
    BY <1>1 DEF M!Campaign, M!Boundaries
  <2>3. \A b \in Nat : b <= s1 => b <= s1 + 1
    BY <1>1
  <2> QED
    BY <2>1, <2>2, <2>3
<1> QED
  BY <1>2, <1>3, <1>4, <1>5 DEF M!Next

LEMMA MaintenanceForgets ==
    ASSUME M!ConstantsOK, M!Inv, M!Next PROVE M!NoneIsForgotten'
<1> USE DEF M!ConstantsOK, M!Inv, M!NoneIsForgotten
<1>1. ASSUME M!TaskStarts PROVE M!NoneIsForgotten'
  <2>1. UNCHANGED <<s1, s2, s3, s10, s12, s13>> /\ s6.at = "new"
        /\ (M!Reload \/ (M!Sleep /\ UNCHANGED s11))
    BY <1>1 DEF M!TaskStarts, M!settings
  <2>2. CASE M!Reload
    BY <2>2 DEF M!Reload, M!NoTask
  <2>3. CASE M!Sleep /\ UNCHANGED s11
    BY <2>1, <2>3 DEF M!Sleep
  <2> QED
    BY <2>1, <2>2, <2>3
<1>2. ASSUME M!TaskWakes PROVE M!NoneIsForgotten'
  <2>1. /\ UNCHANGED <<s1, s2, s3, s10, s13>> /\ s6.at = "asleep" /\ (s7 \/ s1 >= s6.until)
        /\ s12' = IF s7 THEN s12 \cup {s6.until} ELSE s12
        /\ \/ M!Reload
           \/ M!Sleep /\ s11' = IF M!IsBoundary /\ ~s7 THEN s1 ELSE s11
    BY <1>2 DEF M!TaskWakes, M!settings
  <2>2. CASE M!Reload
    BY <2>2 DEF M!Reload, M!NoTask
  <2>3. CASE M!Sleep /\ s11' = IF M!IsBoundary /\ ~s7 THEN s1 ELSE s11
    <3>1. /\ s4' = s4 /\ s5' = s5 \ {M!NextTrigger} /\ ~(s2 /\ s1 >= M!NextPeriod)
          /\ s6'.at = "asleep" /\ s6'.until = M!NextTrigger
      BY <2>3 DEF M!Sleep
    <3>2. SUFFICES ASSUME NEW k \in s10, NEW b \in M!Boundaries(k) \ s12', k.starts < s13,
                          b \notin s5, b = s6.until
                   PROVE  b <= s11'
      <4>1. SUFFICES ASSUME NEW k \in s10, NEW b \in M!Boundaries(k) \ s12', k.starts < s13
                     PROVE  b <= s11' \/ b \in s5' \/ s6'.until = b
        BY <2>1, <3>1
      <4>2. b \in M!Boundaries(k) \ s12
        BY <2>1
      <4>3. b <= s11 \/ b \in s5 \/ s6.until = b
        BY <2>1, <4>1, <4>2
      <4>4. b <= s11 => b <= s11'
        <5>1. s11 \in Nat /\ s1 \in Nat /\ b \in Nat /\ s11 <= s1
          BY DEF M!Types, M!Campaign, M!Boundaries
        <5>2. s11' = s11 \/ s11' = s1
          BY <2>1, <2>3
        <5> QED
          BY <5>1, <5>2
      <4> QED
        BY <3>1, <4>1, <4>2, <4>3, <4>4
    <3>3. ~s7
      BY <2>1, <3>2
    <3>4. s6.period = M!NextPeriod /\ s1 >= s6.until
      BY <2>1, <3>3 DEF M!WaitsForTheFirst
    <3>5. M!IsBoundary
      <4>1. SUFFICES ASSUME s6.until = s6.period PROVE FALSE
        BY DEF M!IsBoundary
      <4>2. ~s2
        BY <3>1, <3>4, <4>1
      <4>3. s6.until = Horizon + 100 /\ s1 \in 0..Horizon
        BY <3>4, <4>1, <4>2 DEF M!NextPeriod, M!Never, M!Types
      <4> QED
        BY <3>4, <4>3
    <3> QED
      BY <2>3, <3>2, <3>3, <3>4, <3>5
  <2> QED
    BY <2>1, <2>2, <2>3
<1>3. ASSUME M!ChangeSettings \/ M!Cleanup \/ M!Tick PROVE M!NoneIsForgotten'
  BY <1>3 DEF M!ChangeSettings, M!Cleanup, M!Tick, M!settings
<1>4. ASSUME M!FetchReplaces PROVE M!NoneIsForgotten'
  BY <1>4 DEF M!FetchReplaces, M!settings
<1>5. ASSUME M!FetchEnds PROVE M!NoneIsForgotten'
  BY <1>5 DEF M!FetchEnds, M!NewTask, M!Types, M!Chosen, M!settings
<1> QED
  BY <1>1, <1>2, <1>3, <1>4, <1>5 DEF M!Next

LEMMA MaintenanceStays == MaintenanceInv /\ [Next]_all => MaintenanceInv'
<1> SUFFICES ASSUME MaintenanceInv, [Next]_all, which' = "maintenance" PROVE M!Inv'
  BY DEF MaintenanceInv
<1>1. which = "maintenance" /\ M!Inv /\ M!ConstantsOK
  BY ServicesAssumption DEF MaintenanceInv, Next, ServicesAssumption
<1>2. M!Next \/ UNCHANGED M!vars
  BY <1>1 DEF Next, M!vars
<1>3. CASE M!Next
  BY <1>1, <1>3, MaintenanceTypes, MaintenanceWaits, MaintenanceChooses, MaintenanceForgets
  DEF M!Inv
<1>4. CASE UNCHANGED M!vars
  BY <1>1, <1>4
  DEF M!vars, M!Inv, M!Types, M!WaitsForTheFirst, M!Chosen, M!NoneIsForgotten, M!NextPeriod
<1> QED
  BY <1>2, <1>3, <1>4

(* A campaign that starts or ends is followed by a reload or a cleanup, and   *)
(* the reload is never late, whatever the settings do meanwhile.             *)
THEOREM BoundariesAreServedAlways == Spec => []BoundariesAreServed
<1>1. ASSUME M!Inv, M!ConstantsOK PROVE M!BoundariesAreServed
  <2>1. SUFFICES ASSUME M!Settled
                 PROVE  /\ \A k \in s10 : k.starts < s13 =>
                              \A b \in M!Boundaries(k) \ s12 : b <= s1 => s11 >= b
                        /\ s2 => s1 <= s4 + M!Max({1, s3})
    BY DEF M!BoundariesAreServed, M!Looked
  <2>2. s6.at = "asleep" /\ s1 < s6.until /\ ~s7 /\ s1 \in Nat /\ s11 \in Nat
        /\ s6.until \in Nat /\ s6.period \in Nat /\ s10 \subseteq M!Campaign /\ s5 \subseteq Nat
    BY <1>1, <2>1 DEF M!Settled, M!Inv, M!Types
  <2>3. s6.until <= s6.period /\ s6.period = M!NextPeriod /\ \A b \in s5 : s6.until <= b
    BY <1>1, <2>2 DEF M!Inv, M!WaitsForTheFirst
  <2>4. s2 => s1 <= s4 + M!Max({1, s3})
    BY <2>2, <2>3 DEF M!NextPeriod
  <2>5. ASSUME NEW k \in s10, k.starts < s13, NEW b \in M!Boundaries(k) \ s12, b <= s1
        PROVE  s11 >= b
    <3>2. b \in Nat
      BY <2>2 DEF M!Campaign, M!Boundaries
    <3>1. b <= s11 \/ b \in s5 \/ s6.until = b
      BY <1>1, <2>2, <2>5 DEF M!Inv, M!NoneIsForgotten
    <3> QED
      BY <2>2, <2>3, <2>5, <3>1, <3>2
  <2> QED
    BY <2>4, <2>5
<1>2. MaintenanceInv => BoundariesAreServed
  BY <1>1, ServicesAssumption DEF MaintenanceInv, BoundariesAreServed, ServicesAssumption
<1> QED
  BY <1>2, MaintenanceStarts, MaintenanceStays, PTL DEF Spec

-----------------------------------------------------------------------------
(* WatchRequest: what is remembered was served in this broadcast, and an      *)
(* address that was rejected again is in no Stream object.                   *)

WatchInv == which = "watching" => V!Inv

LEMMA WatchStarts == Init => WatchInv
<1> SUFFICES ASSUME Init, which = "watching" PROVE V!Inv
  BY DEF WatchInv
<1>1. V!Init /\ V!ConstantsOK
  BY ServicesAssumption DEF Init, ServicesAssumption
<1>2. V!Types
  <2>1. s3 \in [broadcast : Nat, url : V!Urls, same : BOOLEAN]
    <3>1. FALSE \in BOOLEAN
      OBVIOUS
    <3> QED
      BY <1>1, <3>1 DEF V!Init, V!Nothing, V!Urls
  <2> QED
    BY <1>1, <2>1 DEF V!Types, V!Init, V!Urls
<1>3. V!Remembered
  BY <1>1 DEF V!Remembered, V!Init, V!Nothing, V!Range
<1>4. V!Forgotten
  BY <1>1 DEF V!Forgotten, V!Init, V!Nothing
<1> QED
  BY <1>2, <1>3, <1>4 DEF V!Inv

LEMMA WatchRanges ==
    ASSUME NEW list \in Seq(Segments)
    PROVE  /\ V!Range(list) = {list[i] : i \in 1..Len(list)}
           /\ Len(list) \in Nat
           /\ list # <<>> => /\ Head(list) \in Segments /\ Tail(list) \in Seq(Segments)
                             /\ V!Range(list) = {Head(list)} \cup V!Range(Tail(list))
<1>1. \A l \in Seq(Segments) : V!Range(l) = {l[i] : i \in 1..Len(l)} /\ Len(l) \in Nat
  BY LenProperties DEF V!Range
<1>2. ASSUME list # <<>>
      PROVE  /\ Head(list) \in Segments /\ Tail(list) \in Seq(Segments)
             /\ V!Range(list) = {Head(list)} \cup V!Range(Tail(list))
  <2>1. /\ Head(list) \in Segments /\ Head(list) = list[1] /\ Tail(list) \in Seq(Segments)
        /\ Len(Tail(list)) = Len(list) - 1 /\ Len(list) \in Nat \ {0}
        /\ \A i \in 1..Len(Tail(list)) : Tail(list)[i] = list[i + 1]
    BY <1>2, HeadTailProperties
  <2>2. V!Range(Tail(list)) = {Tail(list)[i] : i \in 1..Len(Tail(list))}
    BY <1>1, <2>1
  <2>3. \A i \in 1..Len(list) : i = 1 \/ (i - 1 \in 1..Len(Tail(list)) /\ (i - 1) + 1 = i)
    BY <2>1
  <2>4. \A i \in 1..Len(Tail(list)) : i + 1 \in 1..Len(list)
    BY <2>1
  <2>5. V!Range(list) = {list[i] : i \in 1..Len(list)}
    BY <1>1
  <2>6. ASSUME NEW x \in V!Range(list) PROVE x \in {Head(list)} \cup V!Range(Tail(list))
    <3>1. PICK i \in 1..Len(list) : x = list[i]
      BY <2>5
    <3> QED
      BY <2>1, <2>2, <2>3, <3>1
  <2>7. ASSUME NEW x \in V!Range(Tail(list)) PROVE x \in V!Range(list)
    <3>1. PICK i \in 1..Len(Tail(list)) : x = Tail(list)[i]
      BY <2>2
    <3> QED
      BY <2>1, <2>4, <2>5, <3>1
  <2>8. Head(list) \in V!Range(list)
    BY <2>1, <2>5
  <2> QED
    BY <2>1, <2>6, <2>7, <2>8
<1> QED
  BY <1>1, <1>2

(* What the loop comes past it knows.                                        *)
LEMMA WatchUnseen ==
    ASSUME NEW list \in Seq(Segments), NEW known \in Seq(Segments)
    PROVE  /\ V!Unseen(list, known) \in Seq(Segments)
           /\ V!Range(list) \subseteq V!Range(known) \cup V!Range(V!Unseen(list, known))
<1> DEFINE new == {i \in 1..Len(list) : list[i] \notin V!Range(known)}
<1>1. CASE new = {}
  <2>1. V!Unseen(list, known) = <<>>
    BY <1>1 DEF V!Unseen
  <2> QED
    BY <1>1, <2>1, WatchRanges
<1>2. CASE new # {}
  <2>1. new \in SUBSET Nat
    OBVIOUS
  <2>2. PICK m \in new : \A i \in new : m <= i
    BY <1>2, <2>1, LeastExists
  <2>3. V!Min(new) \in new /\ \A i \in new : V!Min(new) <= i
    BY <2>2 DEF V!Min
  <2> DEFINE first == V!Min(new)
             rest == SubSeq(list, first, Len(list))
  <2>4. V!Unseen(list, known) = rest
    BY <1>2 DEF V!Unseen
  <2>5. first \in new /\ \A i \in new : first <= i
    BY <2>3
  <2> HIDE DEF first
  <2>6. first \in 1..Len(list) /\ Len(list) \in Nat
    BY <2>5, WatchRanges
  <2>7. \A i \in 1..Len(list) : i < first => list[i] \in V!Range(known)
    <3> SUFFICES ASSUME NEW i \in 1..Len(list), i < first, list[i] \notin V!Range(known)
                 PROVE  FALSE
      OBVIOUS
    <3>1. i \in new
      OBVIOUS
    <3>2. first <= i
      BY <2>5, <3>1
    <3> QED
      BY <2>6, <3>2
  <2>8. /\ rest \in Seq(Segments) /\ Len(list) \in Nat
        /\ Len(rest) = Len(list) - first + 1
        /\ \A i \in 1..Len(rest) : rest[i] = list[first + i - 1]
    BY <2>6, SubSeqProperties
  <2> HIDE DEF rest
  <2>9. ASSUME NEW x \in V!Range(list) PROVE x \in V!Range(known) \cup V!Range(rest)
    <3>1. PICK i \in 1..Len(list) : x = list[i]
      BY WatchRanges
    <3>2. CASE i < first
      BY <2>7, <3>1, <3>2
    <3>3. CASE ~(i < first)
      <4>1. i - first + 1 \in 1..Len(rest) /\ first + (i - first + 1) - 1 = i
        BY <2>6, <2>8, <3>3
      <4>2. rest[i - first + 1] = list[first + (i - first + 1) - 1]
        BY <2>8, <4>1
      <4> QED
        BY <2>8, <3>1, <4>1, <4>2, WatchRanges
    <3> QED
      BY <3>2, <3>3
  <2> QED
    BY <2>4, <2>8, <2>9
<1> QED
  BY <1>1, <1>2

(* Playlists are sequences.                                                  *)
LEMMA WatchPlaylists ==
    ASSUME V!ConstantsOK,
           NEW segments \in V!SetToSeqs(Segments) \cup {<<s>> : s \in Segments}
    PROVE  segments \in Seq(Segments)
<1>1. CASE segments \in V!SetToSeqs(Segments)
  <2>1. V!Cardinality(Segments) \in Nat
    <3>1. V!Cardinality(Segments) = Cardinality(Segments)
      BY DEF V!Cardinality, Cardinality
    <3>2. IsFiniteSet(Segments)
      BY DEF V!ConstantsOK, V!IsFiniteSet, IsFiniteSet
    <3> QED
      BY <3>1, <3>2, FS_CardinalityType
  <2>2. segments \in [1..V!Cardinality(Segments) -> Segments]
    BY <1>1 DEF V!SetToSeqs
  <2> QED
    BY <2>1, <2>2
<1>2. CASE segments \in {<<s>> : s \in Segments}
  <2>1. PICK s \in Segments : segments = <<s>>
    BY <1>2
  <2> QED
    BY <2>1
<1> QED
  BY <1>1, <1>2

(* What Proceed makes of the segments: those it comes past are known.        *)
LEMMA WatchProceeds ==
    ASSUME NEW rest \in Seq(Segments), NEW known \in Seq(Segments), NEW good,
           V!Proceed(rest, known, good)
    PROVE  /\ s6' \in Seq(Segments) /\ s7' = good
           /\ V!Range(rest) \subseteq V!Range(known) \cup V!Range(s6')
           /\ \/ s4' = "head" /\ s6' # <<>>
              \/ s4' \in {"sleep", "spade"} /\ s6' = <<>> /\ (s4' = "spade" => good)
<1>1. s6' = V!Unseen(rest, known) /\ s7' = good
  BY DEF V!Proceed
<1>2. IF s6' = <<>> THEN V!Finished(good) ELSE s4' = "head"
  BY DEF V!Proceed
<1>3. V!Finished(good) => s4' \in {"sleep", "spade"} /\ (s4' = "spade" => good)
  BY DEF V!Finished
<1> QED
  BY <1>1, <1>2, <1>3, WatchUnseen

LEMMA WatchTypes ==
    ASSUME V!ConstantsOK, V!Inv, V!Next PROVE V!Types'
<1> USE DEF V!ConstantsOK, V!Inv, V!Types, V!Urls
<1>1. ASSUME V!LookUp PROVE V!Types'
  <2>1. PICK b \in Nat : s1' = [broadcast |-> b,
                     url |-> IF b = s1.broadcast THEN s1.url ELSE NoAddress]
    BY <1>1 DEF V!LookUp
  <2>2. FALSE \in BOOLEAN
    OBVIOUS
  <2>3. s3' \in [broadcast : Nat, url : V!Urls, same : BOOLEAN]
    BY <1>1, <2>2 DEF V!LookUp
  <2>4. s1' \in [broadcast : Nat, url : V!Urls]
    BY <2>1
  <2> QED
    BY <1>1, <2>3, <2>4 DEF V!LookUp, V!request, V!memory, V!ghosts
<1>2. ASSUME V!GoOffline PROVE V!Types'
  <2>1. FALSE \in BOOLEAN
    OBVIOUS
  <2>2. s3' \in [broadcast : Nat, url : V!Urls, same : BOOLEAN]
    BY <1>2, <2>1 DEF V!GoOffline
  <2>3. s1' \in [broadcast : Nat, url : V!Urls]
    BY <1>2 DEF V!GoOffline, V!Offline
  <2> QED
    BY <1>2, <2>2, <2>3 DEF V!GoOffline, V!request, V!memory, V!ghosts
<1>3. ASSUME V!WantedOrNot \/ V!Minute \/ V!SpadeEnds \/ V!GiveUp \/ V!SleepEnds \/ V!Ends
      PROVE V!Types'
  <2>1. UNCHANGED <<s1, s3, s5, s6, s8, s13>>
    BY <1>3 DEF V!WantedOrNot, V!Minute, V!SpadeEnds, V!GiveUp, V!SleepEnds, V!Ends, V!Fail,
       V!request, V!memory, V!ghosts
  <2>2. s4' = "head" => s4 = "head"
    BY <1>3 DEF V!WantedOrNot, V!Minute, V!SpadeEnds, V!GiveUp, V!SleepEnds, V!Ends, V!Fail
  <2> QED
    BY <2>1, <2>2
<1>4. ASSUME V!Begin PROVE V!Types'
  <2>1. TRUE \in BOOLEAN
    OBVIOUS
  <2>2. s3' \in [broadcast : Nat, url : V!Urls, same : BOOLEAN]
    BY <1>4, <2>1 DEF V!Begin
  <2>3. s8' \in {s8, <<>>}
    BY <1>4 DEF V!Begin, V!Known
  <2>4. UNCHANGED <<s1, s13>> /\ s5' = <<>> /\ s6' = <<>>
    BY <1>4 DEF V!Begin, V!ghosts
  <2>5. s4' # "head"
    BY <1>4 DEF V!Begin
  <2>6. {s5', s6', s8'} \subseteq Seq(Segments)
    <3>1. <<>> \in Seq(Segments)
      OBVIOUS
    <3>2. s8 \in Seq(Segments)
      OBVIOUS
    <3> HIDE DEF V!Types
    <3> QED
      BY <2>3, <2>4, <3>1, <3>2
  <2>7. s1' \in [broadcast : Nat, url : V!Urls] /\ s13' \in [Addresses -> Nat]
    BY <2>4
  <2> QED
    BY <2>2, <2>5, <2>6, <2>7
<1>5. ASSUME NEW a \in V!Urls, V!HeldUrl(a)
      PROVE  /\ s1' \in [broadcast : Nat, url : V!Urls]
             /\ s3' \in [broadcast : Nat, url : V!Urls, same : BOOLEAN]
  BY <1>5 DEF V!HeldUrl
<1>6. ASSUME V!AddressArrives PROVE V!Types'
  <2>1. \E a \in V!Urls : V!HeldUrl(a)
    BY <1>6 DEF V!AddressArrives
  <2>2. UNCHANGED <<s5, s6, s8, s13>> /\ s4' # "head"
    BY <1>6 DEF V!AddressArrives, V!Fail, V!request, V!memory, V!ghosts
  <2> QED
    BY <1>5, <2>1, <2>2
<1>7. ASSUME V!PlaylistArrives PROVE V!Types'
  <2>1. UNCHANGED <<s1, s3, s8, s13>>
    BY <1>7 DEF V!PlaylistArrives, V!ghosts
  <2>2. CASE V!Fail
    BY <2>1, <2>2 DEF V!Fail
  <2>3. CASE \E segments \in V!SetToSeqs(Segments) \cup {<<s>> : s \in Segments} :
               s5' = segments /\ V!Proceed(segments, s8, TRUE)
    <3>1. PICK segments \in V!SetToSeqs(Segments) \cup {<<s>> : s \in Segments} :
               s5' = segments /\ V!Proceed(segments, s8, TRUE)
      BY <2>3
    <3>2. segments \in Seq(Segments) /\ s8 \in Seq(Segments)
      BY WatchPlaylists
    <3>3. s6' \in Seq(Segments) /\ (s4' = "head" => s6' # <<>>)
      BY <3>1, <3>2, WatchProceeds
    <3> QED
      BY <2>1, <3>1, <3>2, <3>3
  <2> QED
    BY <1>7, <2>2, <2>3 DEF V!PlaylistArrives
<1>8. ASSUME V!PlaylistRejected PROVE V!Types'
  <2>1. /\ s1' \in [broadcast : Nat, url : V!Urls]
        /\ s3' \in [broadcast : Nat, url : V!Urls, same : BOOLEAN]
    BY <1>8 DEF V!PlaylistRejected, V!DropUrl
  <2>2. s13' \in [Addresses -> Nat]
    <3>1. s13' = IF s3.url \in s12 THEN [s13 EXCEPT ![s3.url] = s13[s3.url] + 1] ELSE s13
      BY <1>8 DEF V!PlaylistRejected
    <3>2. s13 \in [Addresses -> Nat]
      OBVIOUS
    <3>3. CASE s3.url \in Addresses
      <4>1. s13[s3.url] + 1 \in Nat
        BY <3>2, <3>3
      <4> QED
        BY <3>1, <3>2, <4>1
    <3>4. CASE s3.url \notin Addresses
      <4>1. s13' = s13
        BY <3>1, <3>2, <3>4
      <4> QED
        BY <3>2, <4>1
    <3> QED
      BY <3>3, <3>4
  <2>3. UNCHANGED <<s5, s6, s8>> /\ s4' = "sleep"
    BY <1>8 DEF V!PlaylistRejected, V!Fail, V!memory
  <2> QED
    BY <2>1, <2>2, <2>3
<1>9. ASSUME V!HeadArrives PROVE V!Types'
  <2>1. UNCHANGED <<s1, s3, s13>>
    BY <1>9 DEF V!HeadArrives
  <2>2. CASE V!Fail /\ UNCHANGED s8
    BY <2>1, <2>2 DEF V!Fail
  <2>3. CASE ~(V!Fail /\ UNCHANGED s8)
    <3> DEFINE everything == Append(s8, Head(s6))
               known == IF Len(everything) > Kept THEN Tail(everything) ELSE everything
    <3>1. V!Proceed(Tail(s6), known, s7) /\ s8' = known /\ UNCHANGED s5 /\ s4 = "head"
      BY <1>9, <2>3 DEF V!HeadArrives
    <3>2. known \in Seq(Segments) /\ Tail(s6) \in Seq(Segments)
      <4>1. Head(s6) \in Segments /\ Tail(s6) \in Seq(Segments)
        BY <3>1, WatchRanges
      <4>2. everything \in Seq(Segments) /\ everything # <<>>
        <5>1. \A x \in Segments : Append(s8, x) \in Seq(Segments) /\ Append(s8, x) # <<>>
          BY AppendProperties
        <5> QED
          BY <4>1, <5>1
      <4> HIDE DEF everything
      <4>3. Tail(everything) \in Seq(Segments)
        BY <4>2
      <4> QED
        BY <4>1, <4>2, <4>3
    <3> HIDE DEF known
    <3>3. s6' \in Seq(Segments) /\ (s4' = "head" => s6' # <<>>)
      BY <3>1, <3>2, WatchProceeds
    <3> QED
      BY <2>1, <3>1, <3>2, <3>3
  <2> QED
    BY <2>2, <2>3
<1>10. ASSUME V!HeadFails PROVE V!Types'
  <2>1. UNCHANGED <<s8, s13>> /\ s4 = "head"
    BY <1>10 DEF V!HeadFails
  <2>2. /\ s1' \in [broadcast : Nat, url : V!Urls]
        /\ s3' \in [broadcast : Nat, url : V!Urls, same : BOOLEAN]
    BY <1>5, <1>10 DEF V!HeadFails
  <2>3. V!Fail \/ (V!Proceed(Tail(s6), s8, FALSE) /\ UNCHANGED s5)
    BY <1>10 DEF V!HeadFails
  <2>4. CASE V!Fail
    BY <2>1, <2>2, <2>4 DEF V!Fail
  <2>5. CASE V!Proceed(Tail(s6), s8, FALSE) /\ UNCHANGED s5
    <3>1. Tail(s6) \in Seq(Segments) /\ s8 \in Seq(Segments)
      BY <2>1, WatchRanges
    <3>2. s6' \in Seq(Segments) /\ (s4' = "head" => s6' # <<>>)
      BY <2>5, <3>1, WatchProceeds
    <3> QED
      BY <2>1, <2>2, <2>5, <3>2
  <2> QED
    BY <2>3, <2>4, <2>5
<1> QED
  BY <1>1, <1>2, <1>3, <1>4, <1>6, <1>7, <1>8, <1>9, <1>10 DEF V!Next

LEMMA WatchRemembers ==
    ASSUME V!ConstantsOK, V!Inv, V!Next PROVE V!Remembered'
<1> DEFINE Had(s) == <<s3.broadcast, s>> \in s11
           Has(s) == <<s3'.broadcast, s>> \in s11'
           Goal == /\ s9' = s3'.broadcast
                   /\ \A s \in V!Range(s8') : Has(s)
                   /\ s4' = "head" /\ s7' => \A s \in V!Range(s5') : s \in V!Range(s6') \/ Has(s)
                   /\ s4' = "spade" \/ (s4' = "sleep" /\ s7') => \A s \in V!Range(s5') : Has(s)
<1>1. SUFFICES Goal
  BY DEF V!Remembered, V!Served, V!Range
<1>2. /\ s9 = s3.broadcast
      /\ \A s \in V!Range(s8) : Had(s)
      /\ s4 = "head" /\ s7 => \A s \in V!Range(s5) : s \in V!Range(s6) \/ Had(s)
      /\ s4 = "spade" \/ (s4 = "sleep" /\ s7) => \A s \in V!Range(s5) : Had(s)
  BY DEF V!Inv, V!Remembered, V!Served
<1>3. s5 \in Seq(Segments) /\ s6 \in Seq(Segments) /\ s8 \in Seq(Segments)
      /\ (s4 = "head" => s6 # <<>>) /\ s3 \in [broadcast : Nat, url : V!Urls, same : BOOLEAN]
  BY DEF V!Inv, V!Types
<1>4. s3'.broadcast = s3.broadcast /\ s11 \subseteq s11' => \A s : Had(s) => Has(s)
  OBVIOUS
<1> HIDE DEF Had, Has
<1>5. CASE V!LookUp \/ V!GoOffline \/ V!WantedOrNot \/ V!Minute
  <2>1. UNCHANGED <<s4, s5, s6, s7, s8, s9, s11>> /\ s3'.broadcast = s3.broadcast
    BY <1>3, <1>5 DEF V!LookUp, V!GoOffline, V!WantedOrNot, V!Minute, V!request, V!memory,
       V!ghosts
  <2> QED
    BY <1>2, <1>4, <2>1
<1>6. CASE V!Begin
  <2>1. /\ s9' = s3'.broadcast /\ s11' = s11 /\ s5' = <<>> /\ s6' = <<>>
        /\ (s8' = s8 /\ s9' = s9) \/ s8' = <<>>
    BY <1>6 DEF V!Begin, V!Known, V!ghosts
  <2>2. V!Range(<<>>) = {}
    BY DEF V!Range
  <2>3. \A s \in V!Range(s8') : Has(s)
    BY <1>2, <1>4, <2>1, <2>2
  <2> QED
    BY <2>1, <2>2, <2>3
<1>7. CASE V!AddressArrives \/ V!PlaylistRejected
  <2>1. UNCHANGED <<s8, s9, s11>> /\ s3'.broadcast = s3.broadcast
    BY <1>3, <1>7 DEF V!AddressArrives, V!PlaylistRejected, V!HeldUrl, V!DropUrl, V!memory,
       V!ghosts
  <2>2. s4' = "playlist" \/ (s4' = "sleep" /\ s7' = FALSE)
    BY <1>7 DEF V!AddressArrives, V!PlaylistRejected, V!Fail
  <2> QED
    BY <1>2, <1>4, <2>1, <2>2
<1>8. CASE V!GiveUp \/ V!SpadeEnds \/ V!SleepEnds \/ V!Ends
  <2>1. UNCHANGED <<s3, s5, s6, s8, s9, s11>>
    BY <1>8 DEF V!GiveUp, V!SpadeEnds, V!SleepEnds, V!Ends, V!Fail, V!memory, V!request,
       V!ghosts
  <2>2. \/ s4' = "sleep" /\ s7' = FALSE
        \/ s4' = "sleep" /\ s4 = "spade"
        \/ s4' \in {"progress", "idle"}
    BY <1>8 DEF V!GiveUp, V!SpadeEnds, V!SleepEnds, V!Ends, V!Fail
  <2> QED
    BY <1>2, <1>4, <2>1, <2>2
\* Past the segments that are known.
<1>9. ASSUME NEW rest \in Seq(Segments), NEW known \in Seq(Segments), NEW good,
             V!Proceed(rest, known, good), s9' = s3'.broadcast,
             \A s \in V!Range(known) : Has(s),
             \A s \in V!Range(s8') : Has(s),
             good => \A s \in V!Range(s5') : s \in V!Range(rest) \/ Has(s)
      PROVE  Goal
  <2>1. /\ s7' = good
        /\ V!Range(rest) \subseteq V!Range(known) \cup V!Range(s6')
        /\ \/ s4' = "head" /\ s6' # <<>>
           \/ s4' \in {"sleep", "spade"} /\ s6' = <<>> /\ (s4' = "spade" => good)
    BY <1>9, WatchProceeds
  <2>2. good => \A s \in V!Range(s5') : s \in V!Range(s6') \/ Has(s)
    BY <1>9, <2>1
  <2>3. s6' = <<>> => V!Range(s6') = {}
    BY DEF V!Range
  <2> QED
    BY <1>9, <2>1, <2>2, <2>3
<1>10. CASE V!PlaylistArrives
  <2>1. UNCHANGED <<s3, s8, s9, s11>>
    BY <1>10 DEF V!PlaylistArrives, V!ghosts
  <2>2. CASE V!Fail
    BY <1>2, <1>4, <2>1, <2>2 DEF V!Fail
  <2>3. CASE \E segments \in V!SetToSeqs(Segments) \cup {<<s>> : s \in Segments} :
               s5' = segments /\ V!Proceed(segments, s8, TRUE)
    <3>1. PICK segments \in V!SetToSeqs(Segments) \cup {<<s>> : s \in Segments} :
               s5' = segments /\ V!Proceed(segments, s8, TRUE)
      BY <2>3
    <3>2. segments \in Seq(Segments)
      BY WatchPlaylists
    <3>3. \A s \in V!Range(s8) : Has(s)
      BY <1>2, <1>4, <2>1
    <3> QED
      BY <1>2, <1>3, <1>9, <2>1, <3>1, <3>2, <3>3
  <2> QED
    BY <1>10, <2>2, <2>3 DEF V!PlaylistArrives
<1>11. CASE V!HeadArrives
  <2>1. /\ UNCHANGED <<s3, s9>> /\ s4 = "head"
        /\ s11' = s11 \cup {<<s3.broadcast, Head(s6)>>}
    BY <1>11 DEF V!HeadArrives
  <2>2. /\ Head(s6) \in Segments /\ Tail(s6) \in Seq(Segments)
        /\ V!Range(s6) = {Head(s6)} \cup V!Range(Tail(s6))
    BY <1>3, <2>1, WatchRanges
  <2>3. Has(Head(s6)) /\ \A s : Had(s) => Has(s)
    BY <1>4, <2>1 DEF Has
  <2>4. CASE V!Fail /\ UNCHANGED s8
    BY <1>2, <2>1, <2>3, <2>4 DEF V!Fail
  <2>5. CASE ~(V!Fail /\ UNCHANGED s8)
    <3> DEFINE everything == Append(s8, Head(s6))
               known == IF Len(everything) > Kept THEN Tail(everything) ELSE everything
    <3>1. V!Proceed(Tail(s6), known, s7) /\ s8' = known /\ UNCHANGED s5
      BY <1>11, <2>5 DEF V!HeadArrives
    <3>2. /\ everything \in Seq(Segments) /\ everything # <<>>
          /\ \A s \in V!Range(everything) : s \in V!Range(s8) \/ s = Head(s6)
      <4>1. /\ everything \in Seq(Segments) /\ everything # <<>>
            /\ Len(everything) = Len(s8) + 1 /\ Len(s8) \in Nat
            /\ \A i \in 1..Len(s8) : everything[i] = s8[i]
            /\ everything[Len(s8) + 1] = Head(s6)
        <5>1. \A x \in Segments : /\ Append(s8, x) \in Seq(Segments) /\ Append(s8, x) # <<>>
                                  /\ Len(Append(s8, x)) = Len(s8) + 1
                                  /\ \A i \in 1..Len(s8) : Append(s8, x)[i] = s8[i]
                                  /\ Append(s8, x)[Len(s8) + 1] = x
          BY <1>3, AppendProperties
        <5> QED
          BY <1>3, <2>2, <5>1, LenProperties
      <4> HIDE DEF everything
      <4>2. \A i \in 1..Len(everything) : i \in 1..Len(s8) \/ i = Len(s8) + 1
        BY <4>1
      <4>3. /\ V!Range(everything) = {everything[i] : i \in 1..Len(everything)}
            /\ V!Range(s8) = {s8[i] : i \in 1..Len(s8)}
        BY <1>3, <4>1, WatchRanges
      <4> QED
        BY <4>1, <4>2, <4>3
    <3> HIDE DEF everything
    <3>3. known \in Seq(Segments) /\ V!Range(known) \subseteq V!Range(everything)
      BY <3>2, WatchRanges
    <3> HIDE DEF known
    <3>4. \A s \in V!Range(known) : Has(s)
      BY <1>2, <2>3, <3>2, <3>3
    <3>5. s7 => \A s \in V!Range(s5') : s \in V!Range(Tail(s6)) \/ Has(s)
      BY <1>2, <2>1, <2>2, <2>3, <3>1
    <3> QED
      BY <1>2, <1>9, <2>1, <2>2, <3>1, <3>3, <3>4, <3>5
  <2> QED
    BY <2>4, <2>5
<1>12. CASE V!HeadFails
  <2>1. UNCHANGED <<s8, s9, s11>> /\ s3'.broadcast = s3.broadcast /\ s4 = "head"
    BY <1>3, <1>12 DEF V!HeadFails, V!HeldUrl
  <2>2. V!Fail \/ (V!Proceed(Tail(s6), s8, FALSE) /\ UNCHANGED s5)
    BY <1>12 DEF V!HeadFails
  <2>3. CASE V!Fail
    BY <1>2, <1>4, <2>1, <2>3 DEF V!Fail
  <2>4. CASE V!Proceed(Tail(s6), s8, FALSE)
    <3>1. Tail(s6) \in Seq(Segments)
      BY <1>3, <2>1, WatchRanges
    <3>2. \A s \in V!Range(s8) : Has(s)
      BY <1>2, <1>4, <2>1
    <3> QED
      BY <1>2, <1>3, <1>9, <2>1, <2>4, <3>1, <3>2
  <2> QED
    BY <2>2, <2>3, <2>4
<1> QED
  BY <1>5, <1>6, <1>7, <1>8, <1>10, <1>11, <1>12 DEF V!Next

LEMMA WatchForgets ==
    ASSUME V!ConstantsOK, V!Inv, V!Next PROVE V!Forgotten'
<1> USE DEF V!ConstantsOK, V!Inv, V!Forgotten, V!Types, V!Urls
<1>1. ASSUME V!LookUp PROVE V!Forgotten'
  <2>1. PICK b \in Nat : s1' = [broadcast |-> b,
                     url |-> IF b = s1.broadcast THEN s1.url ELSE NoAddress]
    BY <1>1 DEF V!LookUp
  <2>2. s3' = [s3 EXCEPT !.same = FALSE] /\ UNCHANGED <<s12, s13>>
    BY <1>1 DEF V!LookUp, V!ghosts
  <2> QED
    BY <2>1, <2>2
<1>2. ASSUME V!GoOffline PROVE V!Forgotten'
  <2>1. s1' = V!Offline /\ s3' = [s3 EXCEPT !.same = FALSE] /\ UNCHANGED <<s12, s13>>
    BY <1>2 DEF V!GoOffline, V!ghosts
  <2> QED
    BY <2>1 DEF V!Offline
<1>3. ASSUME \/ V!WantedOrNot \/ V!Minute \/ V!SpadeEnds \/ V!GiveUp \/ V!SleepEnds \/ V!Ends
             \/ V!PlaylistArrives \/ V!HeadArrives
      PROVE V!Forgotten'
  <2>1. UNCHANGED <<s1, s3, s12, s13>>
    BY <1>3 DEF V!WantedOrNot, V!Minute, V!SpadeEnds, V!GiveUp, V!SleepEnds, V!Ends,
       V!PlaylistArrives, V!HeadArrives, V!ghosts
  <2> QED
    BY <2>1
<1>4. ASSUME V!Begin PROVE V!Forgotten'
  <2>1. /\ s3' = [broadcast |-> s1.broadcast, url |-> s1.url, same |-> TRUE]
        /\ UNCHANGED <<s1, s12, s13>>
    BY <1>4 DEF V!Begin, V!ghosts
  <2> QED
    BY <2>1
<1>5. ASSUME V!AddressArrives PROVE V!Forgotten'
  <2>1. PICK a \in Addresses \ (s12 \cup {s1.url}) : V!HeldUrl(a)
    BY <1>5 DEF V!AddressArrives
  <2>2. UNCHANGED <<s12, s13>>
    BY <1>5 DEF V!AddressArrives, V!ghosts
  <2> QED
    BY <2>1, <2>2 DEF V!HeldUrl
<1>6. ASSUME V!PlaylistRejected PROVE V!Forgotten'
  <2>1. /\ s3' = [s3 EXCEPT !.url = NoAddress]
        /\ s1' = IF s1.broadcast = s3.broadcast THEN [s1 EXCEPT !.url = NoAddress] ELSE s1
        /\ s12' = s12 \cup {s3.url}
        /\ s13' = IF s3.url \in s12 THEN [s13 EXCEPT ![s3.url] = s13[s3.url] + 1] ELSE s13
    BY <1>6 DEF V!PlaylistRejected, V!DropUrl
  <2>2. s1'.url = NoAddress
    BY <2>1
  <2>3. \A a \in Addresses : s13'[a] = s13[a]
           \/ (a = s3.url /\ s13[a] = 0 /\ s13'[a] = 1 /\ a \in s12)
    BY <2>1
  <2>4. s1'.broadcast = s1.broadcast /\ s3'.broadcast = s3.broadcast /\ s3'.same = s3.same
        /\ s3'.url = NoAddress
    BY <2>1
  <2> QED
    BY <2>1, <2>2, <2>3, <2>4
<1>7. ASSUME V!HeadFails PROVE V!Forgotten'
  <2>1. CASE V!HeldUrl(NoAddress)
    <3>1. UNCHANGED s13 /\ s12 \subseteq s12'
      BY <1>7 DEF V!HeadFails
    <3> QED
      BY <2>1, <3>1 DEF V!HeldUrl
  <2>2. CASE UNCHANGED <<s1, s3, s12>>
    BY <1>7, <2>2 DEF V!HeadFails
  <2> QED
    BY <1>7, <2>1, <2>2 DEF V!HeadFails
<1> QED
  BY <1>1, <1>2, <1>3, <1>4, <1>5, <1>6, <1>7 DEF V!Next

LEMMA WatchStays == WatchInv /\ [Next]_all => WatchInv'
<1> SUFFICES ASSUME WatchInv, [Next]_all, which' = "watching" PROVE V!Inv'
  BY DEF WatchInv
<1>1. which = "watching" /\ V!Inv /\ V!ConstantsOK
  BY ServicesAssumption DEF WatchInv, Next, ServicesAssumption
<1>2. V!Next \/ UNCHANGED V!vars
  BY <1>1 DEF Next, V!vars
<1>3. CASE V!Next
  BY <1>1, <1>3, WatchTypes, WatchRemembers, WatchForgets DEF V!Inv
<1>4. CASE UNCHANGED V!vars
  <2>1. UNCHANGED <<s1, s2, s3, s4, s5, s6, s7>>
    BY <1>4 DEF V!vars
  <2>2. UNCHANGED <<s8, s9, s10, s11, s12, s13>>
    BY <1>4 DEF V!vars
  <2>3. V!Types'
    BY <1>1, <2>1, <2>2 DEF V!Inv, V!Types
  <2>4. V!Remembered'
    BY <1>1, <2>1, <2>2 DEF V!Inv, V!Remembered, V!Served, V!Range
  <2>5. V!Forgotten'
    BY <1>1, <2>1, <2>2 DEF V!Inv, V!Forgotten
  <2> QED
    BY <2>3, <2>4, <2>5 DEF V!Inv
<1> QED
  BY <1>2, <1>3, <1>4

(* A minute counts only if each segment was served during the broadcast, and *)
(* an address that was rejected is rejected at most once more.               *)
THEOREM WatchingIsRealAlways == Spec => []WatchingIsReal
<1>1. V!Inv => V!WatchingIsReal
  BY DEF V!Inv, V!Types, V!Remembered, V!Served, V!Forgotten, V!WatchingIsReal
<1>2. WatchInv => WatchingIsReal
  BY <1>1 DEF WatchInv, WatchingIsReal
<1> QED
  BY <1>2, WatchStarts, WatchStays, PTL DEF Spec
-----------------------------------------------------------------------------
(* SettingsManager: a program holds, and has saved, what somebody entered.   *)

SettingsInv == which = "settings" => S!Inv

LEMMA SettingsStart == Init => SettingsInv
<1> SUFFICES ASSUME Init, which = "settings" PROVE S!Inv
  BY DEF SettingsInv
<1>1. S!Init
  BY DEF Init
<1>2. S!Defaults \in S!Entered
  BY <1>1 DEF S!Init, S!Defaults, S!Entered
<1>3. {NoProxy, NoToken} \subseteq s7 /\ s1 = S!Defaults /\ s2 = NoFile /\ s6 = {}
  BY <1>1 DEF S!Init
<1>4. s1.games = {} /\ s1.proxy = NoProxy /\ s1.token = NoToken
  BY <1>3 DEF S!Defaults
<1> QED
  BY <1>2, <1>3, <1>4 DEF S!Inv, S!SettingsInForce

\* What the fields of an update come to was entered, now or before.
LEMMA SettingsUpdated ==
    ASSUME S!Inv, NEW form \in S!Forms, S!Valid(form),
           s7' = s7 \cup ({form.proxy, form.token} \cap (S!Proxies \cup Bots))
    PROVE  S!Updated(form) \in S!Entered'
<1> DEFINE games == S!Given(form.games, s1.games)
           proxy == S!Given(S!Meant(form.proxy), s1.proxy)
           token == S!MeantToken(form.token)
<1>1. s1 \in [games : SUBSET Games, proxy : s7, token : s7]
  BY DEF S!Inv, S!Entered
<1>2. /\ form.games \in (SUBSET Games) \cup {Absent}
      /\ form.token \in Bots \cup {Mask, NoToken, Absent}
  BY DEF S!Forms
<1>3. games \in SUBSET Games
  <2>1. s1.games \in SUBSET Games
    BY <1>1
  <2>2. form.games = Absent => games = s1.games
    BY DEF S!Given
  <2>3. form.games # Absent => games = form.games
    BY DEF S!Given
  <2> HIDE DEF games
  <2> QED
    BY <1>2, <2>1, <2>2, <2>3
<1>4. token \in s7'
  BY <1>1, <1>2 DEF S!MeantToken
<1>5. proxy \in s7'
  <2>1. S!Meant(form.proxy) \in S!Proxies \cup {NoProxy, Absent}
    BY DEF S!Valid, S!HasMask
  <2>2. S!Meant(form.proxy) \in {s1.proxy, form.proxy}
    BY DEF S!Meant
  <2>3. {s1.proxy, NoProxy} \subseteq s7
    BY <1>1 DEF S!Inv
  <2> QED
    BY <2>1, <2>2, <2>3 DEF S!Given
<1>6. S!Updated(form) = [games |-> games, proxy |-> proxy, token |-> token]
  BY DEF S!Updated
<1>7. S!Entered' = [games : SUBSET Games, proxy : s7', token : s7']
  BY DEF S!Entered
<1> HIDE DEF games, proxy, token
<1> QED
  BY <1>3, <1>4, <1>5, <1>6, <1>7

\* What was entered stays entered.
LEMMA SettingsStayEntered == s7 \subseteq s7' => S!Entered \subseteq S!Entered'
<1> SUFFICES ASSUME s7 \subseteq s7',
                    NEW x \in [games : SUBSET Games, proxy : s7, token : s7]
             PROVE  x \in [games : SUBSET Games, proxy : s7', token : s7']
  BY DEF S!Entered
<1> QED
  OBVIOUS

LEMMA SettingsNext ==
    ASSUME S!Inv, S!Next PROVE S!Inv'
<1> USE DEF S!Inv, S!SettingsInForce
<1> DEFINE InForce == s3' = "runs" =>
                /\ (s2' \in {s1', Torn}) \/ (s2' = NoFile /\ s1' = S!Defaults)
                /\ s6' # s1'.games => s4' \/ s5'
                /\ {s1'.proxy, s1'.token} \subseteq s7'
           Goal == /\ {NoProxy, NoToken} \subseteq s7'
                   /\ s1' \in S!Entered' /\ s2' \in S!Entered' \cup {NoFile, Torn}
                   /\ InForce
<1>1. SUFFICES Goal
  BY DEF S!Defaults
<1>2. \A x \in S!Entered : x.games \in SUBSET Games /\ x.proxy \in s7 /\ x.token \in s7
  BY DEF S!Entered
<1>3. \A x \in S!Entered' : x.proxy \in s7' /\ x.token \in s7'
  BY DEF S!Entered
<1>4. CASE UNCHANGED <<s1, s7>> /\ s2' \in {s1, s2, Torn}
           /\ (s3' = "runs" => s3 = "runs" /\ (s6' # s1.games => s4' \/ s5'))
  <2>1. S!Entered' = S!Entered
    BY <1>4 DEF S!Entered
  <2> QED
    BY <1>2, <1>4, <2>1
<1>5. CASE S!UpdateSettings
  <2>1. PICK form \in S!Forms :
            /\ S!Valid(form)
            /\ S!Accepts(S!Updated(form)) \/ S!RollsBack(S!Updated(form))
            /\ s7' = s7 \cup ({form.proxy, form.token} \cap (S!Proxies \cup Bots))
    BY <1>5 DEF S!UpdateSettings
  <2>2. s7 \subseteq s7' /\ S!Updated(form) \in S!Entered' /\ S!Entered \subseteq S!Entered'
    BY <2>1, SettingsUpdated, SettingsStayEntered
  <2>3. UNCHANGED <<s5, s6>>
    BY <1>5 DEF S!UpdateSettings
  <2>4. CASE S!Accepts(S!Updated(form))
    <3> DEFINE settings == S!Updated(form)
    <3>1. s1' = settings /\ s2' = settings /\ s3' = s3
          /\ s4' = (s4 \/ settings.games # s1.games \/ settings.proxy # s1.proxy)
      BY <2>4 DEF S!Accepts, S!Saved
    <3>2. s4 \/ settings.games # s1.games => s4'
      BY <3>1, Zenon
    <3>3. s6' # s1'.games => s4' \/ s5' \/ s3' # "runs"
      BY <2>3, <3>1, <3>2
    <3>4. settings \in S!Entered'
      BY <2>2
    <3> HIDE DEF settings
    <3>5. s2' = s1' /\ s1' \in S!Entered' /\ s1'.proxy \in s7' /\ s1'.token \in s7'
      BY <1>3, <3>1, <3>4
    <3> QED
      BY <2>2, <3>3, <3>5
  <2>5. CASE S!RollsBack(S!Updated(form))
    <3>1. UNCHANGED <<s1, s3, s4>> /\ s2' \in {s2, Torn}
      BY <2>5 DEF S!RollsBack, S!SaveFails
    <3> QED
      BY <1>3, <2>2, <2>3, <3>1
  <2> QED
    BY <2>1, <2>4, <2>5
<1>6. CASE S!SetGameOrder
  BY <1>4, <1>6 DEF S!SetGameOrder
<1>7. CASE S!BeginUpdate
  BY <1>4, <1>7 DEF S!BeginUpdate
<1>8. CASE S!ComputeWanted
  BY <1>4, <1>8 DEF S!ComputeWanted, S!Served
<1>9. CASE S!AutoAdd
  <2>1. PICK games \in (SUBSET (Games \ s1.games)) \ {{}} :
            LET settings == [s1 EXCEPT !.games = s1.games \cup games]
            IN  /\ s1' = settings
                /\ \/ s2' = settings /\ s6' = settings.games
                   \/ s2' \in {s2, Torn} /\ s3' = "ends"
    BY <1>9 DEF S!AutoAdd, S!Saved, S!SaveFails
  <2>2. s7' = s7 /\ S!Entered' = S!Entered
    BY <1>9 DEF S!AutoAdd, S!Entered
  <2>3. [s1 EXCEPT !.games = s1.games \cup games] \in S!Entered
    BY DEF S!Entered
  <2> DEFINE settings == [s1 EXCEPT !.games = s1.games \cup games]
  <2> HIDE DEF settings
  <2>4. s1' = settings /\ settings \in S!Entered
        /\ ((s2' = settings /\ s6' = settings.games) \/ (s2' \in {s2, Torn} /\ s3' = "ends"))
    BY <2>1, <2>3 DEF settings
  <2> QED
    BY <1>3, <2>2, <2>4
<1>10. CASE S!End
  BY <1>4, <1>10 DEF S!End, S!Saved, S!SaveFails
<1>11. CASE S!Start
  <2>1. /\ s1' = IF s2 \in {NoFile, Torn} THEN S!Defaults ELSE s2
        /\ s3' = IF s2 # Torn THEN "runs" ELSE "refuses"
        /\ s6' = s1'.games /\ UNCHANGED <<s2, s7>>
    BY <1>11 DEF S!Start
  <2>2. S!Entered' = S!Entered
    BY <2>1 DEF S!Entered
  <2>3. S!Defaults \in S!Entered
    BY DEF S!Defaults, S!Entered
  <2> QED
    BY <1>2, <2>1, <2>2, <2>3
<1>12. CASE S!Repair
  <2>1. UNCHANGED <<s1, s7>> /\ s2' = NoFile /\ s3' = "off"
    BY <1>12 DEF S!Repair
  <2>2. S!Entered' = S!Entered
    BY <2>1 DEF S!Entered
  <2> QED
    BY <2>1, <2>2
<1> QED
  BY <1>5, <1>6, <1>7, <1>8, <1>9, <1>10, <1>11, <1>12 DEF S!Next

LEMMA SettingsStay == SettingsInv /\ [Next]_all => SettingsInv'
<1> SUFFICES ASSUME SettingsInv, [Next]_all, which' = "settings" PROVE S!Inv'
  BY DEF SettingsInv
<1>1. which = "settings" /\ S!Inv
  BY DEF SettingsInv, Next, all
<1>2. S!Next \/ UNCHANGED S!vars
  BY <1>1 DEF Next, S!vars, all, slots
<1>3. CASE S!Next
  BY <1>1, <1>3, SettingsNext
<1>4. CASE UNCHANGED S!vars
  BY <1>1, <1>4 DEF S!vars, S!Inv, S!Entered, S!SettingsInForce, S!Defaults
<1> QED
  BY <1>2, <1>3, <1>4

(* What is in force was last saved, whatever fails; what is mined is         *)
(* computed from it or will be; and no mask is ever stored for a secret.     *)
THEOREM SettingsInForceAlways == Spec => []SettingsInForce
<1>1. SettingsInv => SettingsInForce
  BY DEF SettingsInv, S!Inv, SettingsInForce
<1> QED
  BY <1>1, SettingsStart, SettingsStay, PTL DEF Spec
-----------------------------------------------------------------------------
(* Bans: the proof of BansProofs, in the slots.                              *)

AP == INSTANCE BansProofs WITH time <- s1, search <- s2, found <- s3, left <- s4, watched
     <- s5, kept <- s6, bans <- s7, timer <- s8, requested <- s9, tracked <- s10,
     refused <- s11, told <- s12

BansInv == which = "bans" => AP!BansInv

LEMMA BansStart == Init => BansInv
<1> SUFFICES ASSUME Init, which = "bans" PROVE AP!BansInv
  BY DEF BansInv
<1>1. A!Init /\ A!ConstantsOK
  BY ServicesAssumption DEF Init, ServicesAssumption
<1>2. AP!ConstantsOK /\ AP!Init
  BY <1>1 DEF A!Init, AP!Init, A!Forever, AP!Forever, A!ConstantsOK, AP!ConstantsOK
<1> QED
  BY <1>2, AP!BansInit

\* The two instances of Bans are the same.
LEMMA BansSame == (A!ConstantsOK => AP!ConstantsOK) /\ ([A!Next]_(A!vars) => [AP!Next]_(AP!vars))
<1>1. A!Forever = AP!Forever /\ \A b : A!Banned(b) <=> AP!Banned(b)
  BY DEF A!Forever, AP!Forever, A!Banned, AP!Banned
<1>2. \A b : A!FirstEnd(b) = AP!FirstEnd(b)
  BY DEF A!FirstEnd, AP!FirstEnd, A!Ends, AP!Ends, A!Forever, AP!Forever, A!Banned, AP!Banned
<1>3. A!Asked = AP!Asked
  BY <1>1 DEF A!Asked, AP!Asked
<1>4. \A c : A!Known(c) = AP!Known(c)
  BY <1>1 DEF A!Known, AP!Known
<1>5. \A c : A!Agreed(c) = AP!Agreed(c)
  BY DEF A!Agreed, AP!Agreed
<1>6. A!Tick => AP!Tick
  BY DEF A!Tick, AP!Tick
<1>7. A!Search => AP!Search
  BY DEF A!Search, AP!Search
<1>8. A!Filter => AP!Filter
  BY DEF A!Filter, AP!Filter, A!Asked, AP!Asked, A!Known, AP!Known, A!Banned, AP!Banned
<1>9. A!FilterNothing => AP!FilterNothing
  BY <1>3 DEF A!FilterNothing, AP!FilterNothing
<1>10. A!Filtered => AP!Filtered
  BY DEF A!Filtered, AP!Filtered, A!FirstEnd, AP!FirstEnd, A!Ends, AP!Ends, A!Forever,
     AP!Forever, A!Agreed, AP!Agreed, A!Banned, AP!Banned
<1>11. A!BanExpires => AP!BanExpires
  BY <1>1, <1>2 DEF A!BanExpires, AP!BanExpires
<1>12. A!Switch => AP!Switch
  BY <1>1 DEF A!Switch, AP!Switch
<1>13. A!AccountChanges => AP!AccountChanges
  BY <1>1 DEF A!AccountChanges, AP!AccountChanges
<1>14. \A c \in Channels : (A!Answer(c) => AP!Answer(c)) /\ (A!NoAnswer(c) => AP!NoAnswer(c))
  BY <1>1 DEF A!Answer, AP!Answer, A!NoAnswer, AP!NoAnswer
<1>15. A!vars = AP!vars
  BY DEF A!vars, AP!vars
<1> QED
  BY <1>6, <1>7, <1>8, <1>9, <1>10, <1>11, <1>12, <1>13, <1>14, <1>15
  DEF A!Next, AP!Next, A!ConstantsOK, AP!ConstantsOK, A!vars, AP!vars

LEMMA BansStay == BansInv /\ [Next]_all => BansInv'
<1> SUFFICES ASSUME BansInv, [Next]_all, which' = "bans" PROVE AP!BansInv'
  BY DEF BansInv
<1>1. which = "bans" /\ AP!BansInv /\ A!ConstantsOK
  BY ServicesAssumption DEF BansInv, Next, all, ServicesAssumption
<1>2. [A!Next]_(A!vars)
  BY <1>1 DEF Next, A!vars, all, slots
<1> QED
  BY <1>1, <1>2, BansSame, AP!BansNext

(* A ban holds for every object of its channel until it ends, whichever      *)
(* questions fail, and then a search is asked for.                           *)
THEOREM BansHoldUntilTheyEndAlways == Spec => []BansHoldUntilTheyEnd
<1>1. AP!BansInv => AP!BansHoldUntilTheyEnd
  BY ServicesAssumption, BansSame, AP!BansInvSuffices DEF ServicesAssumption
<1>2. AP!BansHoldUntilTheyEnd => A!BansHoldUntilTheyEnd
  BY DEF A!BansHoldUntilTheyEnd, AP!BansHoldUntilTheyEnd, A!Banned, AP!Banned
<1>3. BansInv => BansHoldUntilTheyEnd
  BY <1>1, <1>2 DEF BansInv, BansHoldUntilTheyEnd
<1> QED
  BY <1>3, BansStart, BansStay, PTL DEF Spec
-----------------------------------------------------------------------------
(* Requests: who is woken and who makes a request is counted, and each move  *)
(* of a task is one more or one less.                                        *)

Places == {"idle", "pause", "asleep", "woken", "validate", "send", "reconnect"}
Requesting(p) == {t \in Tasks : p[t] \in {"validate", "send", "reconnect"}}
CalledUp(p) == {t \in Tasks : p[t] = "woken"}

LEMMA LimiterExtremes ==
    ASSUME NEW a \in Nat, NEW b \in Nat
    PROVE  /\ Q!Max({a, b}) = (IF a >= b THEN a ELSE b)
           /\ Q!Min({a, b}) \in Nat /\ Q!Min({a, b}) <= a /\ Q!Min({a, b}) <= b
           /\ a <= b => Q!Min({a, b}) = a
<1>1. (\E x \in {a, b} : \A y \in {a, b} : x >= y) /\ (\E x \in {a, b} : \A y \in {a, b} : x <= y)
  <2>1. CASE a >= b
    BY <2>1
  <2>2. CASE b >= a
    BY <2>2
  <2> QED
    BY <2>1, <2>2
<1>2. Q!Max({a, b}) \in {a, b} /\ \A y \in {a, b} : Q!Max({a, b}) >= y
  BY <1>1 DEF Q!Max
<1>3. Q!Min({a, b}) \in {a, b} /\ \A y \in {a, b} : Q!Min({a, b}) <= y
  BY <1>1 DEF Q!Min
<1> QED
  BY <1>2, <1>3

LEMMA LimiterCounts ==
    ASSUME NEW X
    PROVE  Q!Cardinality(X) = Cardinality(X) /\ (Q!IsFiniteSet(X) <=> IsFiniteSet(X))
<1>1. Q!IsFiniteSet(X) <=> IsFiniteSet(X)
  BY DEF Q!IsFiniteSet, IsFiniteSet
<1>2. Q!Cardinality(X) = Cardinality(X)
  BY DEF Q!Cardinality, Cardinality
<1> QED
  BY <1>1, <1>2

LEMMA Joined ==
    ASSUME NEW X, NEW u \in Seq(X), NEW v \in Seq(X)
    PROVE  /\ u \o v \in Seq(X) /\ Len(u \o v) = Len(u) + Len(v)
           /\ \A l \in 1..(Len(u) + Len(v)) :
                 (u \o v)[l] = IF l <= Len(u) THEN u[l] ELSE v[l - Len(u)]
BY ConcatProperties

LEMMA LimiterMoves ==
    ASSUME IsFiniteSet(Tasks), NEW p \in [Tasks -> Places], NEW t \in Tasks, NEW x \in Places
    PROVE  /\ Cardinality(Requesting(p)) \in Nat /\ Cardinality(CalledUp(p)) \in Nat
           /\ Cardinality(Requesting([p EXCEPT ![t] = x])) =
                 IF x \in {"validate", "send", "reconnect"}
                 THEN IF t \in Requesting(p) THEN Cardinality(Requesting(p))
                      ELSE Cardinality(Requesting(p)) + 1
                 ELSE IF t \in Requesting(p) THEN Cardinality(Requesting(p)) - 1
                      ELSE Cardinality(Requesting(p))
           /\ Cardinality(CalledUp([p EXCEPT ![t] = x])) =
                 IF x = "woken"
                 THEN IF t \in CalledUp(p) THEN Cardinality(CalledUp(p))
                      ELSE Cardinality(CalledUp(p)) + 1
                 ELSE IF t \in CalledUp(p) THEN Cardinality(CalledUp(p)) - 1
                      ELSE Cardinality(CalledUp(p))
<1>1. IsFiniteSet(Requesting(p)) /\ IsFiniteSet(CalledUp(p))
  BY FS_Subset DEF Requesting, CalledUp
<1>2. Requesting([p EXCEPT ![t] = x]) =
          IF x \in {"validate", "send", "reconnect"} THEN Requesting(p) \cup {t}
          ELSE Requesting(p) \ {t}
  BY DEF Requesting
<1>3. CalledUp([p EXCEPT ![t] = x]) =
          IF x = "woken" THEN CalledUp(p) \cup {t} ELSE CalledUp(p) \ {t}
  BY DEF CalledUp
<1>4. Cardinality(Requesting(p)) \in Nat /\ Cardinality(CalledUp(p)) \in Nat
  BY <1>1, FS_CardinalityType
<1>5. /\ Cardinality(Requesting(p) \cup {t}) =
            IF t \in Requesting(p) THEN Cardinality(Requesting(p))
            ELSE Cardinality(Requesting(p)) + 1
      /\ Cardinality(Requesting(p) \ {t}) =
            IF t \in Requesting(p) THEN Cardinality(Requesting(p)) - 1
            ELSE Cardinality(Requesting(p))
  BY <1>1, FS_AddElement, FS_RemoveElement
<1>6. /\ Cardinality(CalledUp(p) \cup {t}) =
            IF t \in CalledUp(p) THEN Cardinality(CalledUp(p))
            ELSE Cardinality(CalledUp(p)) + 1
      /\ Cardinality(CalledUp(p) \ {t}) =
            IF t \in CalledUp(p) THEN Cardinality(CalledUp(p)) - 1
            ELSE Cardinality(CalledUp(p))
  BY <1>1, FS_AddElement, FS_RemoveElement
<1> QED
  BY <1>2, <1>3, <1>4, <1>5, <1>6

\* A notification wakes as many as it says, unless nobody is left asleep.
LEMMA LimiterNotifies ==
    ASSUME IsFiniteSet(Tasks), NEW q \in Seq(Tasks), NEW n \in Nat,
           NEW at \in [Tasks -> Places],
           \A i \in DOMAIN q : at[q[i]] = "asleep",
           \A i, j \in DOMAIN q : q[i] = q[j] => i = j,
           Q!Notify(q, n, at)
    PROVE  /\ s4' \in Seq(Tasks) /\ s5' \in [Tasks -> Places]
           /\ \A i \in DOMAIN s4' : s5'[s4'[i]] = "asleep"
           /\ \A i, j \in DOMAIN s4' : s4'[i] = s4'[j] => i = j
           /\ Requesting(s5') = Requesting(at)
           /\ s4' # <<>> =>
                 Len(q) > n /\ Cardinality(CalledUp(s5')) = Cardinality(CalledUp(at)) + n
<1>1. Len(q) \in Nat /\ DOMAIN q = 1..Len(q) /\ \A i \in 1..Len(q) : q[i] \in Tasks
  BY LenProperties, ElementOfSeq
<1> DEFINE k == Q!Min({n, Len(q)})
           w == {q[i] : i \in 1..k}
<1>2. k \in Nat /\ k <= n /\ k <= Len(q) /\ (n <= Len(q) => k = n)
  BY <1>1, LimiterExtremes, Zenon
<1>3. s4' = SubSeq(q, n + 1, Len(q)) /\ s5' = [t \in Tasks |-> IF t \in w THEN "woken" ELSE at[t]]
  BY DEF Q!Notify, Q!Woken, Q!Asleep
<1> HIDE DEF k
<1>4. \A t \in w : t \in Tasks /\ at[t] = "asleep"
  <2>1. \A i \in 1..k : i \in 1..Len(q)
    BY <1>1, <1>2
  <2> QED
    BY <1>1, <2>1
<1>5. n + 1 \in Int /\ Len(q) \in Int /\ \A i \in (n + 1)..Len(q) : q[i] \in Tasks
  BY <1>1
<1>6. /\ s4' \in Seq(Tasks)
      /\ Len(s4') = IF n + 1 <= Len(q) THEN Len(q) - (n + 1) + 1 ELSE 0
      /\ \A i \in 1..(Len(q) - (n + 1) + 1) : s4'[i] = q[(n + 1) + i - 1]
  <2>1. /\ SubSeq(q, n + 1, Len(q)) \in Seq(Tasks)
        /\ Len(SubSeq(q, n + 1, Len(q))) = IF n + 1 <= Len(q) THEN Len(q) - (n + 1) + 1 ELSE 0
        /\ \A i \in 1..(Len(q) - (n + 1) + 1) : SubSeq(q, n + 1, Len(q))[i] = q[(n + 1) + i - 1]
    BY <1>5, SubSeqProperties
  <2> QED
    BY <1>3, <2>1, Zenon
<1>7. DOMAIN s4' = 1..Len(s4')
  BY <1>6, LenProperties
<1>8. ASSUME NEW i \in DOMAIN s4'
      PROVE  s4'[i] = q[n + i] /\ n + i \in 1..Len(q) /\ n + i > k /\ i \in Nat
  <2>1. i \in 1..Len(s4')
    BY <1>7
  <2>2. n + 1 <= Len(q) /\ i \in 1..(Len(q) - (n + 1) + 1) /\ (n + 1) + i - 1 = n + i
    <3>1. n + 1 <= Len(q)
      <4>1. CASE ~(n + 1 <= Len(q))
        BY <1>6, <2>1, <4>1
      <4> QED
        BY <4>1
    <3>2. Len(s4') = Len(q) - (n + 1) + 1
      BY <1>6, <3>1
    <3>3. i \in 1..(Len(q) - (n + 1) + 1)
      BY <2>1, <3>2
    <3> QED
      BY <1>1, <3>1, <3>3
  <2>3. s4'[i] = q[(n + 1) + i - 1]
    BY <1>6, <2>2
  <2>4. n + i \in 1..Len(q) /\ n + i > k /\ i \in Nat
    BY <1>1, <1>2, <2>2
  <2> QED
    BY <2>2, <2>3, <2>4
<1>9. s5' \in [Tasks -> Places]
  BY <1>3 DEF Places
<1>10. ASSUME NEW i \in DOMAIN s4' PROVE s5'[s4'[i]] = "asleep"
  <2>1. s4'[i] = q[n + i] /\ n + i \in 1..Len(q) /\ n + i > k
    BY <1>8
  <2>2. q[n + i] \notin w
    BY <1>1, <1>2, <2>1
  <2> HIDE DEF w
  <2> QED
    BY <1>1, <1>3, <2>1, <2>2
<1>11. ASSUME NEW i \in DOMAIN s4', NEW j \in DOMAIN s4', s4'[i] = s4'[j] PROVE i = j
  <2>1. n + i = n + j /\ i \in Nat /\ j \in Nat
    BY <1>1, <1>8, <1>11
  <2> QED
    BY <2>1
<1>12. Requesting(s5') = Requesting(at) /\ CalledUp(s5') = CalledUp(at) \cup w /\ CalledUp(at) \cap w = {}
  <2> HIDE DEF w
  <2> QED
    BY <1>3, <1>4 DEF Requesting, CalledUp
<1>13. ASSUME s4' # <<>>
       PROVE  Len(q) > n /\ Cardinality(CalledUp(s5')) = Cardinality(CalledUp(at)) + n
  <2>1. Len(s4') # 0
    BY <1>6, <1>13, EmptySeq
  <2>2. Len(q) > n /\ k = n
    <3>1. n + 1 <= Len(q)
      BY <1>6, <2>1
    <3> QED
      BY <1>1, <1>2, <3>1
  <2> DEFINE f == [i \in 1..n |-> q[i]]
  <2>3. f \in Bijection(1..n, w)
    <3>1. \A i \in 1..n : i \in 1..Len(q) /\ i \in DOMAIN q
      BY <1>1, <2>2
    <3>2. f \in [1..n -> w] /\ \A t \in w : \E i \in 1..n : f[i] = t
      BY <2>2
    <3>3. \A i, j \in 1..n : f[i] = f[j] => i = j
      BY <3>1
    <3> HIDE DEF f, w
    <3> QED
      BY <3>2, <3>3 DEF Bijection, Injection, Surjection, IsInjective
  <2>4. IsFiniteSet(1..n) /\ Cardinality(1..n) = n
    <3>1. Cardinality(1..n) = IF 1 > n THEN 0 ELSE n - 1 + 1
      BY FS_Interval
    <3> QED
      BY <3>1, FS_Interval
  <2> HIDE DEF f, w
  <2>5. IsFiniteSet(w) /\ Cardinality(w) = n
    BY <2>3, <2>4, FS_Bijection DEF ExistsBijection
  <2>6. IsFiniteSet(CalledUp(at))
    BY FS_Subset DEF CalledUp
  <2>7. Cardinality(CalledUp(s5')) = Cardinality(CalledUp(at)) + n - 0
    <3>1. Cardinality(CalledUp(at) \cup w) =
              Cardinality(CalledUp(at)) + Cardinality(w) - Cardinality(CalledUp(at) \cap w)
      BY <2>5, <2>6, FS_Union, Zenon
    <3>2. Cardinality(CalledUp(at) \cap w) = 0
      BY <1>12, FS_EmptySet
    <3> QED
      BY <1>12, <2>5, <3>1, <3>2
  <2>8. Cardinality(CalledUp(at)) \in Nat
    BY <2>6, FS_CardinalityType
  <2> QED
    BY <2>2, <2>7, <2>8
<1> QED
  BY <1>6, <1>9, <1>10, <1>11, <1>12, <1>13

\* Who is cancelled leaves the queue; the others stay in their order.
LEMMA LimiterRemoved ==
    ASSUME NEW q \in Seq(Tasks), NEW i \in DOMAIN q,
           \A l, j \in DOMAIN q : q[l] = q[j] => l = j
    PROVE  /\ Q!RemoveAt(q, i) \in Seq(Tasks)
           /\ \A j \in DOMAIN Q!RemoveAt(q, i) :
                 \E l \in DOMAIN q \ {i} : Q!RemoveAt(q, i)[j] = q[l]
           /\ \A l, j \in DOMAIN Q!RemoveAt(q, i) :
                 Q!RemoveAt(q, i)[l] = Q!RemoveAt(q, i)[j] => l = j
<1>1. Len(q) \in Nat /\ DOMAIN q = 1..Len(q) /\ \A l \in 1..Len(q) : q[l] \in Tasks
  BY LenProperties, ElementOfSeq
<1>2. /\ i \in Int /\ i - 1 \in Int /\ i + 1 \in Int /\ Len(q) \in Int /\ 1 \in Int
      /\ \A l \in 1..(i - 1) : q[l] \in Tasks
      /\ \A l \in (i + 1)..Len(q) : q[l] \in Tasks
  BY <1>1
<1> DEFINE u == SubSeq(q, 1, i - 1)
           v == SubSeq(q, i + 1, Len(q))
           r == Q!RemoveAt(q, i)
<1>3. /\ u \in Seq(Tasks) /\ Len(u) = IF 1 <= i - 1 THEN (i - 1) - 1 + 1 ELSE 0
      /\ \A l \in 1..((i - 1) - 1 + 1) : u[l] = q[1 + l - 1]
  BY <1>2, SubSeqProperties
<1>4. /\ v \in Seq(Tasks) /\ Len(v) = IF i + 1 <= Len(q) THEN Len(q) - (i + 1) + 1 ELSE 0
      /\ \A l \in 1..(Len(q) - (i + 1) + 1) : v[l] = q[(i + 1) + l - 1]
  BY <1>2, SubSeqProperties
<1>5. r = u \o v
  BY DEF Q!RemoveAt
<1> HIDE DEF u, v, r
<1>6. Len(u) = i - 1 /\ Len(v) = Len(q) - i
  BY <1>1, <1>3, <1>4
<1>7. /\ r \in Seq(Tasks) /\ Len(r) = Len(u) + Len(v)
      /\ \A l \in 1..(Len(u) + Len(v)) : r[l] = IF l <= Len(u) THEN u[l] ELSE v[l - Len(u)]
  <2>1. /\ u \o v \in Seq(Tasks) /\ Len(u \o v) = Len(u) + Len(v)
        /\ \A l \in 1..(Len(u) + Len(v)) :
              (u \o v)[l] = IF l <= Len(u) THEN u[l] ELSE v[l - Len(u)]
    <3>1. u \in Seq(Tasks) /\ v \in Seq(Tasks)
      BY <1>3, <1>4
    <3> QED
      BY <3>1, Joined
  <2> QED
    BY <1>5, <2>1, Zenon
<1>8. DOMAIN r = 1..Len(r) /\ Len(r) = Len(q) - 1
  BY <1>1, <1>6, <1>7, LenProperties
<1>9. ASSUME NEW l \in DOMAIN r
      PROVE  /\ l \in 1..(Len(q) - 1)
             /\ r[l] = IF l < i THEN q[l] ELSE q[l + 1]
  <2>1. l \in 1..(Len(q) - 1) /\ l \in 1..(Len(u) + Len(v))
    BY <1>1, <1>6, <1>7, <1>8
  <2>2. r[l] = IF l <= Len(u) THEN u[l] ELSE v[l - Len(u)]
    BY <1>7, <2>1
  <2>3. CASE l < i
    <3>1. l <= Len(u) /\ l \in 1..((i - 1) - 1 + 1) /\ 1 + l - 1 = l
      BY <1>1, <1>6, <2>1, <2>3
    <3>2. u[l] = q[1 + l - 1]
      BY <1>3, <3>1
    <3> QED
      BY <2>1, <2>2, <2>3, <3>1, <3>2
  <2>4. CASE ~(l < i)
    <3>1. /\ ~(l <= Len(u)) /\ l - Len(u) \in 1..(Len(q) - (i + 1) + 1)
          /\ (i + 1) + (l - Len(u)) - 1 = l + 1
      <4>1. Len(q) \in Nat /\ i \in Nat /\ l \in Nat
        BY <1>1, <2>1
      <4>2. Len(u) = i - 1
        BY <1>6
      <4>3. l >= i
        BY <2>4, <4>1
      <4>4. l <= Len(q) - 1
        BY <2>1, <4>1
      <4> QED
        BY <4>1, <4>2, <4>3, <4>4
    <3>2. v[l - Len(u)] = q[(i + 1) + (l - Len(u)) - 1]
      BY <1>4, <3>1
    <3> QED
      BY <2>1, <2>2, <2>4, <3>1, <3>2
  <2> QED
    BY <2>3, <2>4
<1>10. ASSUME NEW l \in DOMAIN r PROVE \E j \in DOMAIN q \ {i} : r[l] = q[j]
  <2>1. CASE l < i
    BY <1>1, <1>9, <2>1
  <2>2. CASE ~(l < i)
    BY <1>1, <1>9, <2>2
  <2> QED
    BY <2>1, <2>2
<1>11. ASSUME NEW l \in DOMAIN r, NEW j \in DOMAIN r, r[l] = r[j] PROVE l = j
  <2>1. l \in 1..(Len(q) - 1) /\ j \in 1..(Len(q) - 1)
    BY <1>9
  <2>2. \A a, b \in 1..Len(q) : q[a] = q[b] => a = b
    BY <1>1
  <2>3. r[l] = (IF l < i THEN q[l] ELSE q[l + 1]) /\ r[j] = (IF j < i THEN q[j] ELSE q[j + 1])
    BY <1>9
  <2>4. l \in 1..Len(q) /\ l + 1 \in 1..Len(q) /\ j \in 1..Len(q) /\ j + 1 \in 1..Len(q)
    BY <1>1, <2>1
  <2>5. CASE l < i /\ j < i
    BY <1>11, <2>2, <2>3, <2>4, <2>5
  <2>6. CASE l < i /\ ~(j < i)
    <3>1. l = j + 1
      BY <1>11, <2>2, <2>3, <2>4, <2>6
    <3> QED
      BY <1>1, <2>1, <2>6, <3>1
  <2>7. CASE ~(l < i) /\ j < i
    <3>1. l + 1 = j
      BY <1>11, <2>2, <2>3, <2>4, <2>7
    <3> QED
      BY <1>1, <2>1, <2>7, <3>1
  <2>8. CASE ~(l < i) /\ ~(j < i)
    <3>1. l + 1 = j + 1
      BY <1>11, <2>2, <2>3, <2>4, <2>8
    <3> QED
      BY <2>1, <3>1
  <2> QED
    BY <2>5, <2>6, <2>7, <2>8
<1> QED
  BY <1>7, <1>10, <1>11 DEF r

LimiterInv == which = "requests" => Q!Inv

LEMMA LimiterState ==
    ASSUME Q!ConstantsOK, Q!Inv
    PROVE  /\ IsFiniteSet(Tasks) /\ Capacity \in Nat
           /\ s1 \in 0..Capacity /\ s2 \in 0..Capacity
           /\ s4 \in Seq(Tasks) /\ s5 \in [Tasks -> Places]
           /\ \A i \in DOMAIN s4 : s5[s4[i]] = "asleep"
           /\ \A i, j \in DOMAIN s4 : s4[i] = s4[j] => i = j
           /\ s2 = Cardinality(Requesting(s5))
           /\ s4 # <<>> =>
                 Cardinality(CalledUp(s5)) >= Capacity - (IF s1 >= s2 THEN s1 ELSE s2)
<1>1. s5 \in [Tasks -> Places]
  BY DEF Q!Inv, Q!Types, Q!Inside, Places
<1>2. Q!InState(Q!Inside) = Requesting(s5) /\ Q!InState({"woken"}) = CalledUp(s5)
  BY DEF Q!InState, Q!Inside, Requesting, CalledUp
<1>3. Capacity \in Nat /\ s1 \in 0..Capacity /\ s2 \in 0..Capacity /\ s1 \in Nat /\ s2 \in Nat
  BY DEF Q!ConstantsOK, Q!Inv, Q!Types
<1>4. Q!Max({s1, s2}) = IF s1 >= s2 THEN s1 ELSE s2
  BY <1>3, LimiterExtremes, Zenon
<1>5. /\ s2 = Cardinality(Requesting(s5))
      /\ s4 # <<>> => Cardinality(CalledUp(s5)) >= Capacity - Q!Max({s1, s2})
  BY <1>2, LimiterCounts, Zenon DEF Q!Inv, Q!NoPlaceIsWasted
<1>6. /\ s4 \in Seq(Tasks) /\ IsFiniteSet(Tasks)
      /\ \A i \in DOMAIN s4 : s5[s4[i]] = "asleep"
      /\ \A i, j \in DOMAIN s4 : s4[i] = s4[j] => i = j
  BY LimiterCounts DEF Q!ConstantsOK, Q!Inv, Q!Types, Q!Sleepers
<1> QED
  BY <1>1, <1>3, <1>4, <1>5, <1>6, Zenon

LEMMA LimiterNextState ==
    ASSUME Q!ConstantsOK,
           s1' \in 0..Capacity, s2' \in 0..Capacity,
           s4' \in Seq(Tasks), s5' \in [Tasks -> Places],
           \A i \in DOMAIN s4' : s5'[s4'[i]] = "asleep",
           \A i, j \in DOMAIN s4' : s4'[i] = s4'[j] => i = j,
           s2' = Cardinality(Requesting(s5')),
           s4' # <<>> =>
              Cardinality(CalledUp(s5')) >= Capacity - (IF s1' >= s2' THEN s1' ELSE s2')
    PROVE  Q!Inv'
<1>1. Q!InState(Q!Inside)' = Requesting(s5') /\ Q!InState({"woken"})' = CalledUp(s5')
  BY DEF Q!InState, Q!Inside, Requesting, CalledUp
<1>2. Capacity \in Nat /\ s1' \in Nat /\ s2' \in Nat
  BY DEF Q!ConstantsOK
<1>3. Q!Max({s1', s2'}) = IF s1' >= s2' THEN s1' ELSE s2'
  BY <1>2, LimiterExtremes, Zenon
<1>4. Q!NoPlaceIsWasted'
  <2>1. s4' # <<>> => Cardinality(CalledUp(s5')) >= Capacity - Q!Max({s1', s2'})
    BY <1>3, Zenon
  <2>2. s2' = Q!Cardinality(Requesting(s5'))
    BY LimiterCounts, Zenon
  <2>3. s4' # <<>> => Q!Cardinality(CalledUp(s5')) >= Capacity - Q!Max({s1', s2'})
    BY <2>1, LimiterCounts, Zenon
  <2> QED
    BY <1>1, <2>2, <2>3, Zenon DEF Q!NoPlaceIsWasted
<1>5. Q!Types'
  BY DEF Q!Types, Q!Inside, Places
<1>6. Q!Sleepers'
  BY DEF Q!Sleepers
<1> QED
  BY <1>4, <1>5, <1>6 DEF Q!Inv

\* A task takes a place, which nobody sleeps for, or goes to sleep where none is free.
LEMMA LimiterEnters ==
    ASSUME Q!ConstantsOK, Q!Inv, NEW t \in Tasks, s5[t] \in {"idle", "pause", "woken"},
           Q!Enter(t)
    PROVE  Q!Inv'
<1> DEFINE most == IF s1 >= s2 THEN s1 ELSE s2
<1>1. /\ IsFiniteSet(Tasks) /\ Capacity \in Nat
      /\ s1 \in 0..Capacity /\ s2 \in 0..Capacity
      /\ s4 \in Seq(Tasks) /\ s5 \in [Tasks -> Places]
      /\ \A i \in DOMAIN s4 : s5[s4[i]] = "asleep"
      /\ \A i, j \in DOMAIN s4 : s4[i] = s4[j] => i = j
      /\ s2 = Cardinality(Requesting(s5))
      /\ s4 # <<>> => Cardinality(CalledUp(s5)) >= Capacity - most
  BY LimiterState
<1>2. s1 \in Nat /\ s2 \in Nat /\ Q!Max({s1, s2}) = most
  <2>1. s1 \in Nat /\ s2 \in Nat
    BY <1>1
  <2> QED
    BY <2>1, LimiterExtremes, Zenon
<1>3. t \notin Requesting(s5)
  BY DEF Requesting
<1>4. Len(s4) \in Nat /\ DOMAIN s4 = 1..Len(s4) /\ \A i \in DOMAIN s4 : s4[i] \in Tasks
  BY <1>1, LenProperties, ElementOfSeq
<1>5. Cardinality(CalledUp(s5)) \in Nat /\ Cardinality(Requesting(s5)) \in Nat
  BY <1>1, LimiterMoves DEF Places
<1>6. \A i \in DOMAIN s4 : s4[i] # t
  BY <1>1
<1>7. CASE Q!CanProceed
  <2>1. /\ s1' = s1 + 1 /\ s2' = s2 + 1 /\ s4' = s4
        /\ s5' = [s5 EXCEPT ![t] = "validate"]
    BY <1>7 DEF Q!Enter
  <2>2. most < Capacity
    BY <1>2, <1>7 DEF Q!CanProceed
  <2>3. /\ Cardinality(Requesting(s5')) = Cardinality(Requesting(s5)) + 1
        /\ Cardinality(CalledUp(s5')) >= Cardinality(CalledUp(s5)) - 1
    <3>1. "validate" \in Places
      BY DEF Places
    <3>2. /\ Cardinality(Requesting([s5 EXCEPT ![t] = "validate"])) =
                Cardinality(Requesting(s5)) + 1
          /\ Cardinality(CalledUp([s5 EXCEPT ![t] = "validate"])) =
                IF t \in CalledUp(s5) THEN Cardinality(CalledUp(s5)) - 1
                ELSE Cardinality(CalledUp(s5))
      BY <1>1, <1>3, <3>1, LimiterMoves
    <3> QED
      BY <1>5, <2>1, <3>2
  <2>4. s1' \in 0..Capacity /\ s2' \in 0..Capacity
    BY <1>1, <1>2, <2>1, <2>2
  <2>5. s5' \in [Tasks -> Places]
    BY <1>1, <2>1 DEF Places
  <2>6. \A i \in DOMAIN s4' : s5'[s4'[i]] = "asleep"
    BY <1>1, <1>4, <1>6, <2>1
  <2>7. s4' # <<>> => Cardinality(CalledUp(s5')) >= Capacity - (IF s1' >= s2' THEN s1' ELSE s2')
    <3>1. s4' # <<>> => Cardinality(CalledUp(s5)) >= Capacity - most
      BY <1>1, <2>1
    <3>2. (IF s1' >= s2' THEN s1' ELSE s2') = most + 1
      BY <1>2, <2>1
    <3>3. Cardinality(CalledUp(s5')) \in Nat
      BY <1>1, <2>5, LimiterMoves DEF Places
    <3>4. most \in Nat
      BY <1>2
    <3> HIDE DEF most
    <3> QED
      BY <1>1, <1>5, <2>3, <3>1, <3>2, <3>3, <3>4
  <2> QED
    BY <1>1, <2>1, <2>3, <2>4, <2>5, <2>6, <2>7, LimiterNextState
<1>8. CASE ~Q!CanProceed
  <2>1. /\ UNCHANGED <<s1, s2>> /\ s4' = Append(s4, t)
        /\ s5' = [s5 EXCEPT ![t] = "asleep"]
    BY <1>8 DEF Q!Enter
  <2>2. most >= Capacity
    BY <1>1, <1>2, <1>8 DEF Q!CanProceed
  <2>3. /\ s4' \in Seq(Tasks) /\ Len(s4') = Len(s4) + 1
        /\ \A i \in 1..Len(s4) : s4'[i] = s4[i]
        /\ s4'[Len(s4) + 1] = t
    BY <1>1, <2>1, AppendProperties
  <2>4. DOMAIN s4' = 1..(Len(s4) + 1)
    BY <2>3, LenProperties
  <2>5. s5' \in [Tasks -> Places]
    BY <1>1, <2>1 DEF Places
  <2>6. /\ Cardinality(Requesting(s5')) = Cardinality(Requesting(s5))
        /\ Cardinality(CalledUp(s5')) \in Nat
    <3>1. "asleep" \in Places /\ "asleep" \notin {"validate", "send", "reconnect"}
      BY DEF Places
    <3>2. Cardinality(Requesting([s5 EXCEPT ![t] = "asleep"])) = Cardinality(Requesting(s5))
      <4>1. Requesting([s5 EXCEPT ![t] = "asleep"]) = Requesting(s5)
        BY <1>1, <1>3, <3>1 DEF Requesting
      <4> QED
        BY <4>1
    <3>3. Cardinality(CalledUp(s5')) \in Nat
      BY <1>1, <2>5, <3>1, LimiterMoves
    <3> QED
      BY <2>1, <3>2, <3>3
  <2>7. ASSUME NEW i \in DOMAIN s4' PROVE i \in 1..Len(s4) \/ i = Len(s4) + 1
    BY <1>4, <2>4
  <2>8. ASSUME NEW i \in DOMAIN s4' PROVE s5'[s4'[i]] = "asleep"
    <3>1. CASE i \in 1..Len(s4)
      BY <1>1, <1>4, <2>1, <2>3, <3>1
    <3>2. CASE i = Len(s4) + 1
      BY <1>1, <2>1, <2>3, <3>2
    <3> QED
      BY <2>7, <3>1, <3>2
  <2>9. ASSUME NEW i \in DOMAIN s4', NEW j \in DOMAIN s4', s4'[i] = s4'[j] PROVE i = j
    <3>1. CASE i \in 1..Len(s4) /\ j \in 1..Len(s4)
      BY <1>1, <1>4, <2>3, <2>9, <3>1
    <3>2. CASE i = Len(s4) + 1 /\ j = Len(s4) + 1
      BY <3>2
    <3>3. CASE i \in 1..Len(s4) /\ j = Len(s4) + 1
      BY <1>4, <1>6, <2>3, <2>9, <3>3
    <3>4. CASE i = Len(s4) + 1 /\ j \in 1..Len(s4)
      BY <1>4, <1>6, <2>3, <2>9, <3>4
    <3> QED
      BY <2>7, <3>1, <3>2, <3>3, <3>4
  <2>10. Cardinality(CalledUp(s5')) >= Capacity - (IF s1' >= s2' THEN s1' ELSE s2')
    BY <1>1, <1>2, <2>1, <2>2, <2>6
  <2> QED
    BY <1>1, <2>1, <2>3, <2>5, <2>6, <2>8, <2>9, <2>10, LimiterNextState
<1> QED
  BY <1>7, <1>8

\* A place is given back: whoever is woken for it, and for those that are free, was asleep.
LEMMA LimiterLeaves ==
    ASSUME Q!ConstantsOK, Q!Inv, NEW t \in Tasks, s5[t] \in {"validate", "send", "reconnect"},
           NEW next \in {"idle", "pause"}, Q!Leave(t, next)
    PROVE  Q!Inv'
<1>1. /\ IsFiniteSet(Tasks) /\ Capacity \in Nat
      /\ s1 \in 0..Capacity /\ s2 \in 0..Capacity
      /\ s4 \in Seq(Tasks) /\ s5 \in [Tasks -> Places]
      /\ \A i \in DOMAIN s4 : s5[s4[i]] = "asleep"
      /\ \A i, j \in DOMAIN s4 : s4[i] = s4[j] => i = j
      /\ s2 = Cardinality(Requesting(s5))
  BY LimiterState
<1> DEFINE at == [s5 EXCEPT ![t] = next]
<1>2. /\ s1' = s1 /\ s2' = s2 - 1 /\ Q!Notify(s4, Capacity - s2', at)
  BY DEF Q!Leave
<1>3. at \in [Tasks -> Places] /\ next \in Places /\ next \notin {"validate", "send", "reconnect"}
  BY <1>1 DEF Places
<1>4. t \in Requesting(s5)
  BY DEF Requesting
<1>5. Cardinality(Requesting(at)) = Cardinality(Requesting(s5)) - 1
  BY <1>1, <1>3, <1>4, LimiterMoves
<1>6. Cardinality(Requesting(at)) \in Nat /\ Cardinality(CalledUp(at)) \in Nat
  BY <1>1, <1>3, LimiterMoves
<1>7. s2' \in 0..Capacity /\ s2' = Cardinality(Requesting(at)) /\ Capacity - s2' \in Nat
  BY <1>1, <1>2, <1>5, <1>6
<1>8. \A i \in DOMAIN s4 : at[s4[i]] = "asleep"
  <2>1. \A i \in DOMAIN s4 : s4[i] \in Tasks /\ s4[i] # t
    BY <1>1, LenProperties, ElementOfSeq
  <2> QED
    BY <1>1, <2>1
<1> HIDE DEF at
<1>9. /\ s4' \in Seq(Tasks) /\ s5' \in [Tasks -> Places]
      /\ \A i \in DOMAIN s4' : s5'[s4'[i]] = "asleep"
      /\ \A i, j \in DOMAIN s4' : s4'[i] = s4'[j] => i = j
      /\ Requesting(s5') = Requesting(at)
      /\ s4' # <<>> =>
            Cardinality(CalledUp(s5')) = Cardinality(CalledUp(at)) + (Capacity - s2')
  BY <1>1, <1>2, <1>3, <1>7, <1>8, LimiterNotifies
<1>10. s4' # <<>> => Cardinality(CalledUp(s5')) >= Capacity - (IF s1' >= s2' THEN s1' ELSE s2')
  <2>1. s1' \in Nat /\ s2' \in Nat /\ Capacity \in Nat
    BY <1>1, <1>2, <1>7
  <2> QED
    BY <1>6, <1>9, <2>1
<1>11. s1' \in 0..Capacity /\ s2' = Cardinality(Requesting(s5'))
  BY <1>1, <1>2, <1>7, <1>9
<1> QED
  BY <1>7, <1>9, <1>10, <1>11, LimiterNextState

\* The window ends, and the places of what is under way stay taken.
LEMMA LimiterResets == ASSUME Q!ConstantsOK, Q!Inv, Q!Reset PROVE Q!Inv'
<1>1. /\ IsFiniteSet(Tasks) /\ Capacity \in Nat
      /\ s1 \in 0..Capacity /\ s2 \in 0..Capacity
      /\ s4 \in Seq(Tasks) /\ s5 \in [Tasks -> Places]
      /\ \A i \in DOMAIN s4 : s5[s4[i]] = "asleep"
      /\ \A i, j \in DOMAIN s4 : s4[i] = s4[j] => i = j
      /\ s2 = Cardinality(Requesting(s5))
  BY LimiterState
<1>2. s1' = 0 /\ s2' = s2 /\ Q!Notify(s4, Capacity - s2, s5)
  BY DEF Q!Reset
<1>3. Capacity - s2 \in Nat
  BY <1>1
<1>4. /\ s4' \in Seq(Tasks) /\ s5' \in [Tasks -> Places]
      /\ \A i \in DOMAIN s4' : s5'[s4'[i]] = "asleep"
      /\ \A i, j \in DOMAIN s4' : s4'[i] = s4'[j] => i = j
      /\ Requesting(s5') = Requesting(s5)
      /\ s4' # <<>> =>
            Cardinality(CalledUp(s5')) = Cardinality(CalledUp(s5)) + (Capacity - s2)
  BY <1>1, <1>2, <1>3, LimiterNotifies
<1>5. IsFiniteSet(CalledUp(s5)) /\ Cardinality(CalledUp(s5)) \in Nat
  BY <1>1, FS_Subset, FS_CardinalityType DEF CalledUp
<1>6. s4' # <<>> => Cardinality(CalledUp(s5')) >= Capacity - (IF s1' >= s2' THEN s1' ELSE s2')
  <2>1. (IF s1' >= s2' THEN s1' ELSE s2') = s2
    BY <1>1, <1>2
  <2> QED
    BY <1>1, <1>4, <1>5, <2>1
<1>7. s1' \in 0..Capacity /\ s2' \in 0..Capacity /\ s2' = Cardinality(Requesting(s5'))
  BY <1>1, <1>2, <1>4
<1> QED
  BY <1>4, <1>6, <1>7, LimiterNextState

\* The place in the queue of a task that is cancelled, or the notification it had, goes
\* to the next.
LEMMA LimiterCancels == ASSUME Q!ConstantsOK, Q!Inv, NEW t \in Tasks, Q!Cancel(t) PROVE Q!Inv'
<1>1. /\ IsFiniteSet(Tasks) /\ Capacity \in Nat
      /\ s1 \in 0..Capacity /\ s2 \in 0..Capacity
      /\ s4 \in Seq(Tasks) /\ s5 \in [Tasks -> Places]
      /\ \A i \in DOMAIN s4 : s5[s4[i]] = "asleep"
      /\ \A i, j \in DOMAIN s4 : s4[i] = s4[j] => i = j
      /\ s2 = Cardinality(Requesting(s5))
      /\ s4 # <<>> =>
            Cardinality(CalledUp(s5)) >= Capacity - (IF s1 >= s2 THEN s1 ELSE s2)
  BY LimiterState
<1>2. s1' = s1 /\ s2' = s2
  BY DEF Q!Cancel
<1> DEFINE at == [s5 EXCEPT ![t] = "idle"]
           least == Capacity - (IF s1 >= s2 THEN s1 ELSE s2)
<1>3. at \in [Tasks -> Places] /\ "idle" \in Places
      /\ "idle" \notin {"validate", "send", "reconnect"} /\ "idle" # "woken"
  BY <1>1 DEF Places
<1>4. /\ Cardinality(CalledUp(s5)) \in Nat /\ Cardinality(CalledUp(at)) \in Nat
      /\ Cardinality(CalledUp(at)) =
            IF t \in CalledUp(s5) THEN Cardinality(CalledUp(s5)) - 1
            ELSE Cardinality(CalledUp(s5))
  <2>1. Cardinality(CalledUp(s5)) \in Nat /\ Cardinality(CalledUp(at)) \in Nat
    BY <1>1, <1>3, LimiterMoves
  <2>2. CalledUp(at) = CalledUp(s5) \ {t}
    BY <1>1 DEF CalledUp
  <2>3. IsFiniteSet(CalledUp(s5))
    BY <1>1, FS_Subset DEF CalledUp
  <2> HIDE DEF at
  <2> QED
    BY <2>1, <2>2, <2>3, FS_RemoveElement
<1>5. t \notin Requesting(s5) => Requesting(at) = Requesting(s5)
  BY <1>1 DEF Requesting
<1>6. least \in Int
  BY <1>1
<1>7. \A i \in DOMAIN s4 : s4[i] \in Tasks
  BY <1>1, LenProperties, ElementOfSeq
<1>8. CASE s5[t] = "pause" /\ s5' = at /\ s4' = s4
  <2>1. t \notin CalledUp(s5) /\ t \notin Requesting(s5)
    BY <1>8 DEF CalledUp, Requesting
  <2>2. Cardinality(CalledUp(s5')) = Cardinality(CalledUp(s5)) /\ Requesting(s5') = Requesting(s5)
    BY <1>4, <1>5, <1>8, <2>1
  <2>3. \A i \in DOMAIN s4' : s5'[s4'[i]] = "asleep"
    BY <1>1, <1>7, <1>8
  <2> HIDE DEF at
  <2> QED
    BY <1>1, <1>2, <1>3, <1>8, <2>2, <2>3, LimiterNextState
<1>9. ASSUME NEW q \in Seq(Tasks), Q!Notify(q, 1, at),
             \A i \in DOMAIN q : at[q[i]] = "asleep",
             \A i, j \in DOMAIN q : q[i] = q[j] => i = j,
             q # <<>> => s4 # <<>>, t \notin Requesting(s5)
      PROVE  Q!Inv'
  <2> HIDE DEF at
  <2>1. /\ s4' \in Seq(Tasks) /\ s5' \in [Tasks -> Places]
        /\ \A i \in DOMAIN s4' : s5'[s4'[i]] = "asleep"
        /\ \A i, j \in DOMAIN s4' : s4'[i] = s4'[j] => i = j
        /\ Requesting(s5') = Requesting(at)
        /\ s4' # <<>> =>
              Len(q) > 1 /\ Cardinality(CalledUp(s5')) = Cardinality(CalledUp(at)) + 1
    BY <1>1, <1>3, <1>9, LimiterNotifies
  <2>2. s4' # <<>> => s4 # <<>>
    BY <1>9, <2>1, EmptySeq
  <2>3. s4' # <<>> => Cardinality(CalledUp(s5')) >= least
    <3> HIDE DEF least
    <3>1. s4 # <<>> => Cardinality(CalledUp(s5)) >= least
      BY <1>1 DEF least
    <3> QED
      BY <1>4, <1>6, <2>1, <2>2, <3>1
  <2>4. s4' # <<>> => Cardinality(CalledUp(s5')) >= Capacity - (IF s1' >= s2' THEN s1' ELSE s2')
    BY <1>2, <2>3
  <2>5. s2' = Cardinality(Requesting(s5')) /\ s1' \in 0..Capacity /\ s2' \in 0..Capacity
    BY <1>1, <1>2, <1>5, <1>9, <2>1
  <2> QED
    BY <2>1, <2>4, <2>5, LimiterNextState
<1>10. ASSUME NEW i \in DOMAIN s4, s4[i] = t, Q!Notify(Q!RemoveAt(s4, i), 1, at)
       PROVE  Q!Inv'
  <2> DEFINE q == Q!RemoveAt(s4, i)
  <2>1. /\ q \in Seq(Tasks)
        /\ \A j \in DOMAIN q : \E l \in DOMAIN s4 \ {i} : q[j] = s4[l]
        /\ \A l, j \in DOMAIN q : q[l] = q[j] => l = j
    BY <1>1, LimiterRemoved
  <2> HIDE DEF q
  <2>2. ASSUME NEW j \in DOMAIN q PROVE at[q[j]] = "asleep"
    <3>1. PICK l \in DOMAIN s4 \ {i} : q[j] = s4[l]
      BY <2>1
    <3>2. s4[l] # t /\ s4[l] \in Tasks /\ s5[s4[l]] = "asleep"
      BY <1>1, <1>7, <1>10
    <3> QED
      BY <1>1, <3>1, <3>2
  <2>3. s4 # <<>>
    BY <1>10
  <2>4. t \notin Requesting(s5)
    BY <1>1, <1>10 DEF Requesting
  <2> HIDE DEF at
  <2> QED
    BY <1>9, <1>10, <2>1, <2>2, <2>3, <2>4 DEF q
<1>11. ASSUME s5[t] = "woken", Q!Notify(s4, 1, at) PROVE Q!Inv'
  <2>1. \A i \in DOMAIN s4 : at[s4[i]] = "asleep"
    BY <1>1, <1>7, <1>11
  <2>2. t \notin Requesting(s5)
    BY <1>11 DEF Requesting
  <2> HIDE DEF at
  <2> QED
    BY <1>1, <1>9, <1>11, <2>1, <2>2
<1> QED
  BY <1>8, <1>10, <1>11 DEF Q!Cancel

LEMMA LimiterNext == ASSUME Q!ConstantsOK, Q!Inv, Q!Next PROVE Q!Inv'
<1>1. /\ IsFiniteSet(Tasks) /\ Capacity \in Nat
      /\ s1 \in 0..Capacity /\ s2 \in 0..Capacity
      /\ s4 \in Seq(Tasks) /\ s5 \in [Tasks -> Places]
      /\ \A i \in DOMAIN s4 : s5[s4[i]] = "asleep"
      /\ \A i, j \in DOMAIN s4 : s4[i] = s4[j] => i = j
      /\ s2 = Cardinality(Requesting(s5))
      /\ s4 # <<>> =>
            Cardinality(CalledUp(s5)) >= Capacity - (IF s1 >= s2 THEN s1 ELSE s2)
  BY LimiterState
<1>2. ASSUME NEW t \in Tasks, Q!Start(t) \/ Q!Wake(t) \/ Q!Repeat(t) PROVE Q!Inv'
  BY <1>2, LimiterEnters DEF Q!Start, Q!Wake, Q!Repeat
<1>3. ASSUME NEW t \in Tasks, NEW x \in {"send", "reconnect"},
             s5[t] \in {"validate", "send", "reconnect"},
             s5' = [s5 EXCEPT ![t] = x], UNCHANGED <<s1, s2, s4>>
      PROVE  Q!Inv'
  <2>1. Requesting(s5') = Requesting(s5) /\ CalledUp(s5') = CalledUp(s5)
    BY <1>1, <1>3 DEF Requesting, CalledUp
  <2>2. s5' \in [Tasks -> Places]
    BY <1>1, <1>3 DEF Places
  <2>3. \A i \in DOMAIN s4 : s4[i] \in Tasks
    BY <1>1, LenProperties, ElementOfSeq
  <2>4. \A i \in DOMAIN s4' : s5'[s4'[i]] = "asleep"
    BY <1>1, <1>3, <2>3
  <2> QED
    BY <1>1, <1>3, <2>1, <2>2, <2>4, LimiterNextState
<1>4. ASSUME NEW t \in Tasks, Q!Attempt(t) \/ Q!Unreached(t) PROVE Q!Inv'
  BY <1>3, <1>4, LimiterLeaves DEF Q!Attempt, Q!Unreached
<1>5. ASSUME NEW t \in Tasks, Q!Done(t) \/ Q!Transient(t) \/ Q!ServiceError(t) PROVE Q!Inv'
  BY <1>5, LimiterLeaves DEF Q!Done, Q!Transient, Q!ServiceError, Q!Inside
<1>6. ASSUME Q!Exit PROVE Q!Inv'
  BY <1>1, <1>6, LimiterNextState DEF Q!Exit
<1> QED
  BY <1>2, <1>4, <1>5, <1>6, LimiterCancels, LimiterResets DEF Q!Next

LEMMA LimiterStarts == Init => LimiterInv
<1> SUFFICES ASSUME Init, which = "requests" PROVE Q!Inv
  BY DEF LimiterInv
<1>1. Q!Init
  BY DEF Init
<1>2. Capacity \in Nat \ {0}
  BY ServicesAssumption DEF ServicesAssumption, Q!ConstantsOK
<1>3. Q!InState(Q!Inside) = {}
  BY <1>1 DEF Q!Init, Q!InState, Q!Inside
<1>4. s4 = <<>> /\ <<>> \in Seq(Tasks) /\ DOMAIN <<>> = {}
  BY <1>1 DEF Q!Init
<1>5. s2 = Q!Cardinality(Q!InState(Q!Inside))
  BY <1>1, <1>3, LimiterCounts, FS_EmptySet DEF Q!Init
<1> QED
  BY <1>1, <1>2, <1>4, <1>5
  DEF Q!Init, Q!Inv, Q!Types, Q!Sleepers, Q!NoPlaceIsWasted, Q!Inside

LEMMA LimiterStays == LimiterInv /\ [Next]_all => LimiterInv'
<1> SUFFICES ASSUME LimiterInv, [Next]_all, which' = "requests" PROVE Q!Inv'
  BY DEF LimiterInv
<1>1. which = "requests" /\ Q!Inv /\ Q!ConstantsOK
  BY ServicesAssumption DEF LimiterInv, Next, ServicesAssumption, all
<1>2. Q!Next \/ UNCHANGED Q!vars
  BY <1>1 DEF Next, Q!vars, all, slots
<1>3. CASE UNCHANGED Q!vars
  <2>1. /\ s1 \in 0..Capacity /\ s2 \in 0..Capacity
        /\ s4 \in Seq(Tasks) /\ s5 \in [Tasks -> Places]
        /\ \A i \in DOMAIN s4 : s5[s4[i]] = "asleep"
        /\ \A i, j \in DOMAIN s4 : s4[i] = s4[j] => i = j
        /\ s2 = Cardinality(Requesting(s5))
        /\ s4 # <<>> =>
              Cardinality(CalledUp(s5)) >= Capacity - (IF s1 >= s2 THEN s1 ELSE s2)
    BY <1>1, LimiterState
  <2> QED
    BY <1>1, <1>3, <2>1, LimiterNextState DEF Q!vars
<1> QED
  BY <1>1, <1>2, <1>3, LimiterNext

(* No place of the limiter is lost, and none stays free beside a request that *)
(* sleeps: for each a task has been woken, whatever is cancelled.            *)
THEOREM NoPlaceIsWastedAlways == Spec => []NoPlaceIsWasted
<1>1. LimiterInv => NoPlaceIsWasted
  BY DEF LimiterInv, Q!Inv, NoPlaceIsWasted
<1> QED
  BY <1>1, LimiterStarts, LimiterStays, PTL DEF Spec

-----------------------------------------------------------------------------
(* Selection.  Keys of one length are ordered by the first number in which *)
(* they differ, and in no other way.                                       *)

Keys(n) == [1..n -> Nat]

LEMMA FirstDifference ==
    ASSUME NEW n \in Nat, NEW x \in Keys(n), NEW y \in Keys(n), x # y
    PROVE  \E i \in 1..n : x[i] # y[i] /\ \A j \in 1..(i - 1) : x[j] = y[j]
<1> DEFINE differ == {i \in 1..n : x[i] # y[i]}
<1>1. differ # {}
  BY DEF Keys
<1>2. PICK i \in differ : \A j \in differ : i <= j
  <2>1. differ \in SUBSET Nat
    OBVIOUS
  <2> HIDE DEF differ
  <2> QED
    BY <1>1, <2>1, LeastExists
<1>3. ASSUME NEW j \in 1..(i - 1) PROVE x[j] = y[j]
  <2>1. j \in 1..n /\ ~(i <= j)
    BY <1>2
  <2> QED
    BY <1>2, <2>1
<1> QED
  BY <1>2, <1>3

LEMMA KeysTotal ==
    ASSUME NEW n \in Nat, NEW x \in Keys(n), NEW y \in Keys(n), x # y
    PROVE  E!Less(x, y) \/ E!Less(y, x)
<1>1. PICK i \in 1..n : x[i] # y[i] /\ \A j \in 1..(i - 1) : x[j] = y[j]
  BY FirstDifference
<1>2. x[i] \in Nat /\ y[i] \in Nat /\ DOMAIN x = 1..n /\ DOMAIN y = 1..n
  BY DEF Keys
<1>3. x[i] < y[i] \/ y[i] < x[i]
  BY <1>1, <1>2
<1> QED
  BY <1>1, <1>2, <1>3 DEF E!Less

LEMMA KeysIrreflexive ==
    ASSUME NEW n \in Nat, NEW x \in Keys(n)
    PROVE  ~E!Less(x, x)
<1>1. \A i \in 1..n : ~(x[i] < x[i])
  BY DEF Keys
<1> QED
  BY <1>1 DEF E!Less, Keys

LEMMA KeysTransitive ==
    ASSUME NEW n \in Nat, NEW x \in Keys(n), NEW y \in Keys(n), NEW z \in Keys(n),
           E!Less(x, y), E!Less(y, z)
    PROVE  E!Less(x, z)
<1>1. PICK i \in 1..n : x[i] < y[i] /\ \A j \in 1..(i - 1) : x[j] = y[j]
  BY DEF E!Less, Keys
<1>2. PICK k \in 1..n : y[k] < z[k] /\ \A j \in 1..(k - 1) : y[j] = z[j]
  BY DEF E!Less, Keys
<1>3. PICK first \in 1..n : first = IF i <= k THEN i ELSE k
  OBVIOUS
<1>4. \A j \in 1..(first - 1) : x[j] = z[j]
  BY <1>1, <1>2, <1>3
<1>5. x[first] < z[first]
  <2>1. x[first] \in Nat /\ y[first] \in Nat /\ z[first] \in Nat
    BY DEF Keys
  <2>2. CASE i < k
    BY <1>1, <1>2, <1>3, <2>1, <2>2
  <2>3. CASE i = k
    BY <1>1, <1>2, <1>3, <2>1, <2>3
  <2>4. CASE k < i
    BY <1>1, <1>2, <1>3, <2>1, <2>4
  <2> QED
    BY <2>2, <2>3, <2>4
<1> QED
  BY <1>4, <1>5 DEF E!Less, Keys

(* A finite set is sorted by counting, for each member, those before it.    *)
LEMMA Sorted ==
    ASSUME NEW items, IsFiniteSet(items), NEW n \in Nat, NEW key \in [items -> Keys(n)],
           \A g, h \in items : key[g] = key[h] => g = h,
           NEW seq,
           seq = [i \in 1..Cardinality(items) |-> seq[i]],
           \A i \in 1..Cardinality(items), g \in items :
               Cardinality({h \in items : E!Less(key[h], key[g])}) = i - 1
                   => /\ seq[i] \in items
                      /\ Cardinality({h \in items : E!Less(key[h], key[seq[i]])}) = i - 1
    PROVE  /\ seq \in [1..Cardinality(items) -> items]
           /\ \A g \in items : \E i \in 1..Cardinality(items) : seq[i] = g
           /\ \A i, j \in 1..Cardinality(items) : i < j => E!Less(key[seq[i]], key[seq[j]])
<1> DEFINE Before(g) == {h \in items : E!Less(key[h], key[g])}
           place == [g \in items |-> Cardinality(Before(g)) + 1]
<1>1. Cardinality(items) \in Nat
  BY FS_CardinalityType
<1>2. ASSUME NEW g \in items
      PROVE  /\ Before(g) \subseteq items /\ g \notin Before(g) /\ IsFiniteSet(Before(g))
             /\ Cardinality(Before(g)) \in Nat /\ Cardinality(Before(g)) < Cardinality(items)
  <2>1. Before(g) \subseteq items /\ g \notin Before(g)
    BY KeysIrreflexive
  <2>2. /\ IsFiniteSet(Before(g)) /\ Cardinality(Before(g)) <= Cardinality(items)
        /\ Cardinality(Before(g)) \in Nat /\ Cardinality(Before(g)) # Cardinality(items)
    <3> HIDE DEF Before
    <3> QED
      BY <2>1, FS_Subset, FS_CardinalityType
  <2> HIDE DEF Before
  <2> QED
    BY <1>1, <2>1, <2>2
<1>3. ASSUME NEW g \in items, NEW h \in items, E!Less(key[g], key[h])
      PROVE  place[g] < place[h]
  <2>1. Before(g) \subseteq Before(h)
    <3> SUFFICES ASSUME NEW k \in items, E!Less(key[k], key[g])
                 PROVE  E!Less(key[k], key[h])
      OBVIOUS
    <3> QED
      BY <1>3, KeysTransitive
  <2>2. g \in Before(h) /\ g \notin Before(g)
    BY <1>2, <1>3
  <2> HIDE DEF Before
  <2>3. Cardinality(Before(g)) <= Cardinality(Before(h)) /\ Before(g) # Before(h)
    BY <1>2, <2>1, <2>2, FS_Subset
  <2>4. Cardinality(Before(g)) # Cardinality(Before(h))
    BY <1>2, <2>1, <2>3, FS_Subset
  <2> QED
    BY <1>2, <2>3, <2>4
<1> HIDE DEF Before
<1>4. place \in Injection(items, 1..Cardinality(items))
  <2>1. place \in [items -> 1..Cardinality(items)]
    <3> SUFFICES ASSUME NEW g \in items PROVE Cardinality(Before(g)) + 1 \in 1..Cardinality(items)
      OBVIOUS
    <3> QED
      BY <1>1, <1>2
  <2>2. ASSUME NEW g \in items, NEW h \in items, g # h PROVE place[g] # place[h]
    <3>1. E!Less(key[g], key[h]) \/ E!Less(key[h], key[g])
      BY <2>2, KeysTotal
    <3>2. place[g] \in Nat /\ place[h] \in Nat
      BY <2>1, <1>1
    <3> QED
      BY <1>3, <3>1, <3>2
  <2> QED
    BY <2>1, <2>2 DEF Injection, IsInjective
<1>5. place \in Surjection(items, 1..Cardinality(items))
  <2>1. IsFiniteSet(1..Cardinality(items)) /\ Cardinality(1..Cardinality(items)) = Cardinality(items)
    BY <1>1, FS_Interval
  <2> QED
    BY <1>4, <2>1, FS_Injection
<1>6. ASSUME NEW i \in 1..Cardinality(items)
      PROVE  seq[i] \in items /\ place[seq[i]] = i
  <2>1. PICK g \in items : place[g] = i
    BY <1>5 DEF Surjection
  <2>2. Cardinality(Before(g)) = i - 1
    BY <1>1, <1>2, <2>1
  <2>3. seq[i] \in items /\ Cardinality(Before(seq[i])) = i - 1
    BY <2>2 DEF Before
  <2> QED
    BY <1>1, <1>2, <2>3
<1>7. ASSUME NEW g \in items PROVE \E i \in 1..Cardinality(items) : seq[i] = g
  <2>1. place[g] \in 1..Cardinality(items)
    BY <1>4 DEF Injection
  <2>2. seq[place[g]] \in items /\ place[seq[place[g]]] = place[g]
    BY <1>6, <2>1
  <2>3. seq[place[g]] = g
    BY <1>4, <2>2 DEF Injection, IsInjective
  <2> QED
    BY <2>1, <2>3
<1>8. ASSUME NEW i \in 1..Cardinality(items), NEW j \in 1..Cardinality(items), i < j
      PROVE  E!Less(key[seq[i]], key[seq[j]])
  <2>1. /\ seq[i] \in items /\ place[seq[i]] = i
        /\ seq[j] \in items /\ place[seq[j]] = j
    BY <1>6
  <2>2. seq[i] # seq[j]
    <3>1. i # j
      BY <1>1, <1>8
    <3> HIDE DEF place
    <3> QED
      BY <2>1, <3>1
  <2>3. key[seq[i]] # key[seq[j]]
    BY <2>1, <2>2
  <2>4. CASE E!Less(key[seq[j]], key[seq[i]])
    <3>1. place[seq[j]] < place[seq[i]]
      BY <1>3, <2>1, <2>4
    <3> QED
      BY <1>1, <1>8, <2>1, <3>1
  <2> QED
    BY <2>1, <2>3, <2>4, KeysTotal
<1>9. seq \in [1..Cardinality(items) -> items]
  BY <1>6
<1> QED
  BY <1>7, <1>8, <1>9

-----------------------------------------------------------------------------
(* What is counted from: the first place of a game or a type in a list.     *)

LEMMA PlaceIs ==
    ASSUME NEW list, NEW x, Len(list) \in Nat
    PROVE  /\ E!Place(list, x) \in 1..(Len(list) + 1)
           /\ E!Place(list, x) <= Len(list) => list[E!Place(list, x)] = x
           /\ \A i \in 1..Len(list) : list[i] = x => E!Place(list, x) <= i
<1> DEFINE places == {i \in 1..Len(list) : list[i] = x} \cup {Len(list) + 1}
<1>1. places \in SUBSET Nat /\ places # {} /\ places \subseteq 1..(Len(list) + 1)
  OBVIOUS
<1>2. E!Place(list, x) = CHOOSE i \in places : \A j \in places : i =< j
  BY DEF E!Place, E!Min
<1>3. \E i \in places : \A j \in places : i <= j
  <2> HIDE DEF places
  <2> QED
    BY <1>1, LeastExists
<1>4. E!Place(list, x) \in places /\ \A j \in places : E!Place(list, x) <= j
  <2> HIDE DEF places
  <2> QED
    BY <1>2, <1>3
<1> QED
  BY <1>1, <1>4

LEMMA LeastIs ==
    ASSUME NEW numbers \in SUBSET Nat, numbers # {}
    PROVE  E!Min(numbers) \in numbers
  BY LeastExists DEF E!Min

(* Keys of two numbers have a least one.                                    *)
LEMMA LeastKeyIs ==
    ASSUME NEW keys \in SUBSET Keys(2), keys # {}
    PROVE  E!Least(keys) \in keys
<1>1. \E k \in keys : \A l \in keys : k[1] <= l[1]
  <2>1. {k[1] : k \in keys} \in SUBSET Nat /\ {k[1] : k \in keys} # {}
    BY DEF Keys
  <2>2. PICK e \in {k[1] : k \in keys} : \A f \in {k[1] : k \in keys} : e <= f
    BY <2>1, LeastExists
  <2> QED
    BY <2>2
<1>2. PICK k \in keys : \A l \in keys : k[1] <= l[1]
  BY <1>1
<1> DEFINE tied == {l \in keys : l[1] = k[1]}
<1>3. \E l \in tied : \A m \in tied : l[2] <= m[2]
  <2>1. {l[2] : l \in tied} \in SUBSET Nat /\ {l[2] : l \in tied} # {}
    BY DEF Keys
  <2>2. PICK e \in {l[2] : l \in tied} : \A f \in {l[2] : l \in tied} : e <= f
    BY <2>1, LeastExists
  <2> QED
    BY <2>2
<1>4. PICK least \in tied : \A m \in tied : least[2] <= m[2]
  BY <1>3
<1>5. ASSUME NEW m \in keys PROVE E!LessOrEqual(least, m)
  <2>1. /\ least[1] \in Nat /\ least[2] \in Nat /\ m[1] \in Nat /\ m[2] \in Nat
        /\ least[1] = k[1] /\ k[1] <= m[1]
        /\ DOMAIN least = 1..2 /\ least \in Keys(2) /\ m \in Keys(2)
    BY <1>2 DEF Keys
  <2>2. CASE least[1] < m[1]
    <3>1. 1 \in DOMAIN least /\ \A j \in 1..(1 - 1) : least[j] = m[j]
      BY <2>1
    <3>2. E!Less(least, m)
      BY <2>2, <3>1 DEF E!Less
    <3> QED
      BY <3>2 DEF E!LessOrEqual
  <2>3. CASE least[1] = m[1]
    <3>1. least[2] <= m[2]
      BY <1>4, <2>1, <2>3
    <3>2. CASE least[2] < m[2]
      <4>1. 2 \in DOMAIN least /\ \A j \in 1..(2 - 1) : least[j] = m[j]
        BY <2>1, <2>3
      <4>2. E!Less(least, m)
        BY <3>2, <4>1 DEF E!Less
      <4> QED
        BY <4>2 DEF E!LessOrEqual
    <3>3. CASE least[2] = m[2]
      <4>1. \A j \in 1..2 : least[j] = m[j]
        BY <2>3, <3>3
      <4>2. least = m
        BY <2>1, <4>1 DEF Keys
      <4> QED
        BY <4>2 DEF E!LessOrEqual
    <3> QED
      BY <2>1, <3>1, <3>2, <3>3
  <2> QED
    BY <2>1, <2>2, <2>3
<1>6. least \in keys
  OBVIOUS
<1> HIDE DEF tied
<1> QED
  BY <1>5, <1>6 DEF E!Least

-----------------------------------------------------------------------------
(* The keys of a game.                                                      *)

SelectionOK == E!ConstantsOK /\ E!Inv

LEMMA SelectionTypes ==
    ASSUME SelectionOK
    PROVE  /\ s1.listed \in Seq(Listable) /\ s1.allDrops \in Seq(Listable)
           /\ s1.listOnly \in BOOLEAN /\ s1.priority \in Seq(Rewards)
           /\ s1.allowed \subseteq Rewards
           /\ s2 \in Seq(Listable)
           /\ \A c \in s3 : c.game \in Listable /\ c.type \in Rewards /\ c.ends \in Nat
  BY DEF SelectionOK, E!ConstantsOK, E!Inv, E!Settings

LEMMA CampaignKeyType ==
    ASSUME SelectionOK, NEW c \in s3
    PROVE  E!CampaignKey(c) \in Keys(2)
<1>1. IsFiniteSet(Rewards) /\ E!Cardinality(Rewards) = Cardinality(Rewards)
  BY DEF SelectionOK, E!ConstantsOK, E!IsFiniteSet, IsFiniteSet, E!Cardinality, Cardinality
<1>2. E!Cardinality(Rewards) \in Nat
  BY <1>1, FS_CardinalityType
<1>3. Len(s1.priority) \in Nat /\ c.ends \in Nat
  BY SelectionTypes, LenProperties
<1>4. E!Place(s1.priority, c.type) \in Nat
  BY <1>3, PlaceIs
<1>5. ASSUME NEW a \in Nat, NEW b \in Nat PROVE <<a, b>> \in Keys(2)
  BY DEF Keys
<1> QED
  BY <1>2, <1>3, <1>4, <1>5 DEF E!CampaignKey, E!NoKey

LEMMA NoKeyType ==
    ASSUME SelectionOK
    PROVE  E!NoKey \in Keys(2)
<1>1. IsFiniteSet(Rewards) /\ E!Cardinality(Rewards) = Cardinality(Rewards)
  BY DEF SelectionOK, E!ConstantsOK, E!IsFiniteSet, IsFiniteSet, E!Cardinality, Cardinality
<1>2. E!Cardinality(Rewards) \in Nat
  BY <1>1, FS_CardinalityType
<1> QED
  BY <1>2 DEF E!NoKey, Keys

LEMMA KeyOfType ==
    ASSUME SelectionOK, NEW campaigns \in SUBSET s3
    PROVE  E!KeyOf(campaigns) \in Keys(2)
<1>1. {E!CampaignKey(c) : c \in campaigns} \cup {E!NoKey} \in SUBSET Keys(2)
  BY CampaignKeyType, NoKeyType
<1> QED
  BY <1>1, LeastKeyIs DEF E!KeyOf

(* A campaign that cannot be earned now changes nothing.                    *)
LEMMA KeyOfCandidates ==
    ASSUME NEW g, g \in E!Range(s4)
    PROVE  E!KeyOf(E!Candidates(g)) = E!KeyOf(E!Of(g))
<1>1. {E!CampaignKey(c) : c \in E!Candidates(g)} \cup {E!NoKey}
        = {E!CampaignKey(c) : c \in E!Of(g)} \cup {E!NoKey}
  <2>1. ASSUME NEW c \in E!Of(g), c \notin E!Candidates(g) PROVE E!CampaignKey(c) = E!NoKey
    BY <2>1 DEF E!Candidates, E!CampaignKey
  <2>2. E!Candidates(g) \subseteq E!Of(g)
    BY DEF E!Candidates
  <2> QED
    BY <2>1, <2>2
<1> QED
  BY <1>1 DEF E!KeyOf

(* Counting in the instance is counting.                                    *)
LEMMA SelectionCounts ==
    ASSUME NEW items
    PROVE  E!Cardinality(items) = Cardinality(items)
  BY DEF E!Cardinality, Cardinality

LEMMA RankIs ==
    ASSUME SelectionOK, NEW g
    PROVE  /\ E!Rank(g) \in Nat
           /\ s2 = <<>> => E!Rank(g) = 1
<1>1. Len(s2) \in Nat
  BY SelectionTypes, LenProperties
<1>2. E!Rank(g) \in 1..(Len(s2) + 1)
  BY <1>1, PlaceIs DEF E!Rank
<1>3. s2 = <<>> => Len(s2) = 0
  OBVIOUS
<1> QED
  BY <1>1, <1>2, <1>3

Entered == s1.listed \o s1.allDrops

(* What is in two lists after one another.                                  *)
LEMMA JoinedIs ==
    ASSUME NEW items, NEW x \in Seq(items), NEW y \in Seq(items)
    PROVE  /\ x \o y \in Seq(items)
           /\ Len(x \o y) = Len(x) + Len(y)
           /\ Len(x) \in Nat /\ Len(y) \in Nat
           /\ \A i \in 1..Len(x) : (x \o y)[i] = x[i]
           /\ \A i \in 1..Len(y) : (x \o y)[Len(x) + i] = y[i]
           /\ E!Range(x \o y) = E!Range(x) \cup E!Range(y)
<1>1. PICK m \in Nat, n \in Nat : m = Len(x) /\ n = Len(y)
  BY LenProperties
<1>2. PICK z : z = x \o y
  OBVIOUS
<1>3. /\ z \in Seq(items) /\ Len(z) = m + n
      /\ \A i \in 1..(m + n) : z[i] = IF i <= m THEN x[i] ELSE y[i - m]
  BY <1>1, <1>2, ConcatProperties
<1>4. \A i \in 1..m : z[i] = x[i]
  BY <1>3
<1>5. ASSUME NEW i \in 1..n PROVE z[m + i] = y[i]
  <2>1. m + i \in 1..(m + n) /\ ~(m + i <= m) /\ m + i - m = i
    OBVIOUS
  <2> QED
    BY <1>3, <2>1
<1>6. DOMAIN z = 1..(m + n) /\ DOMAIN x = 1..m /\ DOMAIN y = 1..n
  BY <1>1, <1>3, LenProperties
<1>7. ASSUME NEW i \in 1..(m + n) PROVE z[i] \in E!Range(x) \cup E!Range(y)
  <2>1. CASE i <= m
    <3>1. i \in 1..m /\ z[i] = x[i]
      BY <1>4, <2>1
    <3> QED
      BY <1>6, <3>1 DEF E!Range
  <2>2. CASE ~(i <= m)
    <3>1. i - m \in 1..n /\ z[i] = y[i - m]
      BY <1>3, <2>2
    <3> QED
      BY <1>6, <3>1 DEF E!Range
  <2> QED
    BY <2>1, <2>2
<1>8. ASSUME NEW i \in 1..m PROVE x[i] \in E!Range(z)
  <2>1. i \in 1..(m + n)
    OBVIOUS
  <2> QED
    BY <1>4, <1>6, <2>1 DEF E!Range
<1>9. ASSUME NEW i \in 1..n PROVE y[i] \in E!Range(z)
  <2>1. m + i \in 1..(m + n)
    OBVIOUS
  <2> QED
    BY <1>5, <1>6, <2>1 DEF E!Range
<1>10. E!Range(z) = E!Range(x) \cup E!Range(y)
  <2>1. E!Range(z) \subseteq E!Range(x) \cup E!Range(y)
    BY <1>6, <1>7 DEF E!Range
  <2>2. E!Range(x) \subseteq E!Range(z)
    BY <1>6, <1>8 DEF E!Range
  <2>3. E!Range(y) \subseteq E!Range(z)
    BY <1>6, <1>9 DEF E!Range
  <2> QED
    BY <2>1, <2>2, <2>3
<1> QED
  BY <1>1, <1>2, <1>3, <1>4, <1>5, <1>10

LEMMA EnteredIs ==
    ASSUME SelectionOK
    PROVE  /\ Entered \in Seq(Listable)
           /\ Len(s1.listed) \in Nat
           /\ \A i \in 1..Len(s1.listed) : i \in 1..Len(Entered) /\ Entered[i] = s1.listed[i]
           /\ E!Range(Entered) = E!Range(s1.listed) \cup E!Range(s1.allDrops)
<1>1. PICK x \in Seq(Listable), y \in Seq(Listable) : x = s1.listed /\ y = s1.allDrops
  BY SelectionTypes
<1>2. /\ x \o y \in Seq(Listable)
      /\ Len(x \o y) = Len(x) + Len(y) /\ Len(x) \in Nat /\ Len(y) \in Nat
      /\ \A i \in 1..Len(x) : (x \o y)[i] = x[i]
      /\ E!Range(x \o y) = E!Range(x) \cup E!Range(y)
  BY JoinedIs
<1>3. \A i \in 1..Len(x) : i \in 1..Len(x \o y)
  BY <1>2
<1> QED
  BY <1>1, <1>2, <1>3 DEF Entered

(* A game of the users has the place where they entered it first; another   *)
(* one has its earliest campaign and its name.                              *)
LEMMA ListKeyIs ==
    ASSUME SelectionOK, NEW g \in E!Listed \cup E!Unlisted
    PROVE  /\ E!ListKey(g) \in Keys(3)
           /\ E!ListKey(g) = <<E!ListKey(g)[1], E!ListKey(g)[2], E!ListKey(g)[3]>>
           /\ g \in E!Listed =>
                 /\ E!ListKey(g)[1] = 0
                 /\ E!ListKey(g)[2] \in 1..Len(Entered) /\ Entered[E!ListKey(g)[2]] = g
                 /\ \A i \in 1..Len(Entered) : Entered[i] = g => E!ListKey(g)[2] <= i
           /\ g \notin E!Listed => E!ListKey(g)[1] = 1 /\ E!ListKey(g)[3] = g
<1>1. ASSUME NEW a \in Nat, NEW b \in Nat, NEW c \in Nat PROVE <<a, b, c>> \in Keys(3)
  BY DEF Keys
<1>2. CASE g \in E!Listed
  <2>1. E!ListKey(g) = <<0, E!Place(Entered, g), 0>>
    BY <1>2 DEF E!ListKey, Entered
  <2>2. Len(Entered) \in Nat
    BY EnteredIs, LenProperties
  <2>3. g \in E!Range(Entered)
    BY <1>2, EnteredIs DEF E!Listed
  <2>4. PICK i \in 1..Len(Entered) : Entered[i] = g
    BY <2>3, EnteredIs, LenProperties DEF E!Range
  <2>5. /\ E!Place(Entered, g) \in 1..(Len(Entered) + 1)
        /\ E!Place(Entered, g) <= Len(Entered) => Entered[E!Place(Entered, g)] = g
        /\ \A j \in 1..Len(Entered) : Entered[j] = g => E!Place(Entered, g) <= j
    BY <2>2, PlaceIs
  <2>6. E!Place(Entered, g) <= i
    BY <2>4, <2>5
  <2>7. E!Place(Entered, g) \in 1..Len(Entered) /\ E!Place(Entered, g) \in Nat
    BY <2>2, <2>5, <2>6
  <2>8. E!Place(Entered, g) <= Len(Entered)
    BY <2>2, <2>7
  <2> QED
    BY <1>1, <1>2, <2>1, <2>5, <2>7, <2>8
<1>3. CASE g \notin E!Listed
  <2> DEFINE ends == {c.ends : c \in {d \in E!Of(g) : d.type \in s1.allowed}}
  <2>1. E!ListKey(g) = <<1, E!Min(ends), g>>
    BY <1>3 DEF E!ListKey
  <2>2. g \in E!Unlisted /\ g \in Listable /\ E!HasWanted(g, s1.allowed)
    BY <1>3 DEF E!Unlisted
  <2>3. ends \in SUBSET Nat /\ ends # {}
    BY <2>2, SelectionTypes DEF E!HasWanted, E!Of
  <2>4. E!Min(ends) \in Nat
    <3> HIDE DEF ends
    <3> QED
      BY <2>3, LeastIs
  <2>5. g \in Nat
    BY <2>2 DEF SelectionOK, E!ConstantsOK
  <2> HIDE DEF ends
  <2> QED
    BY <1>1, <1>3, <2>1, <2>4, <2>5
<1> QED
  BY <1>2, <1>3

(* Numbers before, and after, a list of numbers.                            *)
LEMMA KeyJoined ==
    ASSUME NEW m \in Nat, NEW n \in Nat, NEW x \in Keys(m), NEW y \in Keys(n)
    PROVE  /\ x \o y \in Keys(m + n)
           /\ \A i \in 1..m : (x \o y)[i] = x[i]
           /\ \A i \in 1..n : (x \o y)[m + i] = y[i]
<1>1. x \in Seq(Nat) /\ Len(x) = m /\ y \in Seq(Nat) /\ Len(y) = n
  BY DEF Keys
<1>2. PICK z : z = x \o y
  OBVIOUS
<1>3. /\ z \in Seq(Nat) /\ Len(z) = m + n
      /\ \A i \in 1..m : z[i] = x[i]
      /\ \A i \in 1..n : z[m + i] = y[i]
  <2>1. PICK numbers : numbers = Nat
    OBVIOUS
  <2>2. x \in Seq(numbers) /\ y \in Seq(numbers)
    BY <1>1, <2>1
  <2>3. /\ x \o y \in Seq(numbers) /\ Len(x \o y) = Len(x) + Len(y)
        /\ \A i \in 1..Len(x) : (x \o y)[i] = x[i]
        /\ \A i \in 1..Len(y) : (x \o y)[Len(x) + i] = y[i]
    BY <2>2, JoinedIs
  <2> QED
    BY <1>1, <1>2, <2>1, <2>3
<1>4. z \in Keys(m + n)
  BY <1>3 DEF Keys
<1> QED
  BY <1>2, <1>3, <1>4

LEMMA KeyBegun ==
    ASSUME NEW r \in Nat, NEW n \in Nat, NEW y \in Keys(n)
    PROVE  /\ <<r>> \o y \in Keys(n + 1)
           /\ (<<r>> \o y)[1] = r
           /\ \A j \in 2..(n + 1) : (<<r>> \o y)[j] = y[j - 1]
<1>1. PICK m \in Nat : m = 1
  OBVIOUS
<1>2. PICK x \in Keys(m) : x = <<r>>
  <2>1. <<r>> \in Keys(1)
    BY DEF Keys
  <2> QED
    BY <1>1, <2>1
<1>3. /\ x \o y \in Keys(m + n)
      /\ \A i \in 1..m : (x \o y)[i] = x[i]
      /\ \A i \in 1..n : (x \o y)[m + i] = y[i]
  BY KeyJoined, Zenon
<1>4. (x \o y)[1] = r
  BY <1>1, <1>2, <1>3
<1>5. ASSUME NEW j \in 2..(n + 1) PROVE (x \o y)[j] = y[j - 1]
  <2>1. j - 1 \in 1..n /\ m + (j - 1) = j
    BY <1>1
  <2> QED
    BY <1>3, <2>1
<1>6. m + n = n + 1
  BY <1>1
<1> QED
  BY <1>2, <1>3, <1>4, <1>5, <1>6

KeyLength == IF E!Enabled THEN 7 ELSE 4

(* What each number of a game's key in the queue is.                        *)
LEMMA QueueKeyIs ==
    ASSUME SelectionOK, NEW g \in E!Listed \cup E!Unlisted
    PROVE  /\ E!QueueKey(g) \in Keys(KeyLength)
           /\ E!QueueKey(g)[1] = E!Rank(g)
           /\ E!Enabled =>
                 /\ E!QueueKey(g)[2] = IF E!Selected(g) THEN 0 ELSE 1
                 /\ E!QueueKey(g)[3] = E!KeyOf(E!Of(g))[1]
                 /\ E!QueueKey(g)[4] = E!KeyOf(E!Of(g))[2]
                 /\ \A i \in 1..3 : E!QueueKey(g)[4 + i] = E!ListKey(g)[i]
           /\ ~E!Enabled => \A i \in 1..3 : E!QueueKey(g)[1 + i] = E!ListKey(g)[i]
<1>1. PICK r \in Nat : r = E!Rank(g)
  BY RankIs
<1>2. PICK l \in Keys(3) : l = E!ListKey(g)
  BY ListKeyIs
<1>3. PICK k \in Keys(2) : k = E!KeyOf(E!Of(g))
  BY KeyOfType DEF E!Of
<1>4. PICK s \in Nat : s = IF E!Selected(g) THEN 0 ELSE 1
  OBVIOUS
<1>5. CASE E!Enabled
  <2>1. PICK reward : reward = <<s>> \o k
    OBVIOUS
  <2>2. reward \in Keys(3) /\ reward[1] = s /\ reward[2] = k[1] /\ reward[3] = k[2]
    <3>1. PICK n \in Nat : n = 2
      OBVIOUS
    <3>2. k \in Keys(n)
      BY <3>1
    <3>3. /\ <<s>> \o k \in Keys(n + 1)
          /\ (<<s>> \o k)[1] = s
          /\ \A j \in 2..(n + 1) : (<<s>> \o k)[j] = k[j - 1]
      BY <3>2, KeyBegun, Zenon
    <3>4. n + 1 = 3
      BY <3>1
    <3>5. \A j \in 2..(n + 1) : reward[j] = k[j - 1]
      BY <2>1, <3>3, Zenon
    <3>6. reward[2] = k[1] /\ reward[3] = k[2]
      BY <3>4, <3>5
    <3> QED
      BY <2>1, <3>3, <3>4, <3>6
  <2>3. PICK most : most = <<r>> \o reward
    OBVIOUS
  <2>4. /\ most \in Keys(4) /\ most[1] = r
        /\ most[2] = reward[1] /\ most[3] = reward[2] /\ most[4] = reward[3]
    <3>1. PICK n \in Nat : n = 3
      OBVIOUS
    <3>2. reward \in Keys(n)
      BY <2>2, <3>1
    <3>3. /\ <<r>> \o reward \in Keys(n + 1)
          /\ (<<r>> \o reward)[1] = r
          /\ \A j \in 2..(n + 1) : (<<r>> \o reward)[j] = reward[j - 1]
      BY <3>2, KeyBegun, Zenon
    <3>4. n + 1 = 4
      BY <3>1
    <3>5. \A j \in 2..(n + 1) : most[j] = reward[j - 1]
      BY <2>3, <3>3, Zenon
    <3>6. most[2] = reward[1] /\ most[3] = reward[2] /\ most[4] = reward[3]
      BY <3>4, <3>5
    <3> QED
      BY <2>3, <3>3, <3>4, <3>6
  <2>5. PICK key : key = most \o l
    OBVIOUS
  <2>6. /\ key \in Keys(7) /\ \A i \in 1..4 : key[i] = most[i]
        /\ \A i \in 1..3 : key[4 + i] = l[i]
    <3>1. PICK m \in Nat, n \in Nat : m = 4 /\ n = 3
      OBVIOUS
    <3>2. most \in Keys(m) /\ l \in Keys(n)
      BY <2>4, <3>1
    <3>3. /\ most \o l \in Keys(m + n)
          /\ \A i \in 1..m : (most \o l)[i] = most[i]
          /\ \A i \in 1..n : (most \o l)[m + i] = l[i]
      BY <3>2, KeyJoined, Zenon
    <3>4. m + n = 7
      BY <3>1
    <3> QED
      BY <2>5, <3>1, <3>3, <3>4
  <2>7. key[1] = r /\ key[2] = s /\ key[3] = k[1] /\ key[4] = k[2]
    BY <2>2, <2>4, <2>6
  <2>8. E!QueueKey(g) = key
    BY <1>1, <1>2, <1>3, <1>4, <1>5, <2>1, <2>3, <2>5 DEF E!QueueKey, E!RewardKey
  <2> QED
    BY <1>1, <1>2, <1>3, <1>4, <1>5, <2>6, <2>7, <2>8 DEF KeyLength
<1>6. CASE ~E!Enabled
  <2>1. E!QueueKey(g) = <<r>> \o <<>> \o l
    BY <1>1, <1>2, <1>6 DEF E!QueueKey, E!RewardKey
  <2>2. <<r>> \o <<>> = <<r>>
    <3>1. <<r>> \in Seq(Nat)
      OBVIOUS
    <3> QED
      BY <3>1, ConcatEmptySeq
  <2>3. PICK key : key = <<r>> \o l
    OBVIOUS
  <2>4. PICK n \in Nat : n = 3
    OBVIOUS
  <2>5. l \in Keys(n)
    BY <2>4
  <2>6. /\ <<r>> \o l \in Keys(n + 1)
        /\ (<<r>> \o l)[1] = r
        /\ \A j \in 2..(n + 1) : (<<r>> \o l)[j] = l[j - 1]
    BY <2>5, KeyBegun, Zenon
  <2>7. key \in Keys(4) /\ key[1] = r /\ \A i \in 1..3 : key[1 + i] = l[i]
    <3>1. n + 1 = 4
      BY <2>4
    <3>2. ASSUME NEW i \in 1..3 PROVE key[1 + i] = l[i]
      <4>1. 1 + i \in 2..(n + 1) /\ (1 + i) - 1 = i
        BY <2>4
      <4> QED
        BY <2>3, <2>6, <4>1
    <3> QED
      BY <2>3, <2>6, <3>1, <3>2
  <2> QED
    BY <1>1, <1>2, <1>6, <2>1, <2>2, <2>3, <2>7 DEF KeyLength
<1> QED
  BY <1>5, <1>6

(* No two games of the queue have the same key.                             *)
LEMMA QueueKeysDiffer ==
    ASSUME SelectionOK, NEW g \in E!Listed \cup E!Unlisted,
           NEW h \in E!Listed \cup E!Unlisted, E!QueueKey(g) = E!QueueKey(h)
    PROVE  g = h
<1>1. \A i \in 1..3 : E!ListKey(g)[i] = E!ListKey(h)[i]
  BY QueueKeyIs
<1>2. /\ E!ListKey(g)[1] = E!ListKey(h)[1] /\ E!ListKey(g)[2] = E!ListKey(h)[2]
      /\ E!ListKey(g)[3] = E!ListKey(h)[3]
  BY <1>1
<1>3. g \in E!Listed <=> h \in E!Listed
  BY <1>2, ListKeyIs
<1> QED
  BY <1>2, <1>3, ListKeyIs

-----------------------------------------------------------------------------
(* The queue, by its keys.                                                  *)

LEMMA QueuedAre ==
    ASSUME SelectionOK
    PROVE  /\ E!Listed \cup E!Unlisted \subseteq Listable
           /\ IsFiniteSet(E!Listed \cup E!Unlisted)
<1>1. E!Range(s1.listed) \subseteq Listable /\ E!Range(s1.allDrops) \subseteq Listable
  <2>1. PICK x \in Seq(Listable), y \in Seq(Listable) : x = s1.listed /\ y = s1.allDrops
    BY SelectionTypes
  <2>2. E!Range(x) \subseteq Listable /\ E!Range(y) \subseteq Listable
    BY LenProperties, ElementOfSeq DEF E!Range
  <2> QED
    BY <2>1, <2>2
<1>2. E!Listed \subseteq Listable
  BY <1>1 DEF E!Listed
<1>3. E!Unlisted \subseteq Listable
  BY DEF E!Unlisted
<1>4. IsFiniteSet(Listable)
  BY DEF SelectionOK, E!ConstantsOK, E!IsFiniteSet, IsFiniteSet
<1> QED
  BY <1>2, <1>3, <1>4, FS_Subset

LEMMA QueueIs ==
    ASSUME SelectionOK
    PROVE  /\ s4 \in Seq(Listable)
           /\ E!Range(s4) = E!Listed \cup E!Unlisted
           /\ \A g \in E!Range(s4) : E!Place(s4, g) \in 1..Len(s4)
           /\ \A g, h \in E!Range(s4) :
                 E!Place(s4, g) < E!Place(s4, h) => E!Less(E!QueueKey(g), E!QueueKey(h))
<1> DEFINE games == E!Listed \cup E!Unlisted
           key == [g \in games |-> E!QueueKey(g)]
<1>1. games \subseteq Listable /\ IsFiniteSet(games)
  BY QueuedAre
<1>2. KeyLength \in Nat /\ key \in [games -> Keys(KeyLength)]
  BY QueueKeyIs DEF KeyLength
<1>3. \A g, h \in games : key[g] = key[h] => g = h
  BY QueueKeysDiffer
<1>4. s4 = [i \in 1..Cardinality(games) |->
               CHOOSE g \in games :
                   E!Cardinality({h \in games : E!Less(E!QueueKey(h), E!QueueKey(g))}) = i - 1]
  <2>1. E!Cardinality(games) = Cardinality(games)
    BY SelectionCounts
  <2>2. s4 = E!Queue
    BY DEF SelectionOK, E!Inv
  <2>3. E!Queue = [i \in 1..E!Cardinality(games) |->
               CHOOSE g \in games :
                   E!Cardinality({h \in games : E!Less(E!QueueKey(h), E!QueueKey(g))}) = i - 1]
    BY DEF E!Queue
  <2> HIDE DEF games
  <2> QED
    BY <2>1, <2>2, <2>3
<1>5. \A g \in games : {h \in games : E!Less(key[h], key[g])}
                         = {h \in games : E!Less(E!QueueKey(h), E!QueueKey(g))}
  OBVIOUS
<1> HIDE DEF games, key
<1>6. ASSUME NEW i \in 1..Cardinality(games), NEW g \in games,
             Cardinality({h \in games : E!Less(key[h], key[g])}) = i - 1
      PROVE  /\ s4[i] \in games
             /\ Cardinality({h \in games : E!Less(key[h], key[s4[i]])}) = i - 1
  <2>1. \A f \in games : E!Cardinality({h \in games : E!Less(E!QueueKey(h), E!QueueKey(f))})
                           = Cardinality({h \in games : E!Less(key[h], key[f])})
    BY <1>5, SelectionCounts
  <2>2. s4[i] = CHOOSE f \in games :
                   E!Cardinality({h \in games : E!Less(E!QueueKey(h), E!QueueKey(f))}) = i - 1
    BY <1>4
  <2>3. E!Cardinality({h \in games : E!Less(E!QueueKey(h), E!QueueKey(g))}) = i - 1
    BY <1>6, <2>1
  <2>4. /\ s4[i] \in games
        /\ E!Cardinality({h \in games : E!Less(E!QueueKey(h), E!QueueKey(s4[i]))}) = i - 1
    BY <2>2, <2>3
  <2> QED
    BY <2>1, <2>4
<1>7. s4 = [i \in 1..Cardinality(games) |-> s4[i]]
  <2> DEFINE At(i) == CHOOSE g \in games :
                   E!Cardinality({h \in games : E!Less(E!QueueKey(h), E!QueueKey(g))}) = i - 1
  <2>1. s4 = [i \in 1..Cardinality(games) |-> At(i)]
    BY <1>4
  <2> HIDE DEF At
  <2> QED
    BY <2>1
<1>8. /\ s4 \in [1..Cardinality(games) -> games]
      /\ \A g \in games : \E i \in 1..Cardinality(games) : s4[i] = g
      /\ \A i, j \in 1..Cardinality(games) : i < j => E!Less(key[s4[i]], key[s4[j]])
  BY <1>1, <1>2, <1>3, <1>6, <1>7, Sorted
<1>9. PICK n \in Nat : n = Cardinality(games)
  BY <1>1, FS_CardinalityType
<1>10. s4 \in Seq(Listable) /\ Len(s4) = n /\ DOMAIN s4 = 1..n
  <2>1. s4 \in [1..n -> Listable]
    BY <1>1, <1>8, <1>9
  <2>2. s4 \in Seq(Listable)
    BY <2>1, IsASeq
  <2> QED
    BY <2>1, <2>2, LenProperties
<1>11. E!Range(s4) = games
  <2>1. E!Range(s4) \subseteq games
    BY <1>8, <1>9, <1>10 DEF E!Range
  <2>2. games \subseteq E!Range(s4)
    BY <1>8, <1>9, <1>10 DEF E!Range
  <2> QED
    BY <2>1, <2>2
<1>12. ASSUME NEW g \in games
       PROVE  E!Place(s4, g) \in 1..n /\ s4[E!Place(s4, g)] = g
  <2>1. PICK i \in 1..n : s4[i] = g
    BY <1>8, <1>9
  <2>2. /\ E!Place(s4, g) \in 1..(n + 1)
        /\ E!Place(s4, g) <= n => s4[E!Place(s4, g)] = g
        /\ E!Place(s4, g) <= i
    BY <1>10, <2>1, PlaceIs
  <2> QED
    BY <2>1, <2>2
<1>13. ASSUME NEW g \in games, NEW h \in games, E!Place(s4, g) < E!Place(s4, h)
       PROVE  E!Less(E!QueueKey(g), E!QueueKey(h))
  <2>1. key[g] = E!QueueKey(g) /\ key[h] = E!QueueKey(h)
    BY DEF key
  <2>2. E!Less(key[g], key[h])
    BY <1>8, <1>9, <1>12, <1>13
  <2> QED
    BY <2>1, <2>2
<1> QED
  BY <1>10, <1>11, <1>12, <1>13 DEF games

-----------------------------------------------------------------------------
(* The order of the channels follows that of the queue.                     *)

LEMMA LessBegun ==
    ASSUME NEW n \in Nat, NEW x \in Keys(n), NEW y \in Keys(n), NEW r \in Nat, NEW s \in Nat
    PROVE  /\ r < s => E!Less(<<r>> \o x, <<s>> \o y)
           /\ r = s /\ E!Less(x, y) => E!Less(<<r>> \o x, <<s>> \o y)
<1>1. /\ <<r>> \o x \in Keys(n + 1)
      /\ (<<r>> \o x)[1] = r
      /\ \A j \in 2..(n + 1) : (<<r>> \o x)[j] = x[j - 1]
  BY KeyBegun, Zenon
<1>2. /\ <<s>> \o y \in Keys(n + 1)
      /\ (<<s>> \o y)[1] = s
      /\ \A j \in 2..(n + 1) : (<<s>> \o y)[j] = y[j - 1]
  BY KeyBegun, Zenon
<1>3. PICK v, w : v = <<r>> \o x /\ w = <<s>> \o y
  OBVIOUS
<1>4. /\ v \in Keys(n + 1) /\ w \in Keys(n + 1)
      /\ v[1] = r /\ w[1] = s
      /\ \A j \in 2..(n + 1) : v[j] = x[j - 1]
      /\ \A j \in 2..(n + 1) : w[j] = y[j - 1]
  BY <1>1, <1>2, <1>3, Zenon
<1>5. DOMAIN v = 1..(n + 1) /\ DOMAIN x = 1..n
  BY <1>4 DEF Keys
<1>6. ASSUME r < s PROVE E!Less(v, w)
  <2>1. 1 \in DOMAIN v /\ v[1] < w[1] /\ \A j \in 1..(1 - 1) : v[j] = w[j]
    BY <1>4, <1>5, <1>6
  <2> QED
    BY <2>1 DEF E!Less
<1>7. ASSUME r = s, E!Less(x, y) PROVE E!Less(v, w)
  <2>1. PICK i \in 1..n : x[i] < y[i] /\ \A j \in 1..(i - 1) : x[j] = y[j]
    BY <1>5, <1>7 DEF E!Less
  <2>2. PICK m \in 2..(n + 1) : m = i + 1
    OBVIOUS
  <2>3. v[m] = x[i] /\ w[m] = y[i]
    BY <1>4, <2>2
  <2>4. ASSUME NEW j \in 1..(m - 1) PROVE v[j] = w[j]
    <3>1. CASE j = 1
      BY <1>4, <1>7, <3>1
    <3>2. CASE j # 1
      <4>1. j \in 2..(n + 1) /\ j - 1 \in 1..(i - 1)
        BY <2>2, <3>2
      <4> QED
        BY <1>4, <2>1, <4>1
    <3> QED
      BY <3>1, <3>2
  <2>5. m \in DOMAIN v /\ v[m] < w[m]
    BY <1>5, <2>1, <2>3
  <2> QED
    BY <2>4, <2>5 DEF E!Less
<1> QED
  BY <1>3, <1>6, <1>7

DefaultLength == IF E!Enabled THEN 4 ELSE 2

(* What each number of the priority of a channel is.                        *)
LEMMA DefaultPriorityIs ==
    ASSUME SelectionOK, NEW g \in E!Range(s4)
    PROVE  /\ E!DefaultPriority(g) \in Keys(DefaultLength)
           /\ E!DefaultPriority(g)[1] = E!Tier(g)
           /\ E!Enabled =>
                 /\ E!DefaultPriority(g)[2] = E!KeyOf(E!Of(g))[1]
                 /\ E!DefaultPriority(g)[3] = E!KeyOf(E!Of(g))[2]
                 /\ E!DefaultPriority(g)[4] = E!Place(s4, g)
           /\ ~E!Enabled => E!DefaultPriority(g)[2] = E!Place(s4, g)
<1>1. PICK place \in Nat : place = E!Place(s4, g)
  BY QueueIs, LenProperties
<1>2. PICK tier \in Nat : tier = E!Tier(g)
  BY DEF E!Tier
<1>3. PICK k \in Keys(2) : k = E!KeyOf(E!Of(g))
  BY KeyOfType DEF E!Of
<1>4. E!KeyOf(E!Candidates(g)) = k
  BY <1>3, KeyOfCandidates
<1>5. CASE E!Enabled
  <2>1. PICK n \in Nat : n = 2
    OBVIOUS
  <2>2. k \in Keys(n)
    BY <2>1
  <2>3. /\ <<tier>> \o k \in Keys(n + 1)
        /\ (<<tier>> \o k)[1] = tier
        /\ \A j \in 2..(n + 1) : (<<tier>> \o k)[j] = k[j - 1]
    BY <2>2, KeyBegun, Zenon
  <2>4. PICK m \in Nat : m = n + 1
    OBVIOUS
  <2>5. PICK most : most = <<tier>> \o k
    OBVIOUS
  <2>6. /\ most \in Keys(n + 1) /\ most[1] = tier
        /\ \A j \in 2..(n + 1) : most[j] = k[j - 1]
    BY <2>3, <2>5, Zenon
  <2>7. /\ most \in Keys(m) /\ m = 3
        /\ most[1] = tier /\ most[2] = k[1] /\ most[3] = k[2]
    BY <2>1, <2>4, <2>6
  <2>8. PICK one \in Nat : one = 1
    OBVIOUS
  <2>9. PICK last \in Keys(one) : last = <<place>> /\ last[one] = place
    <3>1. <<place>> \in Keys(1) /\ <<place>>[1] = place
      BY DEF Keys
    <3> QED
      BY <2>8, <3>1
  <2>10. /\ most \o last \in Keys(m + one)
         /\ \A i \in 1..m : (most \o last)[i] = most[i]
         /\ \A i \in 1..one : (most \o last)[m + i] = last[i]
    <3>1. most \in Keys(m)
      BY <2>7
    <3> QED
      BY <3>1, KeyJoined, ZenonT(30)
  <2>11. PICK key : key = most \o last
    OBVIOUS
  <2>12. key \in Keys(4) /\ \A i \in 1..3 : key[i] = most[i]
    <3>1. key \in Keys(m + one) /\ \A i \in 1..m : key[i] = most[i]
      BY <2>10, <2>11, Zenon
    <3>2. m = 3 /\ m + one = 4
      BY <2>7, <2>8
    <3> QED
      BY <3>1, <3>2
  <2>13. key[4] = place
    <3>1. one \in 1..one /\ m + one = 4
      BY <2>7, <2>8
    <3> QED
      BY <2>9, <2>10, <2>11, <3>1
  <2>14. key[1] = tier /\ key[2] = k[1] /\ key[3] = k[2]
    BY <2>7, <2>12
  <2>15. E!DefaultPriority(g) = key
    BY <1>1, <1>2, <1>4, <1>5, <2>5, <2>9, <2>11 DEF E!DefaultPriority
  <2> QED
    BY <1>1, <1>2, <1>3, <1>5, <2>12, <2>13, <2>14, <2>15 DEF DefaultLength
<1>6. CASE ~E!Enabled
  <2>1. E!DefaultPriority(g) = <<tier, place>>
    BY <1>1, <1>2, <1>6 DEF E!DefaultPriority, E!Tier
  <2>2. <<tier, place>> \in Keys(2) /\ <<tier, place>>[1] = tier /\ <<tier, place>>[2] = place
    BY DEF Keys
  <2> QED
    BY <1>1, <1>2, <1>6, <2>1, <2>2 DEF DefaultLength
<1> QED
  BY <1>5, <1>6

(* A game that comes in the queue before one of the Mining list, when both  *)
(* have the same rank and no reward decides, is of the Mining list itself.  *)
LEMMA SelectedFirst ==
    ASSUME SelectionOK, NEW g \in E!Range(s4), NEW h \in E!Range(s4),
           E!Less(E!ListKey(g), E!ListKey(h)), E!Selected(h)
    PROVE  E!Selected(g)
<1>1. g \in E!Listed \cup E!Unlisted /\ h \in E!Listed \cup E!Unlisted
  BY QueueIs
<1>2. h \in E!Listed
  BY <1>1 DEF E!Unlisted, E!Selected
<1>3. PICK x \in Keys(3), y \in Keys(3) : x = E!ListKey(g) /\ y = E!ListKey(h)
  BY <1>1, ListKeyIs
<1>4. /\ x[1] \in Nat /\ x[2] \in Nat /\ x[3] \in Nat
      /\ y[1] \in Nat /\ y[2] \in Nat /\ y[3] \in Nat /\ DOMAIN x = 1..3
  BY DEF Keys
<1>5. \/ x[1] < y[1]
      \/ x[1] = y[1] /\ x[2] < y[2]
      \/ x[1] = y[1] /\ x[2] = y[2] /\ x[3] < y[3]
  <2>1. PICK i \in 1..3 : x[i] < y[i] /\ \A j \in 1..(i - 1) : x[j] = y[j]
    BY <1>3, <1>4 DEF E!Less
  <2>2. CASE i = 1
    BY <2>1, <2>2
  <2>3. CASE i = 2
    <3>1. 1 \in 1..(i - 1)
      BY <2>3
    <3> QED
      BY <2>1, <2>3, <3>1
  <2>4. CASE i = 3
    <3>1. 1 \in 1..(i - 1) /\ 2 \in 1..(i - 1)
      BY <2>4
    <3> QED
      BY <2>1, <2>4, <3>1
  <2> QED
    BY <2>2, <2>3, <2>4
<1>6. /\ y[1] = 0
      /\ y[2] \in 1..Len(Entered) /\ Entered[y[2]] = h
      /\ \A i \in 1..Len(Entered) : Entered[i] = h => y[2] <= i
  BY <1>1, <1>2, <1>3, ListKeyIs
<1>7. g \in E!Listed
  <2>1. g \notin E!Listed => x[1] = 1
    BY <1>1, <1>3, ListKeyIs
  <2> QED
    BY <1>4, <1>5, <1>6, <2>1
<1>8. x[2] \in 1..Len(Entered) /\ Entered[x[2]] = g
  BY <1>1, <1>3, <1>7, ListKeyIs
<1>9. PICK list \in Seq(Listable) : list = s1.listed
  BY SelectionTypes
<1>10. /\ Len(list) \in Nat
       /\ \A i \in 1..Len(list) : i \in 1..Len(Entered) /\ Entered[i] = list[i]
  BY <1>9, EnteredIs
<1>11. PICK i \in 1..Len(list) : list[i] = h
  BY <1>9, LenProperties DEF E!Selected, E!Range
<1>12. y[2] <= i
  BY <1>6, <1>10, <1>11
<1>13. x[2] <= y[2]
  <2>1. x[2] = y[2] => x[2] <= y[2]
    BY <1>4
  <2> QED
    BY <1>4, <1>5, <1>6
<1>14. x[2] \in 1..Len(list)
  <2>1. 1 <= x[2]
    BY <1>4, <1>8, EnteredIs, LenProperties
  <2> QED
    BY <1>4, <1>10, <1>12, <1>13, <2>1
<1>15. list[x[2]] = g
  BY <1>8, <1>10, <1>14
<1> QED
  BY <1>9, <1>14, <1>15, LenProperties DEF E!Selected, E!Range

(* The tier of a game that can be watched, with a priority of rewards.      *)
LEMMA TierIs ==
    ASSUME SelectionOK, E!Told, NEW g \in E!Range(s4), E!Watchable(g)
    PROVE  /\ E!Enabled => E!Tier(g) = IF E!Selected(g) THEN 0 ELSE 1
           /\ s1.listOnly => E!Tier(g) = 0
           /\ ~s1.listOnly => E!Tier(g) = IF E!Selected(g) THEN 0 ELSE 1
<1>1. ~s1.listOnly => E!Tier(g) = IF E!Selected(g) THEN 0 ELSE 1
  BY DEF E!Tier, E!Watchable
<1>2. s1.listOnly => E!Tier(g) = 0
  BY DEF E!Tier
<1>3. ASSUME E!Enabled, s1.listOnly PROVE E!Selected(g)
  <2>1. g \in E!Listed
    BY <1>3, QueueIs DEF E!Unlisted
  <2> QED
    BY <1>3, <2>1 DEF E!Listed, E!Told, E!Selected
<1> QED
  BY <1>1, <1>2, <1>3

LEMMA DefaultLess ==
    ASSUME SelectionOK, E!Told, NEW g \in E!Range(s4), NEW h \in E!Range(s4),
           E!Watchable(g), E!Watchable(h), E!Place(s4, g) < E!Place(s4, h)
    PROVE  \/ E!Rank(g) < E!Rank(h)
           \/ /\ E!Rank(g) = E!Rank(h)
              /\ E!Less(E!DefaultPriority(g), E!DefaultPriority(h))
<1>1. g \in E!Listed \cup E!Unlisted /\ h \in E!Listed \cup E!Unlisted
  BY QueueIs
<1>2. PICK x \in Keys(KeyLength), y \in Keys(KeyLength) :
          x = E!QueueKey(g) /\ y = E!QueueKey(h)
  BY <1>1, QueueKeyIs
<1>3. PICK d \in Keys(DefaultLength), e \in Keys(DefaultLength) :
          d = E!DefaultPriority(g) /\ e = E!DefaultPriority(h)
  BY DefaultPriorityIs
<1>4. PICK i \in 1..KeyLength : x[i] < y[i] /\ \A j \in 1..(i - 1) : x[j] = y[j]
  <2>1. E!Less(x, y)
    BY <1>2, QueueIs
  <2> QED
    BY <2>1 DEF E!Less, Keys
<1>5. x[1] = E!Rank(g) /\ y[1] = E!Rank(h)
  BY <1>1, <1>2, QueueKeyIs
<1>6. CASE i = 1
  BY <1>4, <1>5, <1>6
<1>7. CASE i # 1 /\ E!Enabled
  <2>1. KeyLength = 7 /\ DefaultLength = 4 /\ d \in Keys(4) /\ e \in Keys(4)
    BY <1>7 DEF KeyLength, DefaultLength
  <2>2. x[2] = d[1] /\ x[3] = d[2] /\ x[4] = d[3] /\ d[4] = E!Place(s4, g)
    BY <1>1, <1>2, <1>3, <1>7, QueueKeyIs, DefaultPriorityIs, TierIs
  <2>3. y[2] = e[1] /\ y[3] = e[2] /\ y[4] = e[3] /\ e[4] = E!Place(s4, h)
    BY <1>1, <1>2, <1>3, <1>7, QueueKeyIs, DefaultPriorityIs, TierIs
  <2>4. 1 \in 1..(i - 1) /\ x[1] = y[1]
    BY <1>4, <1>7
  <2>5. DOMAIN d = 1..4
    BY <2>1 DEF Keys
  <2>6. CASE i = 2
    <3>1. 1 \in 1..4 /\ d[1] < e[1] /\ \A j \in 1..(1 - 1) : d[j] = e[j]
      BY <1>4, <2>2, <2>3, <2>6
    <3>2. E!Less(d, e)
      BY <2>5, <3>1 DEF E!Less
    <3> QED
      BY <1>3, <1>5, <2>4, <3>2
  <2>7. CASE i = 3
    <3>1. 2 \in 1..(i - 1) /\ x[2] = y[2]
      BY <1>4, <2>7
    <3>2. 2 \in 1..4 /\ d[2] < e[2] /\ d[1] = e[1]
      BY <1>4, <2>2, <2>3, <2>7, <3>1
    <3>3. \A j \in 1..(2 - 1) : d[j] = e[j]
      BY <3>2
    <3>4. E!Less(d, e)
      BY <2>5, <3>2, <3>3 DEF E!Less
    <3> QED
      BY <1>3, <1>5, <2>4, <3>4
  <2>8. CASE i = 4
    <3>1. 2 \in 1..(i - 1) /\ 3 \in 1..(i - 1) /\ x[2] = y[2] /\ x[3] = y[3]
      BY <1>4, <2>8
    <3>2. 3 \in 1..4 /\ d[3] < e[3] /\ d[1] = e[1] /\ d[2] = e[2]
      BY <1>4, <2>2, <2>3, <2>8, <3>1
    <3>3. \A j \in 1..(3 - 1) : d[j] = e[j]
      <4>1. \A j \in 1..(3 - 1) : j = 1 \/ j = 2
        OBVIOUS
      <4> QED
        BY <3>2, <4>1
    <3>4. E!Less(d, e)
      BY <2>5, <3>2, <3>3 DEF E!Less
    <3> QED
      BY <1>3, <1>5, <2>4, <3>4
  <2>9. CASE i \in 5..7
    <3>1. /\ 2 \in 1..(i - 1) /\ 3 \in 1..(i - 1) /\ 4 \in 1..(i - 1)
          /\ x[2] = y[2] /\ x[3] = y[3] /\ x[4] = y[4]
      BY <1>4, <2>9
    <3>2. 4 \in 1..4 /\ d[4] < e[4]
      BY <2>2, <2>3
    <3>3. \A j \in 1..(4 - 1) : d[j] = e[j]
      <4>1. d[1] = e[1] /\ d[2] = e[2] /\ d[3] = e[3]
        BY <2>2, <2>3, <3>1
      <4>2. \A j \in 1..(4 - 1) : j = 1 \/ j = 2 \/ j = 3
        OBVIOUS
      <4> QED
        BY <4>1, <4>2
    <3>4. E!Less(d, e)
      BY <2>5, <3>2, <3>3 DEF E!Less
    <3> QED
      BY <1>3, <1>5, <2>4, <3>4
  <2> QED
    BY <1>7, <2>1, <2>6, <2>7, <2>8, <2>9
<1>8. CASE i # 1 /\ ~E!Enabled
  <2>1. KeyLength = 4 /\ DefaultLength = 2 /\ DOMAIN d = 1..2
    BY <1>8 DEF KeyLength, DefaultLength, Keys
  <2>2. /\ d[1] = E!Tier(g) /\ d[2] = E!Place(s4, g)
        /\ e[1] = E!Tier(h) /\ e[2] = E!Place(s4, h)
    BY <1>3, <1>8, DefaultPriorityIs
  <2>3. 1 \in 1..(i - 1) /\ x[1] = y[1]
    BY <1>4, <1>8
  <2>4. E!Less(E!ListKey(g), E!ListKey(h))
    <3>1. PICK v \in Keys(3), w \in Keys(3) : v = E!ListKey(g) /\ w = E!ListKey(h)
      BY <1>1, ListKeyIs
    <3>2. \A j \in 1..3 : x[1 + j] = v[j] /\ y[1 + j] = w[j]
      BY <1>1, <1>2, <1>8, <3>1, QueueKeyIs
    <3>3. PICK m \in 1..3 : i = 1 + m
      BY <1>8, <2>1
    <3>4. v[m] < w[m]
      BY <1>4, <3>2, <3>3
    <3>5. ASSUME NEW j \in 1..(m - 1) PROVE v[j] = w[j]
      <4>1. j \in 1..3 /\ 1 + j \in 1..(i - 1)
        BY <3>3
      <4> QED
        BY <1>4, <3>2, <4>1
    <3> QED
      BY <3>1, <3>4, <3>5 DEF E!Less, Keys
  <2>5. d[1] \in 0..1 /\ e[1] \in 0..1 /\ d[1] <= e[1]
    <3>1. E!Selected(h) => E!Selected(g)
      BY <2>4, SelectedFirst
    <3>2. s1.listOnly \in BOOLEAN
      BY SelectionTypes
    <3> QED
      BY <2>2, <3>1, <3>2, TierIs
  <2>6. E!Less(d, e)
    <3>1. CASE d[1] < e[1]
      <4>1. 1 \in 1..2 /\ \A j \in 1..(1 - 1) : d[j] = e[j]
        OBVIOUS
      <4> QED
        BY <2>1, <3>1, <4>1 DEF E!Less
    <3>2. CASE d[1] = e[1]
      <4>1. 2 \in 1..2 /\ d[2] < e[2] /\ \A j \in 1..(2 - 1) : d[j] = e[j]
        BY <2>2, <3>2
      <4> QED
        BY <2>1, <4>1 DEF E!Less
    <3> QED
      BY <2>5, <3>1, <3>2
  <2> QED
    BY <1>3, <1>5, <2>3, <2>6
<1> QED
  BY <1>6, <1>7, <1>8

LEMMA MiningFollowsQueue ==
    ASSUME SelectionOK, E!Told
    PROVE  E!InQueueOrder
<1> SUFFICES ASSUME NEW g \in E!Range(s4), NEW h \in E!Range(s4),
                    E!Watchable(g), E!Watchable(h), E!Place(s4, g) < E!Place(s4, h)
             PROVE  E!Less(E!MiningPriority(g), E!MiningPriority(h))
  BY DEF E!InQueueOrder
<1>1. \/ E!Rank(g) < E!Rank(h)
      \/ /\ E!Rank(g) = E!Rank(h)
         /\ E!Less(E!DefaultPriority(g), E!DefaultPriority(h))
  BY DefaultLess
<1>2. CASE s2 = <<>>
  <2>1. E!Rank(g) = 1 /\ E!Rank(h) = 1
    BY <1>2, RankIs
  <2> QED
    BY <1>1, <1>2, <2>1 DEF E!MiningPriority
<1>3. CASE s2 # <<>>
  <2>1. PICK r \in Nat, s \in Nat : r = E!Rank(g) /\ s = E!Rank(h)
    BY RankIs
  <2>2. PICK n \in Nat : n = DefaultLength
    BY DEF DefaultLength
  <2>3. PICK d \in Keys(n), e \in Keys(n) : d = E!DefaultPriority(g) /\ e = E!DefaultPriority(h)
    BY <2>2, DefaultPriorityIs
  <2>4. /\ r < s => E!Less(<<r>> \o d, <<s>> \o e)
        /\ r = s /\ E!Less(d, e) => E!Less(<<r>> \o d, <<s>> \o e)
    BY LessBegun, Zenon
  <2>5. E!MiningPriority(g) = <<r>> \o d /\ E!MiningPriority(h) = <<s>> \o e
    BY <1>3, <2>1, <2>3 DEF E!MiningPriority, E!ManualRank
  <2> QED
    BY <1>1, <2>1, <2>3, <2>4, <2>5
<1> QED
  BY <1>2, <1>3

LEMMA QueueWanted ==
    ASSUME SelectionOK
    PROVE  E!Range(s4) =
             {g \in Listable : /\ \/ ~s1.listOnly
                                  \/ g \in E!Range(s1.listed \o s1.allDrops)
                               /\ E!Wanted(g)}
<1>1. E!Range(s1.listed \o s1.allDrops) = E!Range(s1.listed) \cup E!Range(s1.allDrops)
  BY EnteredIs DEF Entered
<1>2. E!Range(s4) = E!Listed \cup E!Unlisted /\ E!Listed \cup E!Unlisted \subseteq Listable
  BY QueueIs, QueuedAre
<1>3. s1.allowed \subseteq Rewards
  BY SelectionTypes
<1>4. ASSUME NEW g \in E!Listed
      PROVE  g \in E!Range(s1.listed \o s1.allDrops) /\ E!Wanted(g)
  BY <1>1 DEF E!Listed
<1>5. ASSUME NEW g \in E!Unlisted PROVE ~s1.listOnly /\ E!Wanted(g)
  BY <1>3 DEF E!Unlisted, E!Wanted, E!HasWanted
<1>6. ASSUME NEW g \in Listable, E!Wanted(g), g \in E!Range(s1.listed \o s1.allDrops)
      PROVE  g \in E!Listed
  BY <1>1, <1>6 DEF E!Listed
<1>7. ASSUME NEW g \in Listable, E!Wanted(g), g \notin E!Range(s1.listed \o s1.allDrops),
             ~s1.listOnly
      PROVE  g \in E!Unlisted
  <2>1. g \notin E!Listed /\ g \notin E!Range(s1.listed) /\ ~E!AllDrops(g)
    BY <1>1, <1>7 DEF E!Listed, E!AllDrops
  <2> QED
    BY <1>7, <2>1 DEF E!Unlisted, E!Wanted
<1> QED
  BY <1>2, <1>4, <1>5, <1>6, <1>7

SelectionInv == which = "selection" => E!Inv

LEMMA SelectionStart == Init => SelectionInv
<1> SUFFICES ASSUME Init, which = "selection" PROVE E!Inv
  BY DEF SelectionInv
<1>1. E!Init /\ E!ConstantsOK
  BY ServicesAssumption DEF Init, ServicesAssumption
<1>2. s1 \in E!Settings /\ s2 \in Lists /\ s3 \subseteq Offered
  BY <1>1 DEF E!Init, E!Settings, E!ConstantsOK
<1>3. \A g : E!Of(g) = {}
  BY <1>1 DEF E!Init, E!Of
<1>4. E!Listed \cup E!Unlisted = {}
  BY <1>3 DEF E!Listed, E!Unlisted, E!Wanted, E!HasWanted
<1>5. 1..E!Cardinality({}) = {}
  <2>1. E!Cardinality({}) = 0
    BY SelectionCounts, FS_EmptySet
  <2> QED
    BY <2>1
<1>6. E!Queue = <<>>
  <2> DEFINE games == E!Listed \cup E!Unlisted
             At(i) == CHOOSE g \in games :
                 E!Cardinality({h \in games : E!Less(E!QueueKey(h), E!QueueKey(g))}) = i - 1
  <2>1. E!Queue = [i \in 1..E!Cardinality(games) |-> At(i)]
    BY DEF E!Queue
  <2>2. 1..E!Cardinality(games) = {}
    BY <1>4, <1>5
  <2> HIDE DEF games, At
  <2> QED
    BY <2>1, <2>2
<1> QED
  BY <1>1, <1>2, <1>6 DEF E!Init, E!Inv

LEMMA SelectionStays == SelectionInv /\ [Next]_all => SelectionInv'
<1> SUFFICES ASSUME SelectionInv, [Next]_all, which' = "selection" PROVE E!Inv'
  BY DEF SelectionInv
<1>1. which = "selection" /\ E!Inv /\ E!ConstantsOK
  BY ServicesAssumption DEF SelectionInv, Next, all, ServicesAssumption
<1>2. s1 \in E!Settings /\ s2 \in Lists /\ s3 \subseteq Offered /\ s4 = E!Queue
  BY <1>1 DEF E!Inv
<1>3. CASE E!ChangeSettings
  <2>1. s1' \in E!Settings
    BY <1>2, <1>3 DEF E!ChangeSettings, E!Settings
  <2> QED
    BY <1>2, <1>3, <2>1 DEF E!ChangeSettings, E!Update, E!Inv, E!Settings
<1>4. CASE E!ChangeOrder
  BY <1>2, <1>4 DEF E!ChangeOrder, E!Update, E!Inv, E!Settings
<1>5. CASE E!Fetch
  <2>1. s3' \subseteq Offered
    BY <1>2, <1>5 DEF E!Fetch
  <2> QED
    BY <1>2, <1>5, <2>1 DEF E!Fetch, E!Update, E!Inv, E!Settings
<1>6. CASE UNCHANGED all
  <2>1. UNCHANGED <<s1, s2, s3, s4>>
    BY <1>6 DEF all, slots
  <2>2. E!Queue' = E!Queue
    BY <2>1 DEF E!Queue, E!Listed, E!Unlisted, E!Wanted, E!HasWanted, E!AllDrops, E!Of,
       E!QueueKey, E!RewardKey, E!ListKey, E!Rank, E!Enabled, E!Selected, E!KeyOf,
       E!CampaignKey
  <2> QED
    BY <1>2, <2>1, <2>2 DEF E!Inv, E!Settings
<1>7. E!Next \/ UNCHANGED all
  BY <1>1 DEF Next
<1> QED
  BY <1>3, <1>4, <1>5, <1>6, <1>7 DEF E!Next

(* Of two games that can be watched now, a channel of the one that comes    *)
(* first in the queue of the dashboard is preferred, and the queue holds    *)
(* every wanted game and no other.                                          *)
THEOREM QueueIsMinedAlways == Spec => []QueueIsMined
<1>1. SelectionInv => QueueIsMined
  <2> SUFFICES ASSUME SelectionInv, which = "selection" PROVE E!QueueIsMined
    BY DEF QueueIsMined
  <2>1. SelectionOK
    BY ServicesAssumption DEF SelectionInv, SelectionOK, ServicesAssumption
  <2>2. E!Told => E!InQueueOrder
    BY <2>1, MiningFollowsQueue
  <2>3. E!Range(s4) =
          {g \in Listable : /\ \/ ~s1.listOnly
                               \/ g \in E!Range(s1.listed \o s1.allDrops)
                            /\ E!Wanted(g)}
    BY <2>1, QueueWanted
  <2> QED
    BY <2>2, <2>3 DEF E!QueueIsMined
<1> QED
  BY <1>1, SelectionStart, SelectionStays, PTL DEF Spec

-----------------------------------------------------------------------------
(* DropIgnore.  A set of numbers with 0 and, with each number, the next one, *)
(* has all of them.                                                         *)

LEMMA AllNumbers ==
    ASSUME NEW numbers, 0 \in numbers, \A n \in Nat : n \in numbers => n + 1 \in numbers
    PROVE  Nat \subseteq numbers
<1> SUFFICES ASSUME NEW missing \in Nat, missing \notin numbers PROVE FALSE
  OBVIOUS
<1>1. {n \in Nat : n \notin numbers} \in SUBSET Nat /\ {n \in Nat : n \notin numbers} # {}
  OBVIOUS
<1>2. PICK n \in {m \in Nat : m \notin numbers} : \A m \in {m \in Nat : m \notin numbers} : n <= m
  BY <1>1, LeastExists
<1>3. n # 0 /\ n - 1 \in Nat
  <2>1. n \in Nat /\ n \notin numbers
    BY <1>2
  <2> QED
    BY <2>1
<1>4. n - 1 \in numbers
  <2>1. ~(n <= n - 1)
    BY <1>2
  <2> QED
    BY <1>2, <1>3, <2>1
<1>5. (n - 1) + 1 = n
  BY <1>2
<1> QED
  BY <1>2, <1>3, <1>4, <1>5

Open == D!Unclaimed(s1)
Ignored == D!Reasons(s1, s2)

\* A set of drops that can be claimed one by one, and that nothing forbids.
Clear(way) ==
    /\ way \subseteq Open
    /\ \A e \in way : s1[e].watch
    /\ D!Missing(way) = {} /\ D!Closed(way) /\ D!Ordered(way)

(* The passes over the drops find what a keyword forbids, and nothing that  *)
(* is on a way without it.                                                  *)
LEMMA ReasonsAre ==
    ASSUME D!IsGraph(s1)
    PROVE  /\ Open \cap s2 \subseteq Ignored
           /\ \A way : way \subseteq Open \ s2 /\ D!Closed(way) => way \cap Ignored = {}
<1> DEFINE Pass(f, n) == IF n = 0 THEN Open \cap s2 ELSE D!Block(s1, f[n - 1])
           Passes(m, f) == f = [n \in 0..m |-> Pass(f, n)]
<1>1. PICK size \in Nat : size = D!Cardinality(DOMAIN s1)
  <2>1. IsFiniteSet(DOMAIN s1) /\ D!Cardinality(DOMAIN s1) = Cardinality(DOMAIN s1)
    BY DEF D!IsGraph, D!IsFiniteSet, IsFiniteSet, D!Cardinality, Cardinality
  <2> QED
    BY <2>1, FS_CardinalityType
<1>2. Ignored = (CHOOSE f : Passes(size, f))[size]
  BY <1>1 DEF Ignored, D!Reasons, Open
<1>3. \A m \in Nat : \E f : Passes(m, f)
  <2> DEFINE numbers == {m \in Nat : \E f : Passes(m, f)}
  <2>1. 0 \in numbers
    <3>1. PICK f : f = [n \in 0..0 |-> Open \cap s2]
      OBVIOUS
    <3>2. Passes(0, f)
      <4>1. \A n \in 0..0 : n = 0
        OBVIOUS
      <4>2. \A n \in 0..0 : Pass(f, n) = Open \cap s2
        BY <4>1
      <4> HIDE DEF Pass
      <4> QED
        BY <3>1, <4>2
    <3> HIDE DEF Passes
    <3> QED
      BY <3>2
  <2>2. ASSUME NEW m \in Nat, m \in numbers PROVE m + 1 \in numbers
    <3>1. PICK f : Passes(m, f)
      BY <2>2
    <3>2. PICK g : g = [n \in 0..(m + 1) |-> IF n = m + 1 THEN D!Block(s1, f[m]) ELSE f[n]]
      OBVIOUS
    <3>3. ASSUME NEW n \in 0..(m + 1) PROVE g[n] = Pass(g, n)
      <4>1. CASE n = m + 1
        <5>1. g[n] = D!Block(s1, f[m]) /\ n # 0 /\ n - 1 = m
          BY <3>2, <4>1
        <5>2. m \in 0..(m + 1) /\ m # m + 1
          OBVIOUS
        <5>3. g[m] = f[m]
          BY <3>2, <5>2
        <5> QED
          BY <5>1, <5>3
      <4>2. CASE n # m + 1
        <5>1. n \in 0..m /\ g[n] = f[n]
          BY <3>2, <4>2
        <5>2. f[n] = Pass(f, n)
          BY <3>1, <5>1
        <5>3. CASE n = 0
          BY <5>1, <5>2, <5>3
        <5>4. CASE n # 0
          <6>1. n - 1 \in 0..(m + 1) /\ n - 1 # m + 1
            BY <5>1, <5>4
          <6>2. g[n - 1] = f[n - 1]
            BY <3>2, <6>1
          <6> QED
            BY <5>1, <5>2, <5>4, <6>2
        <5> QED
          BY <5>3, <5>4
      <4> QED
        BY <4>1, <4>2
    <3>4. Passes(m + 1, g)
      <4>1. DOMAIN g = 0..(m + 1) /\ g = [n \in 0..(m + 1) |-> g[n]]
        BY <3>2
      <4> HIDE DEF Pass
      <4> QED
        BY <3>3, <4>1
    <3> HIDE DEF Passes
    <3> QED
      BY <3>4
  <2>3. Nat \subseteq numbers
    <3> HIDE DEF numbers
    <3> QED
      BY <2>1, <2>2, AllNumbers
  <2> QED
    BY <2>3
<1>4. PICK f : Passes(size, f) /\ Ignored = f[size]
  <2> HIDE DEF Passes
  <2> QED
    BY <1>2, <1>3
<1> DEFINE Sound(n) == /\ Open \cap s2 \subseteq f[n] /\ f[n] \subseteq Open
                       /\ \A way : way \subseteq Open \ s2 /\ D!Closed(way) => way \cap f[n] = {}
           numbers == {n \in Nat : n <= size => Sound(n)}
<1>5. \A n \in 0..size : f[n] = Pass(f, n)
  <2> HIDE DEF Pass
  <2> QED
    BY <1>4
<1>6. 0 \in numbers
  <2>1. f[0] = Open \cap s2
    BY <1>5
  <2> QED
    BY <2>1
<1>7. ASSUME NEW n \in Nat, n \in numbers PROVE n + 1 \in numbers
  <2> SUFFICES ASSUME n + 1 <= size PROVE Sound(n + 1)
    OBVIOUS
  <2>1. n <= size /\ n + 1 \in 0..size /\ n + 1 # 0 /\ (n + 1) - 1 = n
    OBVIOUS
  <2>2. Sound(n)
    BY <1>7, <2>1
  <2>3. f[n + 1] = D!Block(s1, f[n])
    BY <1>5, <2>1
  <2>4. f[n + 1] = f[n] \cup {d \in Open : s1[d].pre \cap f[n] # {}}
    BY <2>3 DEF D!Block, Open
  <2>5. Open \cap s2 \subseteq f[n + 1] /\ f[n + 1] \subseteq Open
    BY <2>2, <2>4
  <2>6. ASSUME NEW way, way \subseteq Open \ s2, D!Closed(way), NEW d \in way, d \in f[n + 1]
        PROVE FALSE
    <3>1. way \cap f[n] = {} /\ f[n] \subseteq Open
      BY <2>2, <2>6
    <3>2. PICK p \in s1[d].pre : p \in f[n]
      BY <2>4, <2>6, <3>1
    <3>3. p \in way
      BY <2>6, <3>1, <3>2 DEF D!Closed, Open
    <3> QED
      BY <3>1, <3>2, <3>3
  <2> QED
    BY <2>5, <2>6
<1>8. size \in numbers
  <2> HIDE DEF numbers
  <2>1. Nat \subseteq numbers
    BY <1>6, <1>7, AllNumbers
  <2> QED
    BY <2>1
<1> QED
  BY <1>4, <1>8

\* A way to D that avoids what is visited, and what all of them have.
Good(way, d, visiting) ==
    d \in way /\ Clear(way) /\ way \cap (Ignored \cup visiting) = {}
Goods(d, visiting) == {way \in SUBSET Open : Good(way, d, visiting)}
Shared(d, visiting) == {e \in Open : \A way \in Goods(d, visiting) : e \in way}

LEMMA ClearPart ==
    ASSUME NEW way, Clear(way), NEW part, part \subseteq way, D!Closed(part)
    PROVE  Clear(part)
<1>1. D!Ordered(part)
  BY DEF Clear, D!Ordered
<1>2. D!Missing(part) = {}
  BY DEF Clear, D!Missing
<1> QED
  BY <1>1, <1>2 DEF Clear

(* What all ways have is the least of them.                                 *)
LEMMA SharedIsGood ==
    ASSUME NEW d, NEW visiting, Goods(d, visiting) # {}
    PROVE  Good(Shared(d, visiting), d, visiting)
<1>1. PICK way \in Goods(d, visiting) : TRUE
  OBVIOUS
<1>2. Clear(way) /\ way \cap (Ignored \cup visiting) = {}
  BY <1>1 DEF Goods, Good
<1>3. Shared(d, visiting) \subseteq way /\ d \in Shared(d, visiting)
  <2>1. d \in Open
    BY <1>1 DEF Goods, Good
  <2> QED
    BY <1>1, <2>1 DEF Shared, Goods, Good
<1>4. D!Closed(Shared(d, visiting))
  BY DEF Shared, Goods, Good, Clear, D!Closed, Open
<1> QED
  BY <1>2, <1>3, <1>4, ClearPart DEF Good

(* A way to D holds a way without D to each of its preconditions: in what   *)
(* cannot be claimed without D, the first would be such a precondition or D *)
(* itself.                                                                  *)
LEMMA GoodSplits ==
    ASSUME NEW d, NEW visiting, NEW way, Good(way, d, visiting),
           NEW p \in s1[d].pre \cap Open
    PROVE  \E part \in SUBSET way : Good(part, p, visiting \cup {d})
<1> DEFINE Parts == {part \in SUBSET way : D!Closed(part) /\ d \notin part}
           most == UNION Parts
<1>1. most \subseteq way /\ d \notin most
  OBVIOUS
<1>2. D!Closed(most)
  BY DEF D!Closed
<1>3. \A part \in SUBSET way : D!Closed(part) /\ d \notin part => part \subseteq most
  OBVIOUS
<1> HIDE DEF Parts, most
<1>4. Clear(way) /\ d \in way /\ way \cap (Ignored \cup visiting) = {}
  BY DEF Good
<1>5. p \in way
  BY <1>4 DEF Clear, D!Closed, Open
<1>6. p \in most
  <2> SUFFICES ASSUME p \notin most PROVE FALSE
    OBVIOUS
  <2>1. way \ most \in (SUBSET way) \ {{}}
    BY <1>5
  <2>2. PICK e \in way \ most : s1[e].pre \cap (way \ most) = {}
    BY <1>4, <2>1 DEF Clear, D!Ordered
  <2>3. e # d
    BY <1>5, <2>2
  <2>4. D!Closed(most \cup {e})
    <3>1. \A q \in s1[e].pre \cap Open : q \in most
      BY <1>4, <2>2 DEF Clear, D!Closed, Open
    <3> QED
      BY <1>2, <3>1 DEF D!Closed, Open
  <2>5. e \in most
    BY <1>1, <1>3, <2>2, <2>3, <2>4
  <2> QED
    BY <2>2, <2>5
<1>7. Clear(most)
  BY <1>1, <1>2, <1>4, ClearPart
<1> QED
  BY <1>1, <1>4, <1>6, <1>7 DEF Good

(* Ways to the preconditions of D, without D, are a way to D with it.       *)
LEMMA GoodsJoin ==
    ASSUME NEW d \in Open, NEW visiting, d \notin Ignored \cup visiting, s1[d].watch,
           s1[d].pre \subseteq DOMAIN s1,
           \A p \in s1[d].pre \cap Open : Goods(p, visiting \cup {d}) # {}
    PROVE  Good({d} \cup UNION {Shared(p, visiting \cup {d}) : p \in s1[d].pre \cap Open},
                d, visiting)
<1> DEFINE Part(p) == Shared(p, visiting \cup {d})
           way == {d} \cup UNION {Part(p) : p \in s1[d].pre \cap Open}
<1>1. ASSUME NEW p \in s1[d].pre \cap Open
      PROVE  /\ Clear(Part(p)) /\ p \in Part(p) /\ d \notin Part(p)
             /\ Part(p) \cap (Ignored \cup visiting) = {}
  BY SharedIsGood DEF Good
<1> HIDE DEF Part
<1>2. \A p \in s1[d].pre \cap Open : Part(p) \subseteq way
  OBVIOUS
<1>3. \A e \in way : e = d \/ \E p \in s1[d].pre \cap Open : e \in Part(p)
  OBVIOUS
<1>4. d \in way
  OBVIOUS
<1> HIDE DEF way
<1>5. way \subseteq Open /\ (\A e \in way : s1[e].watch) /\ way \cap (Ignored \cup visiting) = {}
  BY <1>1, <1>3 DEF Clear
<1>6. D!Missing(way) = {}
  <2>1. ASSUME NEW e \in way PROVE s1[e].pre \subseteq DOMAIN s1
    BY <1>1, <1>3 DEF Clear, D!Missing
  <2> QED
    BY <2>1 DEF D!Missing
<1>7. D!Closed(way)
  <2>1. ASSUME NEW e \in way, NEW q \in s1[e].pre \cap Open PROVE q \in way
    <3>1. CASE e = d
      BY <1>1, <1>2, <3>1
    <3>2. ASSUME NEW p \in s1[d].pre \cap Open, e \in Part(p) PROVE q \in way
      <4>1. q \in Part(p)
        BY <1>1, <3>2 DEF Clear, D!Closed, Open
      <4> QED
        BY <1>2, <4>1
    <3> QED
      BY <1>3, <3>1, <3>2
  <2> QED
    BY <2>1 DEF D!Closed, Open
<1>8. D!Ordered(way)
  <2> SUFFICES ASSUME NEW tied \in (SUBSET way) \ {{}}
               PROVE  \E e \in tied : s1[e].pre \cap tied = {}
    BY DEF D!Ordered
  <2>1. ASSUME NEW p \in s1[d].pre \cap Open, tied \cap Part(p) # {}
        PROVE  \E e \in tied : s1[e].pre \cap tied = {}
    <3>1. tied \cap Part(p) \in (SUBSET Part(p)) \ {{}}
      BY <2>1
    <3>2. PICK e \in tied \cap Part(p) : s1[e].pre \cap (tied \cap Part(p)) = {}
      BY <1>1, <3>1 DEF Clear, D!Ordered
    <3>3. s1[e].pre \cap Open \subseteq Part(p)
      BY <1>1, <3>2 DEF Clear, D!Closed, Open
    <3> QED
      BY <1>5, <3>2, <3>3
  <2>2. CASE \A p \in s1[d].pre \cap Open : tied \cap Part(p) = {}
    <3>1. tied = {d}
      BY <1>3, <2>2
    <3>2. d \notin s1[d].pre
      BY <1>1, <2>2, <3>1
    <3> QED
      BY <3>1, <3>2
  <2> QED
    BY <2>1, <2>2
<1>9. Good(way, d, visiting)
  BY <1>4, <1>5, <1>6, <1>7, <1>8 DEF Good, Clear
<1> QED
  BY <1>9 DEF way, Part

\* What collect_branch returns, without its calls.
Found(d, visiting) ==
    IF d \notin DOMAIN s1 THEN {}
    ELSE IF s1[d].claimed THEN {{}}
    ELSE IF Goods(d, visiting) = {} THEN {}
    ELSE {Shared(d, visiting)}

Asking == D!Names(s1) \X SUBSET DOMAIN s1
Answers == [ask \in Asking |-> Found(ask[1], ask[2])]

LEMMA OpenIs == \A d : d \in Open <=> d \in DOMAIN s1 /\ ~s1[d].claimed
  BY DEF Open, D!Unclaimed

(* It satisfies the equation of the recursive walk.                         *)
LEMMA FoundCollects ==
    ASSUME NEW d \in D!Names(s1), NEW visiting \in SUBSET DOMAIN s1
    PROVE  Found(d, visiting) = D!Collected(s1, Ignored, Answers, d, visiting)
<1>1. CASE d \notin DOMAIN s1 \/ s1[d].claimed
  BY <1>1 DEF Found, D!Collected
<1>2. CASE d \in Open /\ (d \in Ignored \cup visiting \/ ~s1[d].watch)
  <2>1. Goods(d, visiting) = {}
    BY <1>2 DEF Goods, Good, Clear
  <2> QED
    BY <1>2, <2>1, OpenIs DEF Found, D!Collected
<1>3. CASE d \in Open /\ d \notin Ignored \cup visiting /\ s1[d].watch
  <2> DEFINE next == visiting \cup {d}
             parts == {Answers[<<p, next>>] : p \in s1[d].pre}
  <2>1. d \in DOMAIN s1 /\ next \in SUBSET DOMAIN s1 /\ s1[d].pre \subseteq D!Names(s1)
    BY <1>3, OpenIs DEF D!Names
  <2>2. \A p \in s1[d].pre : Answers[<<p, next>>] = Found(p, next)
    BY <2>1 DEF Answers, Asking
  <2>3. D!Collected(s1, Ignored, Answers, d, visiting)
          = IF {} \in parts THEN {} ELSE {{d} \cup UNION UNION parts}
    BY <1>3, OpenIs DEF D!Collected
  <2>4. Found(d, visiting) = IF Goods(d, visiting) = {} THEN {} ELSE {Shared(d, visiting)}
    BY <1>3, OpenIs DEF Found
  <2>5. parts = {Found(p, next) : p \in s1[d].pre}
    BY <2>2
  <2> HIDE DEF parts
  <2>6. CASE {} \in parts
    <3>1. PICK p \in s1[d].pre : Found(p, next) = {}
      BY <2>5, <2>6
    <3>2. p \notin DOMAIN s1 \/ (p \in Open /\ Goods(p, next) = {})
      BY <3>1, OpenIs DEF Found
    <3>3. ASSUME NEW way \in Goods(d, visiting) PROVE FALSE
      <4>1. Good(way, d, visiting)
        BY DEF Goods
      <4>2. CASE p \notin DOMAIN s1
        BY <3>1, <4>1, <4>2 DEF Good, Clear, D!Missing
      <4>3. CASE p \in Open /\ Goods(p, next) = {}
        <5>1. PICK part \in SUBSET way : Good(part, p, next)
          BY <3>1, <4>1, <4>3, GoodSplits
        <5>2. part \in Goods(p, next)
          BY <5>1 DEF Goods, Good, Clear
        <5> QED
          BY <4>3, <5>2
      <4> QED
        BY <3>2, <4>2, <4>3
    <3> QED
      BY <2>3, <2>4, <2>6, <3>3
  <2>7. CASE {} \notin parts
    <3>1. ASSUME NEW p \in s1[d].pre PROVE Found(p, next) # {}
      BY <2>5, <2>7
    <3>2. s1[d].pre \subseteq DOMAIN s1
      BY <3>1 DEF Found
    <3>3. \A p \in s1[d].pre \cap Open : Goods(p, next) # {} /\ Found(p, next) = {Shared(p, next)}
      BY <3>1, OpenIs DEF Found
    <3>4. \A p \in s1[d].pre : p \notin Open => Found(p, next) = {{}}
      BY <3>2, OpenIs DEF Found
    <3> DEFINE way == {d} \cup UNION {Shared(p, next) : p \in s1[d].pre \cap Open}
    <3>5. UNION UNION parts = UNION {Shared(p, next) : p \in s1[d].pre \cap Open}
      <4>1. ASSUME NEW e \in UNION UNION parts
            PROVE  \E p \in s1[d].pre \cap Open : e \in Shared(p, next)
        <5>1. PICK branch \in UNION parts : e \in branch
          OBVIOUS
        <5>2. PICK p \in s1[d].pre : branch \in Found(p, next)
          BY <2>5
        <5>3. ASSUME p \notin Open PROVE FALSE
          <6>1. Found(p, next) = {{}}
            BY <3>4, <5>3
          <6>2. branch = {}
            BY <5>2, <6>1
          <6> QED
            BY <5>1, <6>2
        <5>4. Found(p, next) = {Shared(p, next)}
          BY <3>3, <5>3
        <5> QED
          BY <5>1, <5>2, <5>3, <5>4
      <4>2. ASSUME NEW p \in s1[d].pre \cap Open
            PROVE  Shared(p, next) \in UNION parts
        <5>1. Found(p, next) = {Shared(p, next)}
          BY <3>3
        <5>2. Found(p, next) \in parts
          BY <2>5
        <5> QED
          BY <5>1, <5>2
      <4>3. ASSUME NEW e \in UNION {Shared(p, next) : p \in s1[d].pre \cap Open}
            PROVE  e \in UNION UNION parts
        <5>1. PICK p \in s1[d].pre \cap Open : e \in Shared(p, next)
          OBVIOUS
        <5> QED
          BY <4>2, <5>1
      <4>4. ASSUME NEW e \in UNION UNION parts
            PROVE  e \in UNION {Shared(p, next) : p \in s1[d].pre \cap Open}
        BY <4>1
      <4> QED
        BY <4>3, <4>4
    <3>6. Good(way, d, visiting)
      BY <1>3, <3>2, <3>3, GoodsJoin
    <3>7. way \in Goods(d, visiting)
      BY <3>6 DEF Goods, Good, Clear
    <3>8. Shared(d, visiting) \subseteq way
      BY <3>7 DEF Shared
    <3>9. ASSUME NEW other \in Goods(d, visiting) PROVE way \subseteq other
      <4>1. Good(other, d, visiting)
        BY DEF Goods
      <4>2. d \in other
        BY <4>1 DEF Good
      <4>3. ASSUME NEW p \in s1[d].pre \cap Open PROVE Shared(p, next) \subseteq other
        <5>1. PICK part \in SUBSET other : Good(part, p, next)
          BY <4>1, GoodSplits
        <5>2. part \in Goods(p, next)
          BY <5>1 DEF Goods, Good, Clear
        <5> QED
          BY <5>1, <5>2 DEF Shared
      <4> QED
        BY <4>2, <4>3
    <3>10. way \subseteq Shared(d, visiting)
      BY <3>6, <3>9 DEF Shared, Good, Clear
    <3>11. Shared(d, visiting) = way
      BY <3>8, <3>10
    <3> QED
      BY <2>3, <2>4, <2>7, <3>5, <3>7, <3>11
  <2> QED
    BY <2>6, <2>7
<1>4. \/ d \notin DOMAIN s1 \/ s1[d].claimed
      \/ d \in Open /\ (d \in Ignored \cup visiting \/ ~s1[d].watch)
      \/ d \in Open /\ d \notin Ignored \cup visiting /\ s1[d].watch
  BY OpenIs
<1> QED
  BY <1>1, <1>2, <1>3, <1>4

(* At a drop that is not there or is being visited the walk asks no more.   *)
LEMMA EndsAlike ==
    ASSUME NEW f, NEW g, NEW d, NEW visiting, d \notin DOMAIN s1 \/ d \in visiting
    PROVE  D!Collected(s1, Ignored, f, d, visiting)
              = D!Collected(s1, Ignored, g, d, visiting)
  BY DEF D!Collected

(* The recursive walk is well-founded: what is visited only grows.          *)
LEMMA OneWalk ==
    ASSUME D!IsGraph(s1), NEW f, NEW g,
           f = [ask \in Asking |-> D!Collected(s1, Ignored, f, ask[1], ask[2])],
           g = [ask \in Asking |-> D!Collected(s1, Ignored, g, ask[1], ask[2])]
    PROVE  f = g
<1> DEFINE differ == {ask \in Asking : f[ask] # g[ask]}
           rests == {DOMAIN s1 \ ask[2] : ask \in differ}
<1>1. IsFiniteSet(DOMAIN s1)
  BY DEF D!IsGraph, D!IsFiniteSet, IsFiniteSet
<1>2. rests \subseteq FiniteSubsetsOf(DOMAIN s1)
  BY <1>1, FS_Subset DEF FiniteSubsetsOf
<1>3. ASSUME differ # {} PROVE FALSE
  <2>1. rests # {}
    <3>1. PICK ask : ask \in differ
      BY <1>3
    <3>2. DOMAIN s1 \ ask[2] \in rests
      BY <3>1
    <3> QED
      BY <3>2
  <2>2. PICK rest \in rests :
            \A other \in rests : <<other, rest>> \notin StrictSubsetOrdering(DOMAIN s1)
    <3> HIDE DEF rests
    <3> QED
      BY <1>2, <2>1, FS_StrictSubsetOrderingWellFounded, WFMin
  <2>3. PICK ask \in differ : rest = DOMAIN s1 \ ask[2]
    BY <2>2
  <2>4. PICK d \in D!Names(s1), visiting \in SUBSET DOMAIN s1 : ask = <<d, visiting>>
    BY DEF Asking
  <2>5. /\ f[ask] = D!Collected(s1, Ignored, f, d, visiting)
        /\ g[ask] = D!Collected(s1, Ignored, g, d, visiting)
        /\ ask[1] = d /\ ask[2] = visiting /\ ask \in Asking /\ f[ask] # g[ask]
    BY <2>4
  <2>6. d \in DOMAIN s1 /\ d \notin visiting
    <3>1. ASSUME d \notin DOMAIN s1 \/ d \in visiting PROVE f[ask] = g[ask]
      BY <2>5, <3>1, EndsAlike
    <3> QED
      BY <2>5, <3>1
  <2>7. s1[d].pre \subseteq D!Names(s1) /\ visiting \cup {d} \in SUBSET DOMAIN s1
    BY <2>6 DEF D!Names
  <2>8. ASSUME NEW p \in s1[d].pre, <<p, visiting \cup {d}>> \in differ PROVE FALSE
    <3>1. DOMAIN s1 \ (visiting \cup {d}) \in rests
      <4>1. PICK other \in differ : other = <<p, visiting \cup {d}>>
        BY <2>8
      <4>2. other[2] = visiting \cup {d}
        BY <4>1
      <4> QED
        BY <4>2
    <3>2. <<DOMAIN s1 \ (visiting \cup {d}), rest>> \in StrictSubsetOrdering(DOMAIN s1)
      BY <2>3, <2>5, <2>6 DEF StrictSubsetOrdering
    <3> QED
      BY <2>2, <3>1, <3>2
  <2>9. \A p \in s1[d].pre : f[<<p, visiting \cup {d}>>] = g[<<p, visiting \cup {d}>>]
    BY <2>7, <2>8 DEF Asking
  <2>10. {f[<<p, visiting \cup {d}>>] : p \in s1[d].pre}
           = {g[<<p, visiting \cup {d}>>] : p \in s1[d].pre}
    <3> DEFINE Here(p) == f[<<p, visiting \cup {d}>>]
               There(p) == g[<<p, visiting \cup {d}>>]
    <3>1. \A p \in s1[d].pre : Here(p) = There(p)
      BY <2>9
    <3> HIDE DEF Here, There
    <3>2. {Here(p) : p \in s1[d].pre} = {There(p) : p \in s1[d].pre}
      BY <3>1
    <3> QED
      BY <3>2 DEF Here, There
  <2>11. D!Collected(s1, Ignored, f, d, visiting) = D!Collected(s1, Ignored, g, d, visiting)
    BY <2>10 DEF D!Collected
  <2> QED
    BY <2>5, <2>11
<1>4. DOMAIN f = Asking /\ DOMAIN g = Asking
      /\ f = [ask \in Asking |-> f[ask]] /\ g = [ask \in Asking |-> g[ask]]
  <2>1. PICK e, h : e = f /\ h = g
    OBVIOUS
  <2> QED
    OBVIOUS
<1>5. \A ask \in Asking : f[ask] = g[ask]
  BY <1>3
<1> QED
  BY <1>4, <1>5

LEMMA BranchesAre ==
    ASSUME D!IsGraph(s1)
    PROVE  D!Branches(s1, Ignored) = [d \in DOMAIN s1 |-> Found(d, {})]
<1> DEFINE Walks(f) == f = [ask \in Asking |-> D!Collected(s1, Ignored, f, ask[1], ask[2])]
<1>1. Walks(Answers)
  <2>1. \A ask \in Asking : /\ ask[1] \in D!Names(s1) /\ ask[2] \in SUBSET DOMAIN s1
    BY DEF Asking
  <2>2. \A ask \in Asking :
            Found(ask[1], ask[2]) = D!Collected(s1, Ignored, Answers, ask[1], ask[2])
    BY <2>1, FoundCollects
  <2>3. Answers = [ask \in Asking |-> Found(ask[1], ask[2])]
    BY DEF Answers
  <2> QED
    BY <2>2, <2>3
<1>2. \A f : Walks(f) => f = Answers
  BY <1>1, OneWalk
<1>3. D!Branches(s1, Ignored) = [d \in DOMAIN s1 |-> (CHOOSE f : Walks(f))[<<d, {}>>]]
  BY DEF D!Branches, Asking
<1>4. (CHOOSE f : Walks(f)) = Answers
  <2> HIDE DEF Walks
  <2> QED
    BY <1>1, <1>2
<1>5. \A d \in DOMAIN s1 : Answers[<<d, {}>>] = Found(d, {})
  BY DEF Answers, Asking, D!Names
<1> HIDE DEF Walks
<1> QED
  BY <1>3, <1>4, <1>5

LEMMA WaysAre ==
    ASSUME D!IsGraph(s1), NEW d \in DOMAIN s1, NEW way \in SUBSET DOMAIN s1
    PROVE  D!Way(way, d) <=> s1[d].reward /\ Good(way, d, {})
<1>1. Open \cap s2 \subseteq Ignored
  BY ReasonsAre
<1>2. ASSUME way \subseteq Open \ s2, D!Closed(way) PROVE way \cap Ignored = {}
  BY <1>2, ReasonsAre
<1> QED
  BY <1>1, <1>2 DEF D!Way, Good, Clear, Open

(* The evaluation is that of the reference.                                 *)
LEMMA MineableIs ==
    ASSUME D!IsGraph(s1)
    PROVE  D!Mineable(s1, s2) = UNION UNION {D!LeastWays(d) : d \in DOMAIN s1}
<1> DEFINE worth == {d \in Open \ Ignored : s1[d].watch /\ s1[d].reward}
<1>1. D!Mineable(s1, s2) = UNION UNION {D!Branches(s1, Ignored)[d] : d \in worth}
  BY DEF D!Mineable, Ignored, Open
<1>2. \A d \in worth : D!Branches(s1, Ignored)[d] = Found(d, {})
  BY BranchesAre, OpenIs
<1>3. ASSUME NEW d \in DOMAIN s1
      PROVE  D!LeastWays(d) = IF s1[d].reward /\ Goods(d, {}) # {} THEN {Shared(d, {})} ELSE {}
  <2>1. \A way \in SUBSET DOMAIN s1 : D!Way(way, d) <=> s1[d].reward /\ way \in Goods(d, {})
    BY WaysAre DEF Goods, Good, Clear
  <2>2. CASE s1[d].reward /\ Goods(d, {}) # {}
    <3>1. Shared(d, {}) \in Goods(d, {}) /\ Shared(d, {}) \in SUBSET DOMAIN s1
      <4>1. Good(Shared(d, {}), d, {})
        BY <2>2, SharedIsGood
      <4>2. Shared(d, {}) \subseteq Open
        BY DEF Shared
      <4> QED
        BY <4>1, <4>2, OpenIs DEF Goods
    <3>2. \A way \in Goods(d, {}) : Shared(d, {}) \subseteq way
      BY DEF Shared
    <3>3. D!Way(Shared(d, {}), d)
      BY <2>1, <2>2, <3>1
    <3>4. Shared(d, {}) \in D!LeastWays(d)
      <4>1. ASSUME NEW other \in SUBSET Shared(d, {}), other # Shared(d, {}), D!Way(other, d)
            PROVE  FALSE
        BY <2>1, <3>1, <3>2, <4>1
      <4> QED
        BY <3>1, <3>3, <4>1 DEF D!LeastWays
    <3>5. \A way \in D!LeastWays(d) : way = Shared(d, {})
      BY <2>1, <3>1, <3>2, <3>3 DEF D!LeastWays
    <3> QED
      BY <2>2, <3>4, <3>5
  <2>3. CASE ~(s1[d].reward /\ Goods(d, {}) # {})
    BY <2>1, <2>3 DEF D!LeastWays
  <2> QED
    BY <2>2, <2>3
<1>4. \A d \in Open : Goods(d, {}) # {} => d \notin Ignored /\ s1[d].watch
  BY DEF Goods, Good, Clear
<1>5. \A d \in DOMAIN s1 : Goods(d, {}) # {} => d \in Open
  BY DEF Goods, Good, Clear
<1>6. \A d \in worth : Found(d, {}) = D!LeastWays(d)
  BY <1>3, OpenIs DEF Found
<1>7. \A d \in DOMAIN s1 : d \notin worth => D!LeastWays(d) = {}
  BY <1>3, <1>4, <1>5
<1>8. worth \subseteq DOMAIN s1
  BY OpenIs
<1>9. UNION {Found(d, {}) : d \in worth} = UNION {D!LeastWays(d) : d \in DOMAIN s1}
  <2> HIDE DEF worth
  <2>1. \A way \in UNION {Found(d, {}) : d \in worth} :
            way \in UNION {D!LeastWays(d) : d \in DOMAIN s1}
    BY <1>6, <1>8
  <2>2. \A way \in UNION {D!LeastWays(d) : d \in DOMAIN s1} :
            way \in UNION {Found(d, {}) : d \in worth}
    BY <1>6, <1>7
  <2> QED
    BY <2>1, <2>2
<1>10. {D!Branches(s1, Ignored)[d] : d \in worth} = {Found(d, {}) : d \in worth}
  BY <1>2
<1> QED
  BY <1>1, <1>9, <1>10

DropsInv == which = "ignored" => D!Inv

LEMMA DropsStart == Init => DropsInv
<1> SUFFICES ASSUME Init, which = "ignored" PROVE D!Inv
  BY DEF DropsInv
<1>1. D!Init /\ D!ConstantsOK
  BY ServicesAssumption DEF Init, ServicesAssumption
<1> QED
  BY <1>1 DEF D!Init, D!ConstantsOK, D!Inv, D!Recalled

(* The campaign with its own unclaimed drops is itself.                     *)
LEMMA WithOpen ==
    ASSUME D!IsGraph(s1)
    PROVE  D!With(Open) = s1
<1>1. ASSUME NEW d \in DOMAIN s1 PROVE [s1[d] EXCEPT !.claimed = d \notin Open] = s1[d]
  <2>1. PICK r : r = s1[d]
    OBVIOUS
  <2>2. r \in [claimed : BOOLEAN, watch : BOOLEAN, reward : BOOLEAN, pre : SUBSET D!Names(s1)]
    BY <2>1 DEF D!IsGraph
  <2>3. (d \notin Open) = r.claimed
    BY <2>1, <2>2, OpenIs
  <2>4. [r EXCEPT !.claimed = r.claimed] = r
    BY <2>2
  <2> QED
    BY <2>1, <2>3, <2>4
<1>2. s1 = [d \in DOMAIN s1 |-> s1[d]]
  BY DEF D!IsGraph
<1> QED
  BY <1>1, <1>2 DEF D!With

(* What is kept under the key of now is the evaluation of now.              *)
LEMMA EvaluatedIs ==
    ASSUME D!Inv
    PROVE  /\ D!Evaluated.mineable = D!Mineable(s1, s2)
           /\ \E names, unclaimed \in SUBSET DOMAIN s1 :
                 D!Evaluated = [key |-> <<names, unclaimed>>,
                                mineable |-> D!Mineable(D!With(unclaimed), names)]
<1>1. D!With(Open) = s1 /\ Open \subseteq DOMAIN s1 /\ s2 \subseteq DOMAIN s1
  BY WithOpen, OpenIs DEF D!Inv
<1>2. D!Key = <<s2, Open>>
  BY DEF D!Key, Open
<1>3. CASE s3.key # D!Key
  <2>1. D!Evaluated = [key |-> <<s2, Open>>, mineable |-> D!Mineable(D!With(Open), s2)]
    BY <1>1, <1>2, <1>3 DEF D!Evaluated
  <2> QED
    BY <1>1, <2>1
<1>4. CASE s3.key = D!Key
  <2>1. D!Evaluated = s3
    BY <1>4 DEF D!Evaluated
  <2>2. s3 # D!NoCache
    <3>1. <<>> # <<s2, Open>>
      OBVIOUS
    <3> QED
      BY <1>2, <1>4, <3>1 DEF D!NoCache
  <2>3. PICK names \in SUBSET DOMAIN s1, unclaimed \in SUBSET DOMAIN s1 :
            s3 = [key |-> <<names, unclaimed>>,
                  mineable |-> D!Mineable(D!With(unclaimed), names)]
    BY <2>2 DEF D!Inv, D!Recalled
  <2>4. names = s2 /\ unclaimed = Open
    BY <1>2, <1>4, <2>3
  <2> QED
    BY <1>1, <2>1, <2>3, <2>4
<1> QED
  BY <1>3, <1>4

(* A claim leaves a graph of drops, and the same but for the claims.        *)
LEMMA ClaimLeaves ==
    ASSUME D!IsGraph(s1), NEW d \in DOMAIN s1, s1' = [s1 EXCEPT ![d].claimed = TRUE]
    PROVE  D!IsGraph(s1)' /\ DOMAIN s1' = DOMAIN s1 /\ \A u : D!With(u)' = D!With(u)
<1>1. PICK r : r = s1[d]
  OBVIOUS
<1>2. r \in [claimed : BOOLEAN, watch : BOOLEAN, reward : BOOLEAN, pre : SUBSET D!Names(s1)]
  BY <1>1 DEF D!IsGraph
<1>3. PICK q : q = [r EXCEPT !.claimed = TRUE]
  OBVIOUS
<1>4. /\ q \in [claimed : BOOLEAN, watch : BOOLEAN, reward : BOOLEAN, pre : SUBSET D!Names(s1)]
      /\ q.pre = r.pre
  BY <1>2, <1>3
<1>5. s1' = [s1 EXCEPT ![d] = q]
  BY <1>1, <1>3
<1>6. DOMAIN s1' = DOMAIN s1
  BY <1>5
<1>7. \A e \in DOMAIN s1 : s1'[e] = IF e = d THEN q ELSE s1[e]
  BY <1>5 DEF D!IsGraph
<1>8. \A e \in DOMAIN s1 : s1'[e].pre = s1[e].pre
  BY <1>1, <1>4, <1>7
<1>9. D!Names(s1') = D!Names(s1)
  BY <1>6, <1>8 DEF D!Names
<1>10. D!IsGraph(s1')
  BY <1>4, <1>5, <1>6, <1>7, <1>9 DEF D!IsGraph
<1>11. ASSUME NEW u PROVE D!With(u)' = D!With(u)
  <2>1. ASSUME NEW e \in DOMAIN s1
        PROVE  [s1'[e] EXCEPT !.claimed = e \notin u] = [s1[e] EXCEPT !.claimed = e \notin u]
    <3>1. [q EXCEPT !.claimed = d \notin u] = [r EXCEPT !.claimed = d \notin u]
      BY <1>2, <1>3
    <3> QED
      BY <1>1, <1>7, <3>1
  <2> QED
    BY <1>6, <2>1 DEF D!With
<1> QED
  BY <1>6, <1>10, <1>11

LEMMA DropsStay == DropsInv /\ [Next]_all => DropsInv'
<1> SUFFICES ASSUME DropsInv, [Next]_all, which' = "ignored" PROVE D!Inv'
  BY DEF DropsInv
<1>1. which = "ignored" /\ D!Inv
  BY DEF DropsInv, Next, all
<1>2. D!IsGraph(s1) /\ s2 \subseteq DOMAIN s1 /\ D!Recalled /\ s4 \subseteq {D!Mineable(s1, s2)}
  BY <1>1 DEF D!Inv
<1>3. ASSUME NEW d \in DOMAIN s1, D!Claim(d) PROVE D!Inv'
  <2>1. s1' = [s1 EXCEPT ![d].claimed = TRUE] /\ UNCHANGED <<s2, s3>> /\ s4' = {}
    BY <1>3 DEF D!Claim, D!Change
  <2>2. D!IsGraph(s1)' /\ DOMAIN s1' = DOMAIN s1 /\ \A u : D!With(u)' = D!With(u)
    BY <1>2, <2>1, ClaimLeaves
  <2>3. D!Recalled'
    BY <1>2, <2>1, <2>2 DEF D!Recalled
  <2> QED
    BY <1>2, <2>1, <2>2, <2>3 DEF D!Inv
<1>4. ASSUME NEW names \in SUBSET DOMAIN s1, D!SetKeywords(names) PROVE D!Inv'
  <2>1. UNCHANGED <<s1, s3>> /\ s2' = names /\ s4' = {}
    BY <1>4 DEF D!SetKeywords, D!Change
  <2>2. D!Recalled'
    BY <1>2, <2>1 DEF D!Recalled, D!With
  <2> QED
    BY <1>2, <2>1, <2>2 DEF D!Inv
<1>5. CASE D!Ask
  <2>1. UNCHANGED <<s1, s2>> /\ s3' = D!Evaluated /\ s4' = {D!Evaluated.mineable}
    BY <1>5 DEF D!Ask
  <2>2. D!Recalled'
    BY <1>1, <2>1, EvaluatedIs DEF D!Recalled, D!With
  <2>3. s4' \subseteq {D!Mineable(s1, s2)}
    BY <1>1, <2>1, EvaluatedIs
  <2> QED
    BY <1>2, <2>1, <2>2, <2>3 DEF D!Inv
<1>6. CASE UNCHANGED all
  BY <1>2, <1>6 DEF all, slots, D!Inv, D!Recalled, D!With
<1>7. D!Next \/ UNCHANGED all
  BY <1>1 DEF Next
<1> QED
  BY <1>3, <1>4, <1>5, <1>6, <1>7 DEF D!Next

(* Whoever asks a campaign what is worth mining is told the drops that lie  *)
(* on a way to a reward nobody ignores, after any claims and changes of the *)
(* keywords, whatever the drops need of each other.                         *)
THEOREM MinesWhatLeadsToRewardsAlways == Spec => []MinesWhatLeadsToRewards
<1>1. DropsInv => MinesWhatLeadsToRewards
  BY MineableIs DEF DropsInv, MinesWhatLeadsToRewards, D!Inv, D!MinesWhatLeadsToRewards
<1> QED
  BY <1>1, DropsStart, DropsStay, PTL DEF Spec
=============================================================================
