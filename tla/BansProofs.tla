----------------------------- MODULE BansProofs -----------------------------
(***************************************************************************)
(* Bans hold until they end, for any channels, and whatever questions fail.*)
(***************************************************************************)
EXTENDS Bans, FiniteSetTheorems, WellFoundedInduction, TLAPS

Ban == 0..Forever

\* The values of the variables.
Types ==
    /\ time \in 0..EndOfTime
    /\ search \in {"none", "finding", "asking"}
    /\ DOMAIN found \subseteq Channels /\ \A c \in DOMAIN found : found[c] \in Ban
    /\ left \subseteq Channels
    /\ watched \in Channels \cup {NoChannel} /\ kept \in Ban
    /\ bans \in [Channels -> Ban] /\ timer \in Ban /\ requested \in BOOLEAN
    /\ tracked \subseteq Channels /\ refused \subseteq Channels
    /\ told \in [Channels -> Ban]

\* Two bans that end together, or both have ended.
Agree(b, c) == b = c \/ (~Banned(b) /\ ~Banned(c))

\* Between two searches what is known of a channel is what Twitch told; during one every
\* object has it, and those that are neither new nor watched have it in bans.
WhatIsKnown ==
    /\ search # "asking" => \A c \in Channels : Agree(bans[c], told[c])
    /\ watched # NoChannel => Agree(kept, told[watched])
    /\ search = "asking" =>
          /\ \A c \in DOMAIN found : Agree(found[c], told[c])
          /\ \A c \in Channels \ (DOMAIN found \cup {watched}) :
                Agree(bans[c], told[c]) /\ (c \in left => bans[c] # 0)

\* The channels of a search were free when it ended; those it refused have a timer.
Searched ==
    /\ search # "none" => tracked = {}
    /\ \A c \in tracked : ~Banned(told[c])
    /\ search = "none" => \A c \in refused : requested \/ timer <= bans[c]

BansInv == Types /\ WhatIsKnown /\ Searched

-----------------------------------------------------------------------------
\* FirstEnd is defined: numbers have a least one.
LEMMA LeastExists ==
    ASSUME NEW S \in SUBSET Nat, S # {}
    PROVE  \E e \in S : \A f \in S : e <= f
<1> DEFINE T == {0..e : e \in S}
<1>1. T \subseteq FiniteSubsetsOf(Nat)
  <2> SUFFICES ASSUME NEW e \in S PROVE IsFiniteSet(0..e) /\ 0..e \subseteq Nat
    BY DEF FiniteSubsetsOf
  <2> QED
    BY FS_Interval
<1>2. T # {}
  OBVIOUS
<1>3. PICK x \in T : \A y \in T : <<y, x>> \notin StrictSubsetOrdering(Nat)
  BY <1>1, <1>2, FS_StrictSubsetOrderingWellFounded, WFMin
<1>4. PICK e \in S : x = 0..e
  OBVIOUS
<1>5. ASSUME NEW f \in S PROVE e <= f
  <2> SUFFICES ASSUME f < e PROVE FALSE
    OBVIOUS
  <2>1. e \in 0..e /\ e \notin 0..f /\ 0..f \subseteq 0..e
    OBVIOUS
  <2>2. 0..f # 0..e
    BY <2>1, Zenon
  <2>3. <<0..f, 0..e>> \in StrictSubsetOrdering(Nat)
    BY <2>1, <2>2 DEF StrictSubsetOrdering
  <2> QED
    BY <1>3, <1>4, <2>3
<1> QED
  BY <1>5
LEMMA FirstEndIsFirst ==
    ASSUME EndOfTime \in Nat, NEW b \in [Channels -> Ban]
    PROVE  FirstEnd(b) \in Ban /\ \A c \in Channels : Banned(b[c]) => FirstEnd(b) <= b[c]
<1>1. Ends(b) \in SUBSET Nat /\ Ends(b) \subseteq Ban /\ Ends(b) # {}
  BY DEF Ends, Ban, Forever
<1>2. \E e \in Ends(b) : \A f \in Ends(b) : e <= f
  BY <1>1, LeastExists
<1>3. FirstEnd(b) \in Ends(b) /\ \A f \in Ends(b) : FirstEnd(b) <= f
  BY <1>2 DEF FirstEnd
<1>4. \A c \in Channels : Banned(b[c]) => b[c] \in Ends(b)
  BY DEF Ends
<1> QED
  BY <1>1, <1>3, <1>4

-----------------------------------------------------------------------------
LEMMA NothingFound == DOMAIN <<>> = {}
  OBVIOUS

LEMMA BansInit == ConstantsOK /\ Init => BansInv
<1> SUFFICES ASSUME ConstantsOK, Init PROVE BansInv
  OBVIOUS
<1> USE DEF Init, ConstantsOK
<1>1. Types
  <2>1. DOMAIN found = {}
    BY NothingFound, Zenon
  <2>2. 0 \in Ban /\ Forever \in Ban /\ 0 \in 0..EndOfTime
    BY DEF Ban, Forever
  <2>3. bans \in [Channels -> Ban] /\ told \in [Channels -> Ban]
    BY <2>2
  <2> QED
    BY <2>1, <2>2, <2>3 DEF Types
<1>2. WhatIsKnown
  BY DEF WhatIsKnown, Agree
<1>3. Searched
  BY DEF Searched
<1> QED
  BY <1>1, <1>2, <1>3 DEF BansInv

\* What every object of a channel inherits is what Twitch told.
LEMMA KnownAgrees ==
    ASSUME ConstantsOK, BansInv, search = "finding", NEW c \in Channels
    PROVE  Known(c) \in Ban /\ Agree(Known(c), told[c])
<1>1. /\ kept \in Ban /\ bans[c] \in Ban /\ 0 \in Ban /\ told[c] \in Ban
      /\ time \in Nat /\ ~Banned(0)
  BY DEF BansInv, Types, ConstantsOK, Ban, Forever, Banned
<1>2. Agree(bans[c], told[c]) /\ (c = watched => Agree(kept, told[c]))
  BY DEF BansInv, WhatIsKnown, ConstantsOK
<1>3. CASE c = watched /\ Banned(kept)
  BY <1>1, <1>2, <1>3 DEF Known
<1>4. CASE ~(c = watched /\ Banned(kept)) /\ Banned(bans[c])
  BY <1>1, <1>2, <1>4 DEF Known
<1>5. CASE ~(c = watched /\ Banned(kept)) /\ ~Banned(bans[c])
  BY <1>1, <1>2, <1>5 DEF Known, Agree
<1> QED
  BY <1>3, <1>4, <1>5
LEMMA BansFilter == ASSUME ConstantsOK, BansInv, Filter PROVE BansInv'
<1>1. \A c \in Channels : Known(c) \in Ban /\ Agree(Known(c), told[c])
  BY KnownAgrees DEF Filter
<1>2. 0 \in Ban /\ time \in Nat /\ time' = time
  BY DEF Filter, Types, BansInv, ConstantsOK, Ban, Forever
<1>3. Asked \subseteq Channels /\ DOMAIN found \subseteq Channels
  BY DEF BansInv, Types, Asked
<1>4. DOMAIN found' = DOMAIN found /\ \A c \in DOMAIN found : found'[c] = Known(c)
  BY DEF Filter
<1>5. \A c \in Channels : bans'[c] = IF Banned(bans[c]) THEN Known(c) ELSE 0
  BY DEF Filter
<1>6. Types'
  <2>1. \A c \in DOMAIN found' : found'[c] \in Ban
    BY <1>1, <1>3, <1>4 DEF Filter
  <2>2. kept' \in Ban
    BY <1>1, <1>2 DEF Filter
  <2>3. bans' \in [Channels -> Ban]
    BY <1>1, <1>2 DEF Filter
  <2> QED
    BY <2>1, <2>2, <2>3, <1>3, <1>4 DEF Filter, BansInv, Types
<1>7. WhatIsKnown'
  <2>1. watched \in Channels => Agree(kept', told[watched])
    BY <1>1 DEF Filter
  <2>2. ASSUME NEW c \in Channels PROVE Agree(bans'[c], told[c])
    <3>1. CASE Banned(bans[c])
      BY <1>1, <1>5, <3>1
    <3>2. CASE ~Banned(bans[c])
      <4>1. ~Banned(told[c])
        BY <3>2 DEF Filter, BansInv, WhatIsKnown, Agree
      <4> QED
        BY <1>2, <1>5, <3>2, <4>1 DEF Agree, Banned
    <3> QED
      BY <3>1, <3>2
  <2>3. ASSUME NEW c \in Asked \ (DOMAIN found \cup {watched}) PROVE bans'[c] # 0
    <3>1. c \in Channels /\ c # watched /\ Banned(bans[c])
      BY <2>3 DEF Asked
    <3>2. bans'[c] = bans[c]
      BY <1>5, <3>1 DEF Known
    <3> QED
      BY <1>2, <3>1, <3>2 DEF Banned
  <2> QED
    BY <1>1, <1>3, <1>4, <2>1, <2>2, <2>3 DEF Filter, WhatIsKnown, Agree, Banned, BansInv, Types
<1>8. Searched'
  BY DEF Filter, BansInv, Searched
<1> QED
  BY <1>6, <1>7, <1>8 DEF BansInv

LEMMA BansAnswer == ASSUME ConstantsOK, BansInv, NEW c \in Channels, Answer(c) PROVE BansInv'
<1>1. PICK ban \in {0, Forever} \cup time..EndOfTime :
          /\ told' = [told EXCEPT ![c] = ban]
          /\ found' = [d \in DOMAIN found |-> IF d = c THEN ban ELSE found[d]]
          /\ kept' = IF watched = c THEN ban ELSE kept
          /\ bans' = [bans EXCEPT ![c] = IF @ = 0 THEN 0 ELSE ban]
  BY DEF Answer
<1>2. ban \in Ban /\ 0 \in Ban
  BY DEF BansInv, Types, ConstantsOK, Ban, Forever
<1>3. Types'
  BY <1>1, <1>2 DEF Answer, BansInv, Types
<1>4. WhatIsKnown'
  BY <1>1 DEF Answer, BansInv, Types, WhatIsKnown, Agree, Banned
<1>5. Searched'
  BY DEF Answer, BansInv, Searched
<1> QED
  BY <1>3, <1>4, <1>5 DEF BansInv
\* At the end of a search each channel has the ban that Twitch told.
LEMMA BansFiltered == ASSUME ConstantsOK, BansInv, Filtered PROVE BansInv'
<1>1. 0 \in Ban /\ EndOfTime \in Nat /\ time \in Nat /\ ~Banned(0)
  BY DEF BansInv, Types, ConstantsOK, Ban, Forever, Banned
<1>2. ASSUME NEW c \in Channels
      PROVE  Agreed(c) \in Ban /\ Agree(Agreed(c), told[c])
  <2>1. c = watched => watched # NoChannel
    BY DEF ConstantsOK
  <2> QED
    BY <2>1 DEF Filtered, BansInv, Types, WhatIsKnown, Agreed
<1>3. \A c \in Channels : bans'[c] = IF Banned(Agreed(c)) THEN Agreed(c) ELSE 0
  BY DEF Filtered
<1>4. bans' \in [Channels -> Ban]
  BY <1>1, <1>2 DEF Filtered
<1>5. timer' \in Ban /\ \A c \in Channels : Banned(bans'[c]) => timer' <= bans'[c]
  <2>1. timer' = FirstEnd(bans')
    BY DEF Filtered
  <2> QED
    BY <1>1, <1>4, <2>1, FirstEndIsFirst
<1>6. DOMAIN found \subseteq Channels /\ DOMAIN found' = {}
  BY NothingFound DEF BansInv, Types, Filtered
<1>7. Types'
  BY <1>4, <1>5, <1>6 DEF Filtered, BansInv, Types
<1>8. WhatIsKnown'
  <2>1. ASSUME NEW c \in Channels PROVE Agree(bans'[c], told[c])
    BY <1>1, <1>2, <1>3 DEF Agree
  <2>2. watched # NoChannel => Agree(kept, told[watched])
    BY DEF BansInv, WhatIsKnown
  <2> QED
    BY <2>1, <2>2 DEF Filtered, WhatIsKnown, Agree, Banned
<1>9. Searched'
  <2>1. ASSUME NEW c \in tracked' PROVE ~Banned(told[c])
    BY <1>6 DEF Filtered, BansInv, WhatIsKnown, Agree
  <2>2. ASSUME NEW c \in refused' PROVE timer' <= bans'[c]
    <3>1. c \in Channels /\ Banned(Agreed(c))
      BY <1>6 DEF Filtered, Agreed
    <3> QED
      BY <1>3, <1>5, <3>1
  <2> QED
    BY <2>1, <2>2 DEF Filtered, Searched, Banned
<1> QED
  BY <1>7, <1>8, <1>9 DEF BansInv

LEMMA BansTick == ASSUME ConstantsOK, BansInv, Tick PROVE BansInv'
<1>1. time \in Nat /\ time' = time + 1 /\ time' \in 0..EndOfTime
  BY DEF Tick, BansInv, Types, ConstantsOK
<1>2. \A b \in Ban : Banned(b)' => Banned(b)
  BY <1>1 DEF Banned, ConstantsOK, Ban, Forever
<1>3. \A b, c \in Ban : Agree(b, c) => Agree(b, c)'
  BY <1>1 DEF Banned, Agree, ConstantsOK, Ban, Forever
<1>4. Types'
  BY <1>1 DEF Tick, BansInv, Types
<1>5. WhatIsKnown'
  BY <1>3, <1>4 DEF Tick, BansInv, Types, WhatIsKnown
<1>6. Searched'
  BY <1>2 DEF Tick, BansInv, Types, Searched
<1> QED
  BY <1>4, <1>5, <1>6 DEF BansInv
LEMMA BansNext == ASSUME ConstantsOK, BansInv, [Next]_vars PROVE BansInv'
<1>1. CASE Tick
  BY <1>1, BansTick
<1>2. CASE Search
  <2>1. PICK cs \in SUBSET Channels : found' = [c \in cs |-> 0]
    BY <1>2 DEF Search
  <2>2. 0 \in Ban
    BY DEF ConstantsOK, Ban, Forever
  <2>3. DOMAIN found' \subseteq Channels /\ \A c \in DOMAIN found' : found'[c] \in Ban
    BY <2>1, <2>2
  <2>4. Types'
    BY <1>2, <2>3 DEF Search, BansInv, Types
  <2>5. WhatIsKnown'
    BY <1>2 DEF Search, BansInv, WhatIsKnown, Agree, Banned
  <2>6. Searched'
    BY <1>2 DEF Search, BansInv, Searched
  <2> QED
    BY <2>4, <2>5, <2>6 DEF BansInv
<1>3. CASE Filter
  BY <1>3, BansFilter
<1>4. CASE FilterNothing
  <2>1. Types'
    BY <1>4 DEF FilterNothing, BansInv, Types
  <2>2. WhatIsKnown'
    BY <1>4 DEF FilterNothing, BansInv, WhatIsKnown, Agree, Banned
  <2>3. Searched'
    BY <1>4 DEF FilterNothing, BansInv, Searched
  <2> QED
    BY <2>1, <2>2, <2>3 DEF BansInv
<1>5. CASE Filtered
  BY <1>5, BansFiltered
<1>6. CASE BanExpires
  <2>1. FirstEnd(bans) \in Ban
    BY FirstEndIsFirst DEF BansInv, Types, ConstantsOK
  <2>2. Types'
    BY <1>6, <2>1 DEF BanExpires, BansInv, Types
  <2>3. WhatIsKnown'
    BY <1>6 DEF BanExpires, BansInv, WhatIsKnown, Agree, Banned
  <2>4. Searched'
    BY <1>6 DEF BanExpires, BansInv, Searched, Banned
  <2> QED
    BY <2>2, <2>3, <2>4 DEF BansInv
<1>7. CASE Switch
  <2>1. 0 \in Ban /\ ~Banned(0)
    BY DEF BansInv, Types, ConstantsOK, Ban, Forever, Banned
  <2>2. Types'
    BY <1>7, <2>1 DEF Switch, BansInv, Types
  <2>3. WhatIsKnown'
    BY <1>7, <2>1 DEF Switch, BansInv, WhatIsKnown, Searched, Agree, Banned
  <2>4. Searched'
    BY <1>7 DEF Switch, BansInv, Searched, Banned
  <2> QED
    BY <2>2, <2>3, <2>4 DEF BansInv
<1>8. CASE AccountChanges
  <2>1. Types'
    BY <1>8, NothingFound DEF AccountChanges, BansInv, Types, ConstantsOK, Ban, Forever
  <2>2. WhatIsKnown'
    BY <1>8 DEF AccountChanges, WhatIsKnown, Agree
  <2>3. Searched'
    BY <1>8 DEF AccountChanges, Searched
  <2> QED
    BY <2>1, <2>2, <2>3 DEF BansInv
<1>9. ASSUME NEW c \in Channels, Answer(c) PROVE BansInv'
  BY <1>9, BansAnswer
<1>10. ASSUME NEW c \in Channels, NoAnswer(c) PROVE BansInv'
  <2>1. Types'
    BY <1>10 DEF NoAnswer, BansInv, Types
  <2>2. WhatIsKnown'
    BY <1>10 DEF NoAnswer, BansInv, WhatIsKnown, Agree, Banned
  <2>3. Searched'
    BY <1>10 DEF NoAnswer, BansInv, Searched, Banned
  <2> QED
    BY <2>1, <2>2, <2>3 DEF BansInv
<1>11. CASE UNCHANGED vars
  <2>1. Types'
    BY <1>11 DEF vars, BansInv, Types
  <2>2. WhatIsKnown'
    BY <1>11 DEF vars, BansInv, WhatIsKnown, Agree, Banned
  <2>3. Searched'
    BY <1>11 DEF vars, BansInv, Searched, Banned
  <2> QED
    BY <2>1, <2>2, <2>3 DEF BansInv
<1> QED
  BY <1>1, <1>2, <1>3, <1>4, <1>5, <1>6, <1>7, <1>8, <1>9, <1>10, <1>11 DEF Next

LEMMA BansInvSuffices == ASSUME ConstantsOK, BansInv PROVE BansHoldUntilTheyEnd
<1> SUFFICES ASSUME search = "none" PROVE BansHoldUntilTheyEnd
  BY DEF BansHoldUntilTheyEnd
<1>1. \A c \in tracked : ~Banned(told[c])
  BY DEF BansInv, Searched
<1>2. watched # NoChannel => Banned(kept) = Banned(told[watched])
  BY DEF BansInv, WhatIsKnown, Agree, Banned
<1>3. \A c \in refused : ~Banned(bans[c]) => requested \/ timer <= time
  BY DEF BansInv, Types, Searched, ConstantsOK, Ban, Forever, Banned
<1> QED
  BY <1>1, <1>2, <1>3 DEF BansHoldUntilTheyEnd

\* ChannelService.filter_banned_channels: whichever questions fail, a ban that Twitch told
\* of holds for every object of its channel until it ends, and then a search is asked for.
THEOREM BansHold == ConstantsOK => (Spec => []BansHoldUntilTheyEnd)
<1> SUFFICES ASSUME ConstantsOK PROVE Spec => []BansHoldUntilTheyEnd
  OBVIOUS
<1>1. Init => BansInv
  BY BansInit
<1>2. BansInv /\ [Next]_vars => BansInv'
  BY BansNext
<1>3. BansInv => BansHoldUntilTheyEnd
  BY BansInvSuffices
<1> QED
  BY <1>1, <1>2, <1>3, PTL DEF Spec
=============================================================================
