--------------------------- MODULE DropsProofs ---------------------------
(***************************************************************************)
(* What holds of the progress and the claims of a campaign for any drops,  *)
(* requirements and bounds.                                                *)
(*                                                                         *)
(* Progress: what was reported of a drop is never more than Twitch counts, *)
(* so an answer that nothing overtook is not behind it (NewsInv).  Claims: *)
(* only the claim that finds its drop unclaimed tells, and it is the only  *)
(* one of its drop and campaign that does (OnceInv).                       *)
(***************************************************************************)
EXTENDS Drops, TLAPS

Counted == [minutes : Nat, claimed : BOOLEAN]

DropState == [real : Int, extra : Nat, claimed : BOOLEAN, told : Nat, claim_id : BOOLEAN]

Campaign == [drops : [Drops -> DropState]]

Claim == [by : {"message", "main"}, gen : Nat, drop : Drops,
          pc : {"asked", "answered", "telling"}, ok : BOOLEAN]

Mails == [type : {"drop-progress", "drop-claim"}, drop : Drops, minutes : Nat]

MainState == [pc : {"idle"}]
             \cup [pc : {"fetching"}, inventory : [Drops -> Counted]]
             \cup [pc : {"claiming"}, from : Nat]

PollState == [pc : {"idle"}]
             \cup [pc : {"sent", "answered"}, gen : Nat, active : BOOLEAN,
                   changed : BOOLEAN, overtaken : BOOLEAN,
                   drop : Drops \cup {"none"}, minutes : Nat]

WorldTypes ==
    /\ twitch \in [Drops -> Counted]
    /\ mail \in Seq(Mails)
    /\ seen \in [Drops -> Nat]
    /\ main \in MainState /\ poll \in PollState

CampTypes == camps \in Seq(Campaign)

ClaimTypes ==
    /\ claims \subseteq Claim
    /\ \A c \in claims : c.gen \in 1..now
    /\ history \in Seq(Drops)

\* Drops are claimed of a campaign there is, from a place in its order.
MainTypes == main.pc = "claiming" => now > 0 /\ main.from \in 1..Len(Listed) + 1

Types == WorldTypes /\ CampTypes /\ ClaimTypes /\ MainTypes

\* Nobody has heard of more than what Twitch counts.
Counts ==
    /\ \A d \in Drops : seen[d] <= twitch[d].minutes
    /\ \A i \in 1..Len(mail) : mail[i].minutes <= twitch[mail[i].drop].minutes
    /\ main.pc = "fetching" =>
          \A d \in Drops : main.inventory[d].minutes <= twitch[d].minutes
    /\ poll.pc = "answered" /\ poll.drop # "none" =>
          poll.minutes <= twitch[poll.drop].minutes
    /\ poll.pc = "sent" => poll.drop = "none"

\* The answer to a poll is at least what was reported, unless something came after it.
NewsInv ==
    poll.pc # "idle" =>
       /\ poll.gen <= now
       /\ poll.gen = now /\ ~poll.changed => ~poll.overtaken
       /\ /\ poll.pc = "answered" /\ poll.drop # "none"
          /\ poll.gen = now /\ ~poll.changed
          => poll.drop \in Drops /\ seen[poll.drop] <= poll.minutes

Known(d) == \E i \in 1..Len(history) : history[i] = d

\* The claim that found its drop unclaimed is alone, and tells once.
OnceInv ==
    /\ \A g \in 1..now : \A d \in Drops :
          /\ camps[g].drops[d].told <= 1
          /\ camps[g].drops[d].told = 1 =>
                /\ camps[g].drops[d].claimed /\ Known(d)
                /\ \A c \in claims : ~(c.pc = "telling" /\ c.gen = g /\ c.drop = d)
    /\ \A c \in claims : c.pc = "telling" =>
          camps[c.gen].drops[c.drop].claimed /\ camps[c.gen].drops[c.drop].told = 0
    /\ \A c, e \in claims :
          c.pc = "telling" /\ e.pc = "telling" /\ c.gen = e.gen /\ c.drop = e.drop => c = e
    /\ \A i, j \in 1..Len(history) : history[i] = history[j] => i = j

----------------------------------------------------------------------------
(* What the operations on a campaign do to its drops.                      *)

\* E is C with other minutes: who was claimed and who was told is the same.
SameClaims(c, e) ==
    /\ e \in Campaign
    /\ \A d \in Drops : /\ e.drops[d].claimed = c.drops[d].claimed
                        /\ e.drops[d].told = c.drops[d].told

\* Nothing is estimated.
NoMore(c, e) == \A d \in Drops : e.drops[d].extra <= c.drops[d].extra

LEMMA DropIs ==
    ASSUME NEW r \in Int, NEW e \in Nat, NEW n \in Nat, NEW k \in BOOLEAN, NEW i \in BOOLEAN
    PROVE  [real |-> r, extra |-> e, claimed |-> k, told |-> n, claim_id |-> i] \in DropState
  BY DEF DropState

LEMMA FieldsOf ==
    ASSUME NEW x \in DropState
    PROVE  /\ x = [real |-> x.real, extra |-> x.extra, claimed |-> x.claimed,
                   told |-> x.told, claim_id |-> x.claim_id]
           /\ x.real \in Int /\ x.extra \in Nat /\ x.told \in Nat
           /\ x.claimed \in BOOLEAN /\ x.claim_id \in BOOLEAN
  BY DEF DropState

\* A drop with other minutes keeps its claim.
LEMMA OtherMinutes ==
    ASSUME NEW x \in DropState, NEW r \in Int, NEW e \in Nat, NEW y,
           y = [x EXCEPT !.extra = e, !.real = r]
    PROVE  y \in DropState /\ y.extra = e /\ y.claimed = x.claimed /\ y.told = x.told
  BY DEF DropState

\* So does one of a replaced campaign.
LEMMA NoMinutes ==
    ASSUME NEW x \in DropState, NEW y,
           y = [x EXCEPT !.real = 0, !.extra = 0, !.claim_id = FALSE]
    PROVE  y \in DropState /\ y.claimed = x.claimed /\ y.told = x.told
<1> DEFINE same == [real |-> x.real, extra |-> x.extra, claimed |-> x.claimed,
                    told |-> x.told, claim_id |-> x.claim_id]
<1>a. x = same
  BY FieldsOf, Zenon
<1>1. y = [real |-> 0, extra |-> 0, claimed |-> x.claimed, told |-> x.told,
           claim_id |-> FALSE]
  BY <1>a
<1>2. FALSE \in BOOLEAN /\ 0 \in Int /\ 0 \in Nat
  OBVIOUS
<1>3. x.claimed \in BOOLEAN /\ x.told \in Nat
  BY FieldsOf, Zenon
<1>b. [real |-> 0, extra |-> 0, claimed |-> x.claimed, told |-> x.told,
       claim_id |-> FALSE] \in DropState
  BY <1>2, <1>3, DropIs, Zenon
<1>4. y \in DropState
  BY <1>1, <1>b, Zenon
<1>5. y.claimed = x.claimed /\ y.told = x.told
  BY DEF DropState
<1> QED BY <1>4, <1>5

\* Campaigns of the same claims, and of estimates that are no higher.
LEMMA ShiftedIs ==
    ASSUME NEW c \in Campaign, NEW delta \in Int
    PROVE  SameClaims(c, Shifted(c, delta)) /\ NoMore(c, Shifted(c, delta))
<1> DEFINE s == [d \in Drops |->
        LET real == c.drops[d].real + delta
        IN  IF delta = 0 \/ real < 0 \/ ~CanEarn(c, d) THEN c.drops[d]
            ELSE [c.drops[d] EXCEPT !.extra = 0,
                                    !.real = IF real < Needed[d] THEN real ELSE Needed[d]]]
<1>1. Shifted(c, delta) = [c EXCEPT !.drops = s]
  BY DEF Shifted
<1>2. ASSUME NEW d \in Drops
      PROVE  /\ s[d] \in DropState /\ s[d].claimed = c.drops[d].claimed
             /\ s[d].told = c.drops[d].told /\ s[d].extra <= c.drops[d].extra
  <2>1. c.drops[d] \in DropState /\ Needed[d] \in Nat
    BY DropsAssumption DEF Campaign
  <2>2. c.drops[d].real + delta \in Int
    BY <2>1 DEF DropState
  <2>3. \E r \in Int : \/ s[d] = c.drops[d]
                        \/ s[d] = [c.drops[d] EXCEPT !.extra = 0, !.real = r]
    <3>1. CASE delta = 0 \/ c.drops[d].real + delta < 0 \/ ~CanEarn(c, d)
      BY <3>1, <2>2
    <3>2. CASE ~(delta = 0 \/ c.drops[d].real + delta < 0 \/ ~CanEarn(c, d))
      <4> DEFINE r == IF c.drops[d].real + delta < Needed[d] THEN c.drops[d].real + delta
                      ELSE Needed[d]
      <4>1. s[d] = [c.drops[d] EXCEPT !.extra = 0, !.real = r]
        BY <3>2
      <4>2. r \in Int
        BY <2>1, <2>2
      <4> QED BY <4>1, <4>2
    <3> QED BY <3>1, <3>2
  <2> HIDE DEF s
  <2>4. PICK r \in Int : \/ s[d] = c.drops[d]
                         \/ s[d] = [c.drops[d] EXCEPT !.extra = 0, !.real = r]
    BY <2>3
  <2>5. c.drops[d].extra \in Nat
    BY <2>1 DEF DropState
  <2>6. CASE s[d] = c.drops[d]
    BY <2>1, <2>5, <2>6
  <2>7. CASE s[d] = [c.drops[d] EXCEPT !.extra = 0, !.real = r]
    <3> DEFINE x == c.drops[d]
               y == s[d]
    <3>a. x \in DropState /\ y = [x EXCEPT !.extra = 0, !.real = r]
      BY <2>1, <2>7
    <3>b. 0 \in Nat
      OBVIOUS
    <3>c. y \in DropState /\ y.extra = 0 /\ y.claimed = x.claimed /\ y.told = x.told
      <4> HIDE DEF x, y
      <4> QED BY <3>a DEF DropState
    <3>1. /\ s[d] \in DropState /\ s[d].extra = 0
          /\ s[d].claimed = c.drops[d].claimed /\ s[d].told = c.drops[d].told
      BY <3>c
    <3> QED BY <2>5, <3>1
  <2> QED BY <2>4, <2>6, <2>7
<1> HIDE DEF s
<1>3. s \in [Drops -> DropState] /\ [c EXCEPT !.drops = s] \in Campaign
  <2>1. s \in [Drops -> DropState]
    BY <1>2 DEF s
  <2> QED BY <2>1 DEF Campaign
<1>4. [c EXCEPT !.drops = s].drops = s
  BY DEF Campaign
<1> QED BY <1>1, <1>2, <1>3, <1>4 DEF SameClaims, NoMore

LEMMA ObservedIs ==
    ASSUME NEW c \in Campaign, NEW d \in Drops, NEW minutes \in Nat
    PROVE  SameClaims(c, Observed(c, d, minutes)) /\ NoMore(c, Observed(c, d, minutes))
<1>1. c.drops[d].real \in Int /\ Needed[d] \in Nat
  BY DropsAssumption DEF Campaign, DropState
<1> QED BY <1>1, ShiftedIs DEF Observed

LEMMA BumpedIs ==
    ASSUME NEW c \in Campaign
    PROVE  SameClaims(c, Bumped(c))
<1> DEFINE
      Last(i) == CanEarn(c, Listed[i]) /\ c.drops[Listed[i]].extra + 1 >= MaxExtra
      Reached(i) == ~\E j \in 1..i - 1 : Last(j)
      s == [d \in Drops |->
              IF CanEarn(c, d) /\ \E i \in DOMAIN Listed : Listed[i] = d /\ Reached(i)
              THEN [c.drops[d] EXCEPT !.extra = c.drops[d].extra + 1] ELSE c.drops[d]]
<1>1. Bumped(c) = [c EXCEPT !.drops = s]
  BY DEF Bumped
<1>2. ASSUME NEW d \in Drops
      PROVE  /\ s[d] \in DropState /\ s[d].claimed = c.drops[d].claimed
             /\ s[d].told = c.drops[d].told
  <2>1. c.drops[d] \in DropState
    BY DEF Campaign
  <2>2. s[d] \in {c.drops[d], [c.drops[d] EXCEPT !.extra = c.drops[d].extra + 1]}
    OBVIOUS
  <2> HIDE DEF s
  <2> QED BY <2>1, <2>2 DEF DropState
<1>3. s \in [Drops -> DropState]
  <2>1. \A d \in Drops : s[d] \in DropState
    BY <1>2
  <2> QED BY <2>1
<1> HIDE DEF s
<1>4. [c EXCEPT !.drops = s] \in Campaign /\ [c EXCEPT !.drops = s].drops = s
  BY <1>3 DEF Campaign
<1> QED BY <1>1, <1>2, <1>4 DEF SameClaims

LEMMA ForgottenIs ==
    ASSUME NEW c \in Campaign
    PROVE  SameClaims(c, Forgotten(c))
<1> DEFINE s == [d \in Drops |-> [c.drops[d] EXCEPT !.real = 0, !.extra = 0,
                                                   !.claim_id = FALSE]]
<1>1. Forgotten(c) = [drops |-> s]
  BY DEF Forgotten
<1>2. ASSUME NEW d \in Drops
      PROVE  /\ s[d] \in DropState /\ s[d].claimed = c.drops[d].claimed
             /\ s[d].told = c.drops[d].told
  <2>1. c.drops[d] \in DropState
    BY DEF Campaign
  <2>2. s[d] = [c.drops[d] EXCEPT !.real = 0, !.extra = 0, !.claim_id = FALSE]
    OBVIOUS
  <2> HIDE DEF s
  <2> QED BY <2>1, <2>2, NoMinutes
<1>3. s \in [Drops -> DropState]
  BY <1>2
<1> HIDE DEF s
<1> QED BY <1>1, <1>2, <1>3 DEF SameClaims, Campaign

LEMMA FetchedIs ==
    ASSUME NEW inventory \in [Drops -> Counted]
    PROVE  LET c == [drops |-> [d \in Drops |-> Drop(d, inventory[d])]]
           IN  c \in Campaign /\ \A d \in Drops : c.drops[d].told = 0
<1>1. ASSUME NEW d \in Drops
      PROVE  Drop(d, inventory[d]) \in DropState /\ Drop(d, inventory[d]).told = 0
  BY DropsAssumption DEF Drop, DropState, Counted
<1>2. [d \in Drops |-> Drop(d, inventory[d])] \in [Drops -> DropState]
  BY <1>1
<1> QED BY <1>1, <1>2 DEF Campaign

\* A campaign in which one drop is another.
LEMMA DropSet ==
    ASSUME NEW c \in Campaign, NEW d \in Drops, NEW x \in DropState, NEW e,
           e = [c EXCEPT !.drops[d] = x]
    PROVE  /\ e \in Campaign /\ e.drops[d] = x
           /\ \A o \in Drops \ {d} : e.drops[o] = c.drops[o]
  BY DEF Campaign

\* The campaigns, one of which is another.
LEMMA CampSet ==
    ASSUME NEW cs \in Seq(Campaign), NEW g \in 1..Len(cs), NEW c \in Campaign, NEW r,
           r = [cs EXCEPT ![g] = c]
    PROVE  /\ r \in Seq(Campaign) /\ Len(r) = Len(cs) /\ r[g] = c
           /\ \A h \in 1..Len(cs) : h # g => r[h] = cs[h]
  OBVIOUS

LEMMA AllMinutesIs ==
    ASSUME NEW x \in DropState, NEW d \in Drops, NEW y, y = WithAllMinutes(x, d)
    PROVE  y \in DropState /\ y.extra = 0 /\ y.claimed = x.claimed /\ y.told = x.told
<1>1. Needed[d] \in Int
  BY DropsAssumption
<1> QED BY <1>1 DEF WithAllMinutes, DropState

LEMMA WithClaim ==
    ASSUME NEW x \in DropState, NEW y, y = [x EXCEPT !.claim_id = TRUE]
    PROVE  /\ y \in DropState /\ y.extra = x.extra
           /\ y.claimed = x.claimed /\ y.told = x.told
<1> DEFINE same == [real |-> x.real, extra |-> x.extra, claimed |-> x.claimed,
                    told |-> x.told, claim_id |-> x.claim_id]
<1>1. x = same
  BY FieldsOf, Zenon
<1>2. y = [real |-> x.real, extra |-> x.extra, claimed |-> x.claimed, told |-> x.told,
           claim_id |-> TRUE]
  BY <1>1
<1>3. /\ x.real \in Int /\ x.extra \in Nat /\ x.told \in Nat /\ x.claimed \in BOOLEAN
      /\ TRUE \in BOOLEAN
  BY FieldsOf, Zenon
<1>4. [real |-> x.real, extra |-> x.extra, claimed |-> x.claimed, told |-> x.told,
       claim_id |-> TRUE] \in DropState
  BY <1>3, DropIs, Zenon
<1>5. y.extra = x.extra /\ y.claimed = x.claimed /\ y.told = x.told
  BY DEF DropState
<1> QED BY <1>2, <1>4, <1>5, Zenon

LEMMA NowClaimed ==
    ASSUME NEW x \in DropState, NEW y, y = [x EXCEPT !.claimed = TRUE]
    PROVE  y \in DropState /\ y.extra = x.extra /\ y.claimed = TRUE /\ y.told = x.told
<1> DEFINE same == [real |-> x.real, extra |-> x.extra, claimed |-> x.claimed,
                    told |-> x.told, claim_id |-> x.claim_id]
<1>1. x = same
  BY FieldsOf, Zenon
<1>2. y = [real |-> x.real, extra |-> x.extra, claimed |-> TRUE, told |-> x.told,
           claim_id |-> x.claim_id]
  BY <1>1
<1>3. /\ x.real \in Int /\ x.extra \in Nat /\ x.told \in Nat /\ x.claim_id \in BOOLEAN
      /\ TRUE \in BOOLEAN
  BY FieldsOf, Zenon
<1>4. [real |-> x.real, extra |-> x.extra, claimed |-> TRUE, told |-> x.told,
       claim_id |-> x.claim_id] \in DropState
  BY <1>3, DropIs, Zenon
<1>5. y.extra = x.extra /\ y.claimed = TRUE /\ y.told = x.told
  BY <1>2
<1> QED BY <1>2, <1>4, <1>5, Zenon

LEMMA RecordedIs ==
    ASSUME NEW x \in DropState, NEW c \in Claim, NEW y, y = Recorded(x, c)
    PROVE  /\ y \in DropState /\ y.extra = 0 /\ y.claimed = x.claimed
           /\ y.told = x.told + IF c.pc = "telling" THEN 1 ELSE 0
<1> DEFINE w == WithAllMinutes(x, c.drop)
           n == x.told + IF c.pc = "telling" THEN 1 ELSE 0
<1>1. c.drop \in Drops /\ n \in Nat
  BY DEF Claim, DropState
<1>2. w \in DropState /\ w.extra = 0 /\ w.claimed = x.claimed /\ w.told = x.told
  BY <1>1, AllMinutesIs
<1>3. y = [w EXCEPT !.told = n]
  BY DEF Recorded
<1> HIDE DEF w, n
<1>4. y \in DropState /\ y.extra = w.extra /\ y.claimed = w.claimed /\ y.told = n
  BY <1>1, <1>2, <1>3 DEF DropState
<1> QED BY <1>2, <1>4 DEF n

\* The campaigns keep their claims.
Kept ==
    /\ now' = now /\ camps' \in Seq(Campaign)
    /\ \A g \in 1..now : SameClaims(camps[g], camps'[g])

\* No estimate is made for the present one.
Quiet == now' = now /\ now > 0 => NoMore(camps[now], camps'[now])

LEMMA SameIsKept ==
    ASSUME CampTypes, UNCHANGED camps
    PROVE  Kept /\ Quiet
<1>1. \A g \in 1..now : camps[g] \in Campaign
  BY DEF CampTypes, now
<1>2. \A g \in 1..now : \A d \in Drops : camps[g].drops[d].extra \in Nat
  BY <1>1 DEF Campaign, DropState
<1>3. now \in Nat
  BY DEF CampTypes, now
<1> QED BY <1>1, <1>2, <1>3 DEF CampTypes, Kept, Quiet, SameClaims, NoMore, now

LEMMA OneIsKept ==
    ASSUME CampTypes, now > 0, NEW c, SameClaims(camps[now], c),
           camps' = [camps EXCEPT ![now] = c]
    PROVE  Kept /\ camps'[now] = c
<1>1. now \in 1..Len(camps) /\ camps \in Seq(Campaign) /\ c \in Campaign
  BY DEF CampTypes, now, SameClaims
<1>2. /\ camps' \in Seq(Campaign) /\ Len(camps') = Len(camps) /\ camps'[now] = c
      /\ \A h \in 1..Len(camps) : h # now => camps'[h] = camps[h]
  BY <1>1, CampSet
<1>3. \A g \in 1..now : camps[g] \in Campaign
  BY <1>1 DEF now
<1>4. ASSUME NEW g \in 1..now
      PROVE  SameClaims(camps[g], camps'[g])
  <2>1. CASE g = now
    BY <1>2, <2>1
  <2>2. CASE g # now
    BY <1>2, <1>3, <2>2 DEF SameClaims, now
  <2> QED BY <2>1, <2>2
<1> QED BY <1>2, <1>4 DEF Kept, now

----------------------------------------------------------------------------
(* What each action does to the campaigns and the claims.                  *)

\* Claims are only added to those that tell, never among them.
FewerTell ==
    /\ claims' \subseteq Claim
    /\ \A c \in claims' : c.gen \in 1..now
    /\ \A c \in claims' : c.pc = "telling" => c \in claims

\* The claim of a drop of the present campaign, which may have got its claim_id before.
LEMMA StartClaimIs ==
    ASSUME Types, now > 0, NEW by \in {"message", "main"}, NEW d \in Drops,
           NEW c, SameClaims(camps[now], c), NoMore(camps[now], c), StartClaim(by, c, d)
    PROVE  Kept /\ Quiet /\ FewerTell
<1>1. CampTypes /\ now \in 1..now
  BY DEF Types, CampTypes, now
<1>2. c \in Campaign /\ c.drops[d] \in DropState
  BY DEF SameClaims, Campaign
<1>3. camps[now] \in Campaign
  BY <1>1 DEF CampTypes, now
<1>a. \A o \in Drops : camps[now].drops[o].extra \in Nat
  BY <1>3 DEF Campaign, DropState
<1>4. claims \subseteq Claim /\ \A e \in claims : e.gen \in 1..now
  BY DEF Types, ClaimTypes
<1>5. CASE c.drops[d].claimed
  <2> DEFINE x == WithAllMinutes(c.drops[d], d)
             e == [c EXCEPT !.drops[d] = x]
  <2>1. camps' = [camps EXCEPT ![now] = e] /\ claims' = claims
    BY <1>5 DEF StartClaim
  <2>2. /\ x \in DropState /\ x.extra = 0 /\ x.claimed = c.drops[d].claimed
        /\ x.told = c.drops[d].told
    BY <1>2, AllMinutesIs
  <2> HIDE DEF x
  <2>3. /\ e \in Campaign /\ e.drops[d] = x
        /\ \A o \in Drops \ {d} : e.drops[o] = c.drops[o]
    BY <1>2, <2>2, DropSet
  <2> HIDE DEF e
  <2>4. SameClaims(camps[now], e)
    BY <2>2, <2>3 DEF SameClaims
  <2>5. NoMore(camps[now], e)
    BY <1>a, <2>2, <2>3 DEF NoMore
  <2>6. Kept /\ camps'[now] = e
    BY <1>1, <2>1, <2>4, OneIsKept
  <2>7. Quiet
    BY <2>5, <2>6 DEF Quiet
  <2>8. FewerTell
    BY <1>4, <2>1 DEF FewerTell
  <2> QED BY <2>6, <2>7, <2>8
<1>6. CASE ~c.drops[d].claimed
  <2> DEFINE new == [by |-> by, gen |-> now, drop |-> d, pc |-> "asked", ok |-> FALSE]
  <2>1. camps' = [camps EXCEPT ![now] = c] /\ claims' \subseteq claims \cup {new}
    BY <1>6 DEF StartClaim
  <2>2. Kept /\ camps'[now] = c
    BY <1>1, <2>1, OneIsKept
  <2>3. Quiet
    BY <2>2 DEF Quiet
  <2>4. new \in Claim /\ new.gen = now /\ new.pc = "asked"
    <3>1. now \in Nat /\ FALSE \in BOOLEAN
      BY <1>1 DEF CampTypes, now
    <3> QED BY <3>1 DEF Claim
  <2> HIDE DEF new
  <2>5. FewerTell
    BY <1>1, <1>4, <2>1, <2>4 DEF FewerTell
  <2> QED BY <2>2, <2>3, <2>5
<1> QED BY <1>5, <1>6

LEMMA Present ==
    ASSUME Types, now > 0
    PROVE  camps[now] \in Campaign /\ now \in 1..now /\ SameClaims(camps[now], camps[now])
           /\ NoMore(camps[now], camps[now])
<1>1. camps[now] \in Campaign /\ now \in 1..now
  BY DEF Types, CampTypes, now
<1>2. \A o \in Drops : camps[now].drops[o].extra \in Nat
  BY <1>1 DEF Campaign, DropState
<1> QED BY <1>1, <1>2 DEF SameClaims, NoMore

LEMMA SameTells ==
    ASSUME Types, UNCHANGED claims
    PROVE  FewerTell
  BY DEF Types, ClaimTypes, FewerTell

\* A message.
LEMMA HeadIs ==
    ASSUME Types, Mail
    PROVE  /\ Head(mail) \in Mails /\ mail' \in Seq(Mails)
           /\ Head(mail) = mail[1] /\ 1 \in 1..Len(mail)
           /\ \A i \in 1..Len(mail') : mail'[i] = mail[i + 1] /\ i + 1 \in 1..Len(mail)
  BY DEF Types, WorldTypes, Mail

LEMMA ProgressKeeps ==
    ASSUME Types, Progress
    PROVE  Kept /\ Quiet /\ FewerTell
<1> DEFINE m == Head(mail)
<1>1. FewerTell
  BY SameTells DEF Progress
<1>2. m.drop \in Drops /\ m.minutes \in Nat
  BY HeadIs DEF Progress, Mails
<1> HIDE DEF m
<1>3. CASE now > 0 /\ CanEarn(camps[now], m.drop)
  <2>1. camps' = [camps EXCEPT ![now] = Observed(camps[now], m.drop, m.minutes)]
    BY <1>3 DEF Progress, m
  <2>2. /\ SameClaims(camps[now], Observed(camps[now], m.drop, m.minutes))
        /\ NoMore(camps[now], Observed(camps[now], m.drop, m.minutes))
    BY <1>2, <1>3, Present, ObservedIs
  <2>3. Kept /\ camps'[now] = Observed(camps[now], m.drop, m.minutes)
    BY <1>3, <2>1, <2>2, OneIsKept DEF Types
  <2> QED BY <1>1, <2>2, <2>3 DEF Quiet
<1>4. CASE ~(now > 0 /\ CanEarn(camps[now], m.drop))
  <2>1. UNCHANGED camps
    BY <1>4 DEF Progress, m
  <2> QED BY <1>1, <2>1, SameIsKept DEF Types
<1> QED BY <1>3, <1>4

LEMMA ClaimAnnouncedKeeps ==
    ASSUME Types, ClaimAnnounced
    PROVE  Kept /\ Quiet /\ FewerTell
<1> DEFINE m == Head(mail)
<1>1. m.drop \in Drops
  BY HeadIs DEF ClaimAnnounced, Mails
<1>2. CASE now = 0
  <2>1. UNCHANGED <<camps, claims>>
    BY <1>2 DEF ClaimAnnounced
  <2> QED BY <2>1, SameTells, SameIsKept DEF Types
<1>3. CASE now # 0
  <2> DEFINE c == [camps[now] EXCEPT !.drops[m.drop].claim_id = TRUE]
             x == [camps[now].drops[m.drop] EXCEPT !.claim_id = TRUE]
  <2>1. StartClaim("message", c, m.drop)
    BY <1>3 DEF ClaimAnnounced
  <2>2. now > 0 /\ camps[now] \in Campaign
    BY <1>3, Present DEF Types, CampTypes, now
  <2>3. camps[now].drops[m.drop] \in DropState
    BY <1>1, <2>2 DEF Campaign
  <2>4. /\ x \in DropState /\ x.extra = camps[now].drops[m.drop].extra
        /\ x.claimed = camps[now].drops[m.drop].claimed
        /\ x.told = camps[now].drops[m.drop].told
    BY <2>3, WithClaim
  <2>5. c = [camps[now] EXCEPT !.drops[m.drop] = x]
    OBVIOUS
  <2> HIDE DEF x, m
  <2>6. /\ c \in Campaign /\ c.drops[m.drop] = x
        /\ \A o \in Drops \ {m.drop} : c.drops[o] = camps[now].drops[o]
    <3> HIDE DEF c
    <3> QED BY <1>1, <2>2, <2>4, <2>5 DEF Campaign
  <2> HIDE DEF c
  <2>7. SameClaims(camps[now], c)
    BY <2>4, <2>6 DEF SameClaims
  <2>8. NoMore(camps[now], c)
    BY <2>2, <2>4, <2>6, Present DEF NoMore
  <2> QED BY <1>1, <2>1, <2>2, <2>7, <2>8, StartClaimIs
<1> QED BY <1>2, <1>3

LEMMA MainClaimsKeeps ==
    ASSUME Types, MainClaims
    PROVE  Kept /\ Quiet /\ FewerTell
<1>1. CASE UNCHANGED <<camps, claims>>
  BY <1>1, SameTells, SameIsKept DEF Types
<1>2. CASE ~UNCHANGED <<camps, claims>>
  <2>1. PICK i \in main.from..Len(Listed) :
             StartClaim("main", camps[now], Listed[i]) /\ main.from \in 1..Len(Listed) + 1
    BY <1>2 DEF MainClaims, Types, MainTypes
  <2>2. Listed[i] \in Drops
    BY <2>1, DropsAssumption
  <2>3. now > 0
    BY DEF MainClaims, Types, MainTypes
  <2> QED BY <2>1, <2>2, <2>3, Present, StartClaimIs
<1> QED BY <1>1, <1>2

LEMMA PollAppliesKeeps ==
    ASSUME Types, PollApplies
    PROVE  Kept /\ Quiet /\ FewerTell
<1>1. FewerTell
  BY SameTells DEF PollApplies
<1>2. now > 0 /\ poll.pc = "answered" /\ poll.drop # "none"
  BY DEF PollApplies, PollEnds, Answers
<1>3. poll.drop \in Drops /\ poll.minutes \in Nat
  BY <1>2 DEF Types, WorldTypes, PollState
<1>4. camps' = [camps EXCEPT ![now] = Observed(camps[now], poll.drop, poll.minutes)]
  BY DEF PollApplies
<1>5. /\ SameClaims(camps[now], Observed(camps[now], poll.drop, poll.minutes))
      /\ NoMore(camps[now], Observed(camps[now], poll.drop, poll.minutes))
  BY <1>2, <1>3, Present, ObservedIs
<1>6. Kept /\ camps'[now] = Observed(camps[now], poll.drop, poll.minutes)
  BY <1>2, <1>4, <1>5, OneIsKept DEF Types
<1> QED BY <1>1, <1>5, <1>6 DEF Quiet

LEMMA PollEstimatesKeeps ==
    ASSUME Types, PollEstimates
    PROVE  Kept /\ FewerTell
<1>1. FewerTell
  BY SameTells DEF PollEstimates
<1>2. now > 0 /\ camps' = [camps EXCEPT ![now] = Bumped(camps[now])]
  BY DEF PollEstimates
<1>3. SameClaims(camps[now], Bumped(camps[now]))
  BY <1>2, Present, BumpedIs
<1> QED BY <1>1, <1>2, <1>3, OneIsKept DEF Types

\* The claims under way belong to campaigns there are.
LEMMA ClaimIs ==
    ASSUME Types, NEW c \in claims
    PROVE  /\ c \in Claim /\ c.gen \in 1..now /\ c.drop \in Drops
           /\ camps[c.gen] \in Campaign /\ camps[c.gen].drops[c.drop] \in DropState
<1>1. c \in Claim /\ c.gen \in 1..now
  BY DEF Types, ClaimTypes
<1>2. c.drop \in Drops
  BY <1>1 DEF Claim
<1>3. camps[c.gen] \in Campaign
  BY <1>1 DEF Types, CampTypes, now
<1>4. camps[c.gen].drops[c.drop] \in DropState
  BY <1>2, <1>3 DEF Campaign
<1> QED BY <1>1, <1>2, <1>3, <1>4

\* The campaigns CS with another drop in one of them.
With(cs, g, d, x) == [cs EXCEPT ![g] = [cs[g] EXCEPT !.drops[d] = x]]

\* R are the campaigns CS but for this drop.
IsWith(r, cs, g, d, x) ==
    /\ r \in Seq(Campaign) /\ Len(r) = Len(cs) /\ r[g].drops[d] = x
    /\ \A h \in 1..Len(cs) : \A o \in Drops :
          ~(h = g /\ o = d) => r[h].drops[o] = cs[h].drops[o]

LEMMA CampDropSet ==
    ASSUME NEW cs \in Seq(Campaign), NEW g \in 1..Len(cs), NEW d \in Drops,
           NEW x \in DropState
    PROVE  IsWith(With(cs, g, d, x), cs, g, d, x)
<1> DEFINE r == With(cs, g, d, x)
           c == cs[g]
           e == [c EXCEPT !.drops[d] = x]
<1>1. c \in Campaign
  OBVIOUS
<1> HIDE DEF c
<1>2. /\ e \in Campaign /\ e.drops[d] = x
      /\ \A o \in Drops \ {d} : e.drops[o] = c.drops[o]
  BY <1>1 DEF Campaign
<1>3. r = [cs EXCEPT ![g] = e]
  BY DEF c, With
<1> HIDE DEF e, r
<1>4. /\ r \in Seq(Campaign) /\ Len(r) = Len(cs) /\ r[g] = e
      /\ \A h \in 1..Len(cs) : h # g => r[h] = cs[h]
  BY <1>2, <1>3
<1> QED BY <1>2, <1>4 DEF c, r, IsWith

\* Of all drops only D of campaign G is another, and that is claimed or told.
OnlyDrop(g, d) ==
    /\ now' = now /\ camps' \in Seq(Campaign)
    /\ \A h \in 1..now : \A o \in Drops :
          ~(h = g /\ o = d) => camps'[h].drops[o] = camps[h].drops[o]

LEMMA ClaimAnsweredIs ==
    ASSUME Types, NEW c \in claims, ClaimAnswered(c)
    PROVE  /\ OnlyDrop(c.gen, c.drop) /\ Quiet
           /\ camps'[c.gen].drops[c.drop].claimed
           /\ camps'[c.gen].drops[c.drop].told = camps[c.gen].drops[c.drop].told
<1> DEFINE g == c.gen
           d == c.drop
           x == camps[g].drops[d]
           y == [x EXCEPT !.claimed = TRUE]
<1>1. /\ camps \in Seq(Campaign) /\ g \in 1..Len(camps) /\ d \in Drops
      /\ x \in DropState
  BY ClaimIs DEF Types, CampTypes, now
<1>2. camps' = With(camps, g, d, y)
  BY DEF ClaimAnswered, With
<1>3. y \in DropState /\ y.extra = x.extra /\ y.claimed = TRUE /\ y.told = x.told
  BY <1>1, NowClaimed
<1> HIDE DEF y
<1>a. IsWith(camps', camps, g, d, y)
  <2>1. IsWith(With(camps, g, d, y), camps, g, d, y)
    BY <1>1, <1>3, CampDropSet, Zenon
  <2> QED BY <1>2, <2>1
<1>4. /\ camps' \in Seq(Campaign) /\ Len(camps') = Len(camps) /\ camps'[g].drops[d] = y
      /\ \A h \in 1..Len(camps) : \A o \in Drops :
            ~(h = g /\ o = d) => camps'[h].drops[o] = camps[h].drops[o]
  BY <1>a DEF IsWith
<1>5. OnlyDrop(g, d)
  BY <1>4 DEF OnlyDrop, now
<1>6. Quiet
  <2> SUFFICES ASSUME now > 0
               PROVE  NoMore(camps[now], camps'[now])
    BY DEF Quiet
  <2>1. \A o \in Drops : camps[now].drops[o].extra \in Nat
    BY Present DEF Campaign, DropState
  <2>2. \A o \in Drops : camps'[now].drops[o].extra = camps[now].drops[o].extra
    BY <1>3, <1>4, Present DEF now
  <2> QED BY <2>1, <2>2 DEF NoMore
<1> QED BY <1>3, <1>4, <1>5, <1>6

LEMMA ClaimRecordedIs ==
    ASSUME Types, NEW c \in claims, ClaimRecorded(c)
    PROVE  /\ OnlyDrop(c.gen, c.drop) /\ Quiet
           /\ camps'[c.gen].drops[c.drop].claimed = camps[c.gen].drops[c.drop].claimed
           /\ camps'[c.gen].drops[c.drop].told
                 = camps[c.gen].drops[c.drop].told + IF c.pc = "telling" THEN 1 ELSE 0
<1> DEFINE g == c.gen
           d == c.drop
           x == camps[g].drops[d]
           y == Recorded(x, c)
<1>1. /\ camps \in Seq(Campaign) /\ g \in 1..Len(camps) /\ d \in Drops
      /\ x \in DropState /\ c \in Claim
  BY ClaimIs DEF Types, CampTypes, now
<1>2. camps' = With(camps, g, d, y)
  BY DEF ClaimRecorded, With
<1>3. /\ y \in DropState /\ y.extra = 0 /\ y.claimed = x.claimed
      /\ y.told = x.told + IF c.pc = "telling" THEN 1 ELSE 0
  BY <1>1, RecordedIs
<1> HIDE DEF y
<1>a. IsWith(camps', camps, g, d, y)
  <2>1. IsWith(With(camps, g, d, y), camps, g, d, y)
    BY <1>1, <1>3, CampDropSet, Zenon
  <2> QED BY <1>2, <2>1
<1>4. /\ camps' \in Seq(Campaign) /\ Len(camps') = Len(camps) /\ camps'[g].drops[d] = y
      /\ \A h \in 1..Len(camps) : \A o \in Drops :
            ~(h = g /\ o = d) => camps'[h].drops[o] = camps[h].drops[o]
  BY <1>a DEF IsWith
<1>5. OnlyDrop(g, d)
  BY <1>4 DEF OnlyDrop, now
<1>6. Quiet
  <2> SUFFICES ASSUME now > 0
               PROVE  NoMore(camps[now], camps'[now])
    BY DEF Quiet
  <2>1. \A o \in Drops : camps[now].drops[o].extra \in Nat
    BY Present DEF Campaign, DropState
  <2>2. \A o \in Drops : camps'[now].drops[o].extra \in {0, camps[now].drops[o].extra}
    BY <1>3, <1>4, Present DEF now
  <2> QED BY <2>1, <2>2 DEF NoMore
<1> QED BY <1>3, <1>4, <1>5, <1>6

\* A fetch adds a campaign nobody was told about; of the others the claims are kept.
LEMMA FetchEndsIs ==
    ASSUME Types, FetchEnds
    PROVE  /\ now' = now + 1 /\ camps' \in Seq(Campaign)
           /\ \A g \in 1..now : SameClaims(camps[g], camps'[g])
           /\ \A d \in Drops : camps'[now'].drops[d].told = 0
<1> DEFINE old == [g \in DOMAIN camps |-> Forgotten(camps[g])]
           new == [drops |-> [d \in Drops |-> Drop(d, main.inventory[d])]]
<1>1. camps' = Append(old, new)
  BY DEF FetchEnds
<1>2. main.inventory \in [Drops -> Counted]
  BY DEF FetchEnds, Types, WorldTypes, MainState
<1>3. new \in Campaign /\ \A d \in Drops : new.drops[d].told = 0
  BY <1>2, FetchedIs
<1> HIDE DEF new
<1>4. \A g \in 1..Len(camps) : SameClaims(camps[g], Forgotten(camps[g]))
  BY ForgottenIs DEF Types, CampTypes
<1>5. /\ old \in Seq(Campaign) /\ Len(old) = Len(camps)
      /\ \A g \in 1..Len(camps) : SameClaims(camps[g], old[g])
  <2>1. camps \in Seq(Campaign)
    BY DEF Types, CampTypes
  <2>2. \A g \in 1..Len(camps) : Forgotten(camps[g]) \in Campaign
    BY <1>4 DEF SameClaims
  <2>3. DOMAIN camps = 1..Len(camps) /\ Len(camps) \in Nat
    BY <2>1
  <2>4. old \in Seq(Campaign) /\ Len(old) = Len(camps)
    <3>1. old \in [1..Len(camps) -> Campaign]
      BY <2>2, <2>3
    <3> QED BY <3>1, <2>3
  <2> QED BY <1>4, <2>3, <2>4
<1> HIDE DEF old
<1>6. /\ camps' \in Seq(Campaign) /\ Len(camps') = Len(camps) + 1
      /\ camps'[Len(camps) + 1] = new
      /\ \A g \in 1..Len(camps) : camps'[g] = old[g]
  BY <1>1, <1>3, <1>5
<1> QED BY <1>3, <1>5, <1>6 DEF now

\* A claim that tells is a claim of the same drop.
LEMMA NowTelling ==
    ASSUME NEW c \in Claim, NEW e, e = [c EXCEPT !.pc = "telling"]
    PROVE  e \in Claim /\ e.gen = c.gen /\ e.drop = c.drop /\ e.pc = "telling"
  BY DEF Claim

LEMMA ClaimGrantedKeeps ==
    ASSUME Types, NEW c \in claims, ClaimGranted(c)
    PROVE  Kept /\ Quiet /\ FewerTell
<1>1. Kept /\ Quiet
  BY SameIsKept DEF ClaimGranted, Types
<1>a. \A k \in {Complete(c.drop), FALSE} : k \in BOOLEAN
  BY DEF Complete
<1>2. PICK ok \in BOOLEAN : claims' = (claims \ {c}) \cup {[c EXCEPT !.pc = "answered",
                                                                   !.ok = ok]}
  BY <1>a, Zenon DEF ClaimGranted
<1> DEFINE e == [c EXCEPT !.pc = "answered", !.ok = ok]
<1>b. c \in Claim /\ c.gen \in 1..now /\ "answered" \in {"asked", "answered", "telling"}
  BY ClaimIs
<1>3. e \in Claim /\ e.gen \in 1..now /\ e.pc = "answered"
  <2>1. e \in Claim /\ e.gen = c.gen /\ e.pc = "answered"
    BY <1>b DEF Claim
  <2> QED BY <1>b, <2>1
<1> HIDE DEF e
<1>4. claims' = (claims \ {c}) \cup {e}
  BY <1>2 DEF e
<1> QED BY <1>1, <1>3, <1>4 DEF FewerTell, Types, ClaimTypes

LEMMA ClaimFailedKeeps ==
    ASSUME Types, NEW c \in claims, ClaimFailed(c)
    PROVE  Kept /\ Quiet /\ FewerTell
<1>1. Kept /\ Quiet
  BY SameIsKept DEF ClaimFailed, Types
<1> QED BY <1>1 DEF ClaimFailed, Ended, FewerTell, Types, ClaimTypes

\* Every step that keeps the claims of the campaigns, and adds none that tells.
Keeping ==
    \/ Minute \/ Progress \/ ClaimAnnounced
    \/ FetchAnswered \/ GamesUpdate \/ MainClaims
    \/ PollSent \/ PollAnswered \/ PollApplies \/ PollEstimates \/ PollDropped
    \/ \E c \in claims : ClaimGranted(c) \/ ClaimFailed(c)
    \/ UNCHANGED vars

LEMMA KeepingKeeps ==
    ASSUME Types, Keeping
    PROVE  Kept /\ FewerTell /\ UNCHANGED history
<1> USE DEF Types
<1>1. CASE Minute
  BY <1>1, SameIsKept, SameTells DEF Minute, memory
<1>2. CASE Progress
  BY <1>2, ProgressKeeps DEF Progress
<1>3. CASE ClaimAnnounced
  BY <1>3, ClaimAnnouncedKeeps DEF ClaimAnnounced
<1>4. CASE FetchAnswered
  BY <1>4, SameIsKept, SameTells DEF FetchAnswered
<1>5. CASE GamesUpdate
  BY <1>5, SameIsKept, SameTells DEF GamesUpdate
<1>6. CASE MainClaims
  BY <1>6, MainClaimsKeeps DEF MainClaims
<1>7. CASE PollSent
  BY <1>7, SameIsKept, SameTells DEF PollSent
<1>8. CASE PollAnswered
  BY <1>8, SameIsKept, SameTells DEF PollAnswered
<1>9. CASE PollApplies
  BY <1>9, PollAppliesKeeps DEF PollApplies
<1>10. CASE PollEstimates
  BY <1>10, PollEstimatesKeeps DEF PollEstimates
<1>11. CASE PollDropped
  BY <1>11, SameIsKept, SameTells DEF PollDropped
<1>12. CASE \E c \in claims : ClaimGranted(c)
  BY <1>12, ClaimGrantedKeeps DEF ClaimGranted
<1>13. CASE \E c \in claims : ClaimFailed(c)
  BY <1>13, ClaimFailedKeeps DEF ClaimFailed
<1>14. CASE UNCHANGED vars
  BY <1>14, SameIsKept, SameTells DEF vars, memory
<1> QED BY <1>1, <1>2, <1>3, <1>4, <1>5, <1>6, <1>7, <1>8, <1>9, <1>10, <1>11, <1>12,
           <1>13, <1>14 DEF Keeping

LEMMA StepIs ==
    ASSUME [Next]_vars
    PROVE  \/ Keeping \/ FetchEnds
           \/ \E c \in claims : ClaimAnswered(c) \/ ClaimRecorded(c)
  BY DEF Next, Keeping

----------------------------------------------------------------------------
(* The invariant that each drop is claimed once.                           *)

LEMMA RecordIs ==
    ASSUME NEW d \in Drops, history \in Seq(Drops), Record(d)
    PROVE  /\ history' \in Seq(Drops) /\ Known(d)'
           /\ \A e \in Drops : Known(e) => Known(e)'
           /\ (\A i, j \in 1..Len(history) : history[i] = history[j] => i = j)
              => \A i, j \in 1..Len(history') : history'[i] = history'[j] => i = j
<1>1. CASE Known(d)
  <2>1. history' = history
    BY <1>1 DEF Record, Known
  <2> QED BY <1>1, <2>1 DEF Known
<1>2. CASE ~Known(d)
  <2>1. history' = Append(history, d)
    BY <1>2 DEF Record, Known
  <2>2. /\ history' \in Seq(Drops) /\ Len(history') = Len(history) + 1
        /\ history'[Len(history) + 1] = d
        /\ \A i \in 1..Len(history) : history'[i] = history[i]
    BY <2>1
  <2>3. Len(history) \in Nat
    OBVIOUS
  <2>4. Known(d)' /\ \A e \in Drops : Known(e) => Known(e)'
    BY <2>2, <2>3 DEF Known
  <2>5. \A i \in 1..Len(history) : history[i] # d
    BY <1>2 DEF Known
  <2> QED BY <2>2, <2>3, <2>4, <2>5
<1> QED BY <1>1, <1>2

LEMMA KeepingOnce ==
    ASSUME Types, OnceInv, Keeping
    PROVE  OnceInv'
<1>1. /\ now' = now /\ UNCHANGED history
      /\ \A g \in 1..now : SameClaims(camps[g], camps'[g])
      /\ \A c \in claims' : c.gen \in 1..now /\ c \in Claim
      /\ \A c \in claims' : c.pc = "telling" => c \in claims
  BY KeepingKeeps DEF Kept, FewerTell
<1>2. \A d \in Drops : Known(d)' <=> Known(d)
  BY <1>1 DEF Known
<1>3. \A c \in claims' : c.drop \in Drops
  BY <1>1 DEF Claim
<1>4. \A g \in 1..now : \A d \in Drops :
         /\ camps'[g].drops[d].claimed = camps[g].drops[d].claimed
         /\ camps'[g].drops[d].told = camps[g].drops[d].told
  BY <1>1 DEF SameClaims
<1>5. ASSUME NEW g \in 1..now', NEW d \in Drops
      PROVE  /\ camps'[g].drops[d].told <= 1
             /\ camps'[g].drops[d].told = 1 =>
                   /\ camps'[g].drops[d].claimed /\ Known(d)'
                   /\ \A c \in claims' : ~(c.pc = "telling" /\ c.gen = g /\ c.drop = d)
  <2>1. /\ camps[g].drops[d].told <= 1
        /\ camps[g].drops[d].told = 1 =>
              /\ camps[g].drops[d].claimed /\ Known(d)
              /\ \A c \in claims : ~(c.pc = "telling" /\ c.gen = g /\ c.drop = d)
    BY <1>1 DEF OnceInv
  <2>2. /\ camps'[g].drops[d].claimed = camps[g].drops[d].claimed
        /\ camps'[g].drops[d].told = camps[g].drops[d].told
    BY <1>1, <1>4
  <2> QED BY <1>1, <1>2, <2>1, <2>2
<1>6. ASSUME NEW c \in claims', c.pc = "telling"
      PROVE  camps'[c.gen].drops[c.drop].claimed /\ camps'[c.gen].drops[c.drop].told = 0
  <2>1. c \in claims /\ c.gen \in 1..now /\ c.drop \in Drops
    BY <1>1, <1>3, <1>6
  <2>2. camps[c.gen].drops[c.drop].claimed /\ camps[c.gen].drops[c.drop].told = 0
    BY <1>6, <2>1 DEF OnceInv
  <2> QED BY <1>4, <2>1, <2>2
<1>7. \A c, e \in claims' :
         c.pc = "telling" /\ e.pc = "telling" /\ c.gen = e.gen /\ c.drop = e.drop => c = e
  BY <1>1 DEF OnceInv
<1>8. \A i, j \in 1..Len(history') : history'[i] = history'[j] => i = j
  BY <1>1 DEF OnceInv
<1> QED BY <1>5, <1>6, <1>7, <1>8 DEF OnceInv

\* The claim that finds its drop unclaimed: nobody has told of it or is about to.
LEMMA ClaimAnsweredOnce ==
    ASSUME Types, OnceInv, NEW c \in claims, ClaimAnswered(c)
    PROVE  OnceInv'
<1> DEFINE g == c.gen
           d == c.drop
           t == [c EXCEPT !.pc = "telling"]
<1>1. /\ c \in Claim /\ g \in 1..now /\ d \in Drops
      /\ camps[g].drops[d].told \in Nat
  BY ClaimIs DEF DropState
<1>2. ~camps[g].drops[d].claimed /\ UNCHANGED history
      /\ claims' = (claims \ {c}) \cup {t}
  BY DEF ClaimAnswered, TellFirst
<1>3. t.gen = g /\ t.drop = d /\ t.pc = "telling"
  BY <1>1, NowTelling, Zenon
<1> HIDE DEF t
<1>4. camps[g].drops[d].told = 0
  BY <1>1, <1>2 DEF OnceInv
<1>5. \A e \in claims : ~(e.pc = "telling" /\ e.gen = g /\ e.drop = d)
  BY <1>2 DEF OnceInv
<1>6. /\ now' = now /\ camps'[g].drops[d].claimed /\ camps'[g].drops[d].told = 0
      /\ \A h \in 1..now : \A o \in Drops :
            ~(h = g /\ o = d) => camps'[h].drops[o] = camps[h].drops[o]
  BY <1>4, ClaimAnsweredIs DEF OnlyDrop
<1>7. \A o \in Drops : Known(o)' <=> Known(o)
  BY <1>2 DEF Known
<1>8. \A e \in claims' : e.pc = "telling" => e = t \/ (e \in claims /\ ~(e.gen = g /\ e.drop = d))
  BY <1>2, <1>5
<1>9. ASSUME NEW h \in 1..now, NEW o \in Drops
      PROVE  /\ camps'[h].drops[o].told <= 1
             /\ camps'[h].drops[o].told = 1 =>
                   /\ camps'[h].drops[o].claimed /\ Known(o)'
                   /\ \A e \in claims' : ~(e.pc = "telling" /\ e.gen = h /\ e.drop = o)
  <2>1. CASE h = g /\ o = d
    BY <1>6, <2>1
  <2>2. CASE ~(h = g /\ o = d)
    <3>1. camps'[h].drops[o] = camps[h].drops[o]
      BY <1>6, <2>2
    <3>2. \A e \in claims' : e.pc = "telling" /\ e.gen = h /\ e.drop = o => e \in claims
      BY <1>3, <1>8, <2>2
    <3> QED BY <1>7, <3>1, <3>2 DEF OnceInv
  <2> QED BY <2>1, <2>2
<1>10. ASSUME NEW e \in claims', e.pc = "telling"
       PROVE  camps'[e.gen].drops[e.drop].claimed /\ camps'[e.gen].drops[e.drop].told = 0
  <2>1. CASE e = t
    BY <1>3, <1>6, <2>1
  <2>2. CASE e # t
    <3>1. e \in claims /\ ~(e.gen = g /\ e.drop = d)
      BY <1>8, <1>10, <2>2
    <3>2. e.gen \in 1..now /\ e.drop \in Drops
      BY <3>1, ClaimIs
    <3>3. camps'[e.gen].drops[e.drop] = camps[e.gen].drops[e.drop]
      BY <1>6, <3>1, <3>2
    <3> QED BY <1>10, <3>1, <3>3 DEF OnceInv
  <2> QED BY <2>1, <2>2
<1>11. ASSUME NEW e \in claims', NEW f \in claims',
              e.pc = "telling", f.pc = "telling", e.gen = f.gen, e.drop = f.drop
       PROVE  e = f
  BY <1>3, <1>8, <1>11 DEF OnceInv
<1>12. \A i, j \in 1..Len(history') : history'[i] = history'[j] => i = j
  BY <1>2 DEF OnceInv
<1> QED BY <1>6, <1>9, <1>10, <1>11, <1>12 DEF OnceInv

\* The end of a claim, which tells if it was the one.
LEMMA ClaimRecordedOnce ==
    ASSUME Types, OnceInv, NEW c \in claims, ClaimRecorded(c)
    PROVE  OnceInv'
<1> DEFINE g == c.gen
           d == c.drop
<1>1. /\ c \in Claim /\ g \in 1..now /\ d \in Drops
      /\ camps[g].drops[d].told \in Nat
  BY ClaimIs DEF DropState
<1>2. claims' = claims \ {c} /\ Record(d)
  BY DEF ClaimRecorded, Ended
<1>3. /\ Known(d)' /\ \A e \in Drops : Known(e) => Known(e)'
      /\ \A i, j \in 1..Len(history') : history'[i] = history'[j] => i = j
  BY <1>1, <1>2, RecordIs DEF Types, ClaimTypes, OnceInv
<1>4. /\ now' = now /\ camps'[g].drops[d].claimed = camps[g].drops[d].claimed
      /\ camps'[g].drops[d].told = camps[g].drops[d].told
                                   + IF c.pc = "telling" THEN 1 ELSE 0
      /\ \A h \in 1..now : \A o \in Drops :
            ~(h = g /\ o = d) => camps'[h].drops[o] = camps[h].drops[o]
  BY ClaimRecordedIs DEF OnlyDrop
<1>5. CASE c.pc = "telling"
  <2>1. camps[g].drops[d].claimed /\ camps[g].drops[d].told = 0
    BY <1>5 DEF OnceInv
  <2>2. camps'[g].drops[d].claimed /\ camps'[g].drops[d].told = 1
    BY <1>4, <1>5, <2>1
  <2>3. \A e \in claims' : ~(e.pc = "telling" /\ e.gen = g /\ e.drop = d)
    BY <1>2, <1>5 DEF OnceInv
  <2>4. ASSUME NEW h \in 1..now, NEW o \in Drops
        PROVE  /\ camps'[h].drops[o].told <= 1
               /\ camps'[h].drops[o].told = 1 =>
                     /\ camps'[h].drops[o].claimed /\ Known(o)'
                     /\ \A e \in claims' : ~(e.pc = "telling" /\ e.gen = h /\ e.drop = o)
    <3>1. CASE h = g /\ o = d
      BY <1>3, <2>2, <2>3, <3>1
    <3>2. CASE ~(h = g /\ o = d)
      <4>1. camps'[h].drops[o] = camps[h].drops[o]
        BY <1>4, <3>2
      <4> QED BY <1>2, <1>3, <4>1 DEF OnceInv
    <3> QED BY <3>1, <3>2
  <2>5. ASSUME NEW e \in claims', e.pc = "telling"
        PROVE  camps'[e.gen].drops[e.drop].claimed /\ camps'[e.gen].drops[e.drop].told = 0
    <3>1. e \in claims /\ ~(e.gen = g /\ e.drop = d)
      BY <1>2, <2>3, <2>5
    <3>2. camps'[e.gen].drops[e.drop] = camps[e.gen].drops[e.drop]
      BY <1>4, <3>1, ClaimIs
    <3> QED BY <2>5, <3>1, <3>2 DEF OnceInv
  <2>6. \A e, f \in claims' :
           e.pc = "telling" /\ f.pc = "telling" /\ e.gen = f.gen /\ e.drop = f.drop => e = f
    BY <1>2 DEF OnceInv
  <2> QED BY <1>3, <1>4, <2>4, <2>5, <2>6 DEF OnceInv
<1>6. CASE c.pc # "telling"
  <2>1. \A h \in 1..now : \A o \in Drops :
           /\ camps'[h].drops[o].claimed = camps[h].drops[o].claimed
           /\ camps'[h].drops[o].told = camps[h].drops[o].told
    BY <1>1, <1>4, <1>6
  <2>2. \A e \in claims' : e \in claims /\ e.gen \in 1..now /\ e.drop \in Drops
    BY <1>2, ClaimIs
  <2>3. ASSUME NEW h \in 1..now, NEW o \in Drops
        PROVE  /\ camps'[h].drops[o].told <= 1
               /\ camps'[h].drops[o].told = 1 =>
                     /\ camps'[h].drops[o].claimed /\ Known(o)'
                     /\ \A e \in claims' : ~(e.pc = "telling" /\ e.gen = h /\ e.drop = o)
    BY <1>3, <2>1, <2>2 DEF OnceInv
  <2>4. ASSUME NEW e \in claims', e.pc = "telling"
        PROVE  camps'[e.gen].drops[e.drop].claimed /\ camps'[e.gen].drops[e.drop].told = 0
    <3>1. e \in claims /\ e.gen \in 1..now /\ e.drop \in Drops
      BY <2>2
    <3>2. camps[e.gen].drops[e.drop].claimed /\ camps[e.gen].drops[e.drop].told = 0
      BY <2>4, <3>1 DEF OnceInv
    <3> QED BY <2>1, <3>1, <3>2
  <2>5. \A e, f \in claims' :
           e.pc = "telling" /\ f.pc = "telling" /\ e.gen = f.gen /\ e.drop = f.drop => e = f
    BY <2>2 DEF OnceInv
  <2> QED BY <1>3, <1>4, <2>3, <2>4, <2>5 DEF OnceInv
<1> QED BY <1>5, <1>6

\* The new campaign has no claim, and nobody was told of its drops.
LEMMA FetchEndsOnce ==
    ASSUME Types, OnceInv, FetchEnds
    PROVE  OnceInv'
<1>1. UNCHANGED <<claims, history>> /\ now \in Nat
  BY DEF FetchEnds, Types, CampTypes, now
<1>2. /\ now' = now + 1
      /\ \A d \in Drops : camps'[now'].drops[d].told = 0
      /\ \A g \in 1..now : \A d \in Drops :
            /\ camps'[g].drops[d].claimed = camps[g].drops[d].claimed
            /\ camps'[g].drops[d].told = camps[g].drops[d].told
  BY FetchEndsIs DEF SameClaims
<1>3. \A e \in claims' : e \in claims /\ e.gen \in 1..now /\ e.drop \in Drops
  BY <1>1, ClaimIs
<1>4. \A d \in Drops : Known(d)' <=> Known(d)
  BY <1>1 DEF Known
<1>5. ASSUME NEW g \in 1..now', NEW d \in Drops
      PROVE  /\ camps'[g].drops[d].told <= 1
             /\ camps'[g].drops[d].told = 1 =>
                   /\ camps'[g].drops[d].claimed /\ Known(d)'
                   /\ \A e \in claims' : ~(e.pc = "telling" /\ e.gen = g /\ e.drop = d)
  <2>1. CASE g = now'
    BY <1>2, <2>1
  <2>2. CASE g # now'
    <3>1. g \in 1..now
      BY <1>1, <1>2, <2>2
    <3> QED BY <1>1, <1>2, <1>4, <3>1 DEF OnceInv
  <2> QED BY <2>1, <2>2
<1>6. ASSUME NEW e \in claims', e.pc = "telling"
      PROVE  camps'[e.gen].drops[e.drop].claimed /\ camps'[e.gen].drops[e.drop].told = 0
  <2>1. e \in claims /\ e.gen \in 1..now /\ e.drop \in Drops
    BY <1>3
  <2>2. camps[e.gen].drops[e.drop].claimed /\ camps[e.gen].drops[e.drop].told = 0
    BY <1>6, <2>1 DEF OnceInv
  <2> QED BY <1>2, <2>1, <2>2
<1> QED BY <1>1, <1>5, <1>6 DEF OnceInv

LEMMA OnceStep ==
    ASSUME Types, OnceInv, [Next]_vars
    PROVE  OnceInv'
  BY StepIs, KeepingOnce, FetchEndsOnce, ClaimAnsweredOnce, ClaimRecordedOnce

----------------------------------------------------------------------------
(* The types.                                                              *)

\* The polls that are not idle.
Polling == [pc : {"sent", "answered"}, gen : Nat, active : BOOLEAN,
            changed : BOOLEAN, overtaken : BOOLEAN,
            drop : Drops \cup {"none"}, minutes : Nat]

LEMMA OvertakenIs ==
    ASSUME poll \in PollState, NEW r \in BOOLEAN, Overtaken(r)
    PROVE  /\ poll' \in PollState /\ poll'.pc = poll.pc
           /\ poll.pc = "idle" => poll' = poll
           /\ poll.pc # "idle" =>
                 /\ poll'.gen = poll.gen /\ poll'.drop = poll.drop
                 /\ poll'.minutes = poll.minutes
                 /\ poll'.changed = (poll.changed \/ r) /\ poll'.overtaken
<1>1. CASE poll.pc = "idle"
  BY <1>1 DEF Overtaken
<1>2. CASE poll.pc # "idle"
  <2>1. poll \in Polling
    BY <1>2 DEF PollState, Polling
  <2>2. poll' = [poll EXCEPT !.overtaken = TRUE, !.changed = poll.changed \/ r]
    BY <1>2 DEF Overtaken
  <2>3. /\ poll'.pc = poll.pc /\ poll'.gen = poll.gen /\ poll'.drop = poll.drop
        /\ poll'.minutes = poll.minutes /\ poll'.active = poll.active
        /\ poll'.changed = (poll.changed \/ r) /\ poll'.overtaken = TRUE
        /\ poll' = [pc |-> poll'.pc, gen |-> poll'.gen, active |-> poll'.active,
                    changed |-> poll'.changed, overtaken |-> poll'.overtaken,
                    drop |-> poll'.drop, minutes |-> poll'.minutes]
    BY <2>1, <2>2 DEF Polling
  <2>4. poll' \in Polling
    <3>1. poll'.changed \in BOOLEAN /\ poll'.overtaken \in BOOLEAN /\ poll'.active \in BOOLEAN
      BY <2>1, <2>3 DEF Polling
    <3>2. /\ poll'.pc \in {"sent", "answered"} /\ poll'.gen \in Nat
          /\ poll'.drop \in Drops \cup {"none"} /\ poll'.minutes \in Nat
      BY <2>1, <2>3 DEF Polling
    <3> QED BY <2>3, <3>1, <3>2 DEF Polling
  <2>5. poll' \in PollState
    BY <2>4 DEF PollState, Polling
  <2> QED BY <1>2, <2>3, <2>5
<1> QED BY <1>1, <1>2

LEMMA PollTypes ==
    ASSUME Types, [Next]_vars
    PROVE  poll' \in PollState
<1> USE DEF Types, WorldTypes
<1>1. CASE UNCHANGED poll
  BY <1>1
<1>2. ASSUME NEW r \in BOOLEAN, Overtaken(r)
      PROVE  poll' \in PollState
  BY <1>2, OvertakenIs
<1>3. CASE Progress
  BY <1>1, <1>2, <1>3 DEF Progress, Revises
<1>4. CASE FetchEnds
  BY <1>2, <1>4 DEF FetchEnds
<1>5. CASE \E c \in claims : ClaimAnswered(c)
  BY <1>1, <1>2, <1>5 DEF ClaimAnswered
<1>6. CASE PollEnds
  BY <1>6 DEF PollEnds, Idle, PollState
<1>7. CASE PollSent
  <2>1. /\ now \in Nat /\ AnyEarned(camps[now]) \in BOOLEAN /\ FALSE \in BOOLEAN
        /\ "none" \in Drops \cup {"none"}
    BY DEF AnyEarned, CampTypes, now
  <2>2. poll' = [pc |-> "sent", gen |-> now, active |-> AnyEarned(camps[now]),
                 changed |-> FALSE, overtaken |-> FALSE, drop |-> "none", minutes |-> 0]
    BY <1>7 DEF PollSent
  <2> QED BY <2>1, <2>2 DEF PollState
<1>8. CASE PollAnswered
  <2>1. poll \in Polling
    BY <1>8 DEF PollAnswered, PollState, Polling
  <2>2. CASE poll' = [poll EXCEPT !.pc = "answered"]
    BY <2>1, <2>2 DEF Polling, PollState
  <2>3. CASE \E d \in Drops : poll' = [poll EXCEPT !.pc = "answered", !.drop = d,
                                                  !.minutes = twitch[d].minutes]
    <3>1. PICK d \in Drops : poll' = [poll EXCEPT !.pc = "answered", !.drop = d,
                                                  !.minutes = twitch[d].minutes]
      BY <2>3
    <3>2. twitch[d].minutes \in Nat
      BY DEF Counted
    <3> QED BY <2>1, <3>1, <3>2 DEF Polling, PollState
  <2> QED BY <1>8, <2>2, <2>3 DEF PollAnswered
<1> QED BY <1>1, <1>3, <1>4, <1>5, <1>6, <1>7, <1>8
        DEF Next, vars, memory, Minute, ClaimAnnounced, FetchAnswered, GamesUpdate, MainClaims,
            PollApplies, PollEstimates, PollDropped, ClaimGranted, ClaimFailed, ClaimRecorded

LEMMA MainStep ==
    ASSUME Types, [Next]_vars
    PROVE  main' \in MainState /\ MainTypes'
<1> USE DEF Types, WorldTypes
<1>1. now \in Nat /\ now' \in Nat /\ (now > 0 => now' > 0)
  <2>1. CASE Keeping
    BY <2>1, KeepingKeeps DEF Kept, CampTypes, now
  <2>2. CASE FetchEnds
    BY <2>2, FetchEndsIs DEF CampTypes, now
  <2>3. CASE \E c \in claims : ClaimAnswered(c) \/ ClaimRecorded(c)
    BY <2>3, ClaimAnsweredIs, ClaimRecordedIs DEF OnlyDrop, CampTypes, now
  <2> QED BY <2>1, <2>2, <2>3, StepIs
<1>2. Len(Listed) \in Nat
  BY DropsAssumption
<1>3. CASE UNCHANGED main
  BY <1>1, <1>3 DEF MainTypes
<1>4. CASE FetchAnswered
  BY <1>4 DEF FetchAnswered, MainState, MainTypes
<1>5. CASE FetchEnds
  <2>1. now' > 0 /\ main' = [pc |-> "claiming", from |-> 1]
    BY <1>1, <1>5, FetchEndsIs DEF FetchEnds
  <2> QED BY <1>2, <2>1 DEF MainState, MainTypes
<1>6. CASE GamesUpdate
  <2>1. now' > 0 /\ main' = [pc |-> "claiming", from |-> 1]
    BY <1>1, <1>6 DEF GamesUpdate
  <2> QED BY <1>2, <2>1 DEF MainState, MainTypes
<1>7. CASE MainClaims
  <2>1. main \in [pc : {"claiming"}, from : Nat] /\ main.from \in 1..Len(Listed) + 1 /\ now > 0
    BY <1>7 DEF MainClaims, MainState, MainTypes
  <2>2. CASE main' = Idle
    BY <2>2 DEF Idle, MainState, MainTypes
  <2>3. CASE \E i \in main.from..Len(Listed) : main' = [main EXCEPT !.from = i + 1]
    <3>1. PICK i \in main.from..Len(Listed) : main' = [main EXCEPT !.from = i + 1]
      BY <2>3
    <3> QED BY <1>1, <1>2, <2>1, <3>1 DEF MainState, MainTypes
  <2> QED BY <1>7, <2>2, <2>3 DEF MainClaims
<1> QED BY <1>3, <1>4, <1>5, <1>6, <1>7
        DEF Next, vars, memory, Minute, Progress, ClaimAnnounced, PollSent, PollAnswered,
            PollApplies, PollEstimates, PollDropped, ClaimGranted, ClaimAnswered, ClaimFailed,
            ClaimRecorded

\* The counters of Twitch only grow.
LEMMA TwitchStep ==
    ASSUME Types, [Next]_vars
    PROVE  /\ twitch' \in [Drops -> Counted]
           /\ \A d \in Drops : twitch[d].minutes <= twitch'[d].minutes
<1>1. twitch \in [Drops -> Counted]
  BY DEF Types, WorldTypes
<1>2. \A d \in Drops : twitch[d] \in Counted /\ twitch[d].minutes \in Nat
  BY <1>1 DEF Counted
<1>3. CASE UNCHANGED twitch
  BY <1>1, <1>2, <1>3
<1>4. CASE Minute
  <2>1. twitch' = [d \in Drops |-> IF d \in Earning
                      THEN [twitch[d] EXCEPT !.minutes = twitch[d].minutes + 1] ELSE twitch[d]]
    BY <1>4 DEF Minute
  <2>2. ASSUME NEW d \in Drops
        PROVE  twitch'[d] \in Counted /\ twitch[d].minutes <= twitch'[d].minutes
    BY <1>2, <2>1 DEF Counted
  <2> QED BY <2>1, <2>2
<1>5. CASE \E c \in claims : ClaimGranted(c)
  <2>1. PICK c \in claims : ClaimGranted(c)
    BY <1>5
  <2> DEFINE k == twitch[c.drop].claimed \/ Complete(c.drop)
             x == [twitch[c.drop] EXCEPT !.claimed = k]
  <2>2. twitch' = [twitch EXCEPT ![c.drop] = x]
    BY <2>1 DEF ClaimGranted
  <2>3. c.drop \in Drops /\ k \in BOOLEAN
    BY ClaimIs DEF Complete
  <2> HIDE DEF k
  <2>4. x \in Counted /\ x.minutes = twitch[c.drop].minutes
    BY <1>2, <2>3 DEF Counted
  <2> HIDE DEF x
  <2> QED BY <1>1, <1>2, <2>2, <2>3, <2>4
<1> QED BY <1>3, <1>4, <1>5
        DEF Next, vars, memory, Progress, ClaimAnnounced, FetchAnswered, FetchEnds, GamesUpdate,
            MainClaims, PollSent, PollAnswered, PollApplies, PollEstimates, PollDropped,
            ClaimAnswered, ClaimFailed, ClaimRecorded

LEMMA MailStep ==
    ASSUME Types, Counts, [Next]_vars
    PROVE  /\ mail' \in Seq(Mails)
           /\ \A i \in 1..Len(mail') : mail'[i].minutes <= twitch'[mail'[i].drop].minutes
<1>1. /\ \A d \in Drops : /\ twitch[d].minutes <= twitch'[d].minutes
                          /\ twitch[d].minutes \in Nat /\ twitch'[d].minutes \in Nat
      /\ mail \in Seq(Mails)
  BY TwitchStep DEF Types, WorldTypes, Counted
<1>2. \A i \in 1..Len(mail) : /\ mail[i].drop \in Drops /\ mail[i].minutes \in Nat
                              /\ mail[i].minutes <= twitch[mail[i].drop].minutes
  <2>1. \A i \in 1..Len(mail) : mail[i] \in Mails
    BY <1>1
  <2>2. \A i \in 1..Len(mail) : mail[i].drop \in Drops /\ mail[i].minutes \in Nat
    BY <2>1 DEF Mails
  <2> QED BY <2>2 DEF Counts
<1>a. \A i \in 1..Len(mail) : mail[i].minutes <= twitch'[mail[i].drop].minutes
  BY <1>1, <1>2
<1>3. CASE UNCHANGED mail
  BY <1>1, <1>a, <1>3
<1>4. CASE Mail
  BY <1>4, <1>a, HeadIs
<1>5. CASE \E d \in Drops : mail' = Append(mail, Message(d, twitch'[d].minutes))
  <2>1. PICK d \in Drops : mail' = Append(mail, Message(d, twitch'[d].minutes))
    BY <1>5
  <2> DEFINE m == Message(d, twitch'[d].minutes)
  <2>2. m \in Mails /\ m.drop = d /\ m.minutes = twitch'[d].minutes
    BY <1>1 DEF Message, Mails
  <2> HIDE DEF m
  <2>3. /\ mail' \in Seq(Mails) /\ Len(mail') = Len(mail) + 1
        /\ mail'[Len(mail) + 1] = m
        /\ \A i \in 1..Len(mail) : mail'[i] = mail[i]
    BY <1>1, <2>1, <2>2 DEF m
  <2>4. ASSUME NEW i \in 1..Len(mail')
        PROVE  mail'[i].minutes <= twitch'[mail'[i].drop].minutes
    <3>1. CASE i = Len(mail) + 1
      BY <1>1, <2>2, <2>3, <3>1
    <3>2. CASE i # Len(mail) + 1
      <4>1. i \in 1..Len(mail)
        BY <1>1, <2>3, <3>2
      <4> QED BY <1>a, <2>3, <4>1
    <3> QED BY <3>1, <3>2
  <2> QED BY <2>3, <2>4
<1>6. CASE Minute
  BY <1>3, <1>5, <1>6 DEF Minute, Earning
<1> QED BY <1>3, <1>4, <1>6
        DEF Next, vars, memory, Progress, ClaimAnnounced, FetchAnswered, FetchEnds, GamesUpdate,
            MainClaims, PollSent, PollAnswered, PollApplies, PollEstimates, PollDropped,
            ClaimGranted, ClaimAnswered, ClaimFailed, ClaimRecorded

\* What a report says of a drop is what is known afterwards, if it is more.
LEMMA ReportedIs ==
    ASSUME seen \in [Drops -> Nat], NEW d \in Drops, NEW m \in Nat, Reported(d, m)
    PROVE  /\ seen' \in [Drops -> Nat]
           /\ \A o \in Drops : seen'[o] = seen[o] \/ (o = d /\ seen'[o] = m)
  BY DEF Reported

LEMMA SeenStep ==
    ASSUME Types, Counts, [Next]_vars
    PROVE  /\ seen' \in [Drops -> Nat]
           /\ \A d \in Drops : seen'[d] <= twitch'[d].minutes
<1>1. /\ \A d \in Drops : /\ twitch[d].minutes <= twitch'[d].minutes
                          /\ twitch[d].minutes \in Nat /\ twitch'[d].minutes \in Nat
                          /\ seen[d] \in Nat /\ seen[d] <= twitch[d].minutes
      /\ seen \in [Drops -> Nat]
  BY TwitchStep DEF Types, WorldTypes, Counted, Counts
<1>2. CASE UNCHANGED seen
  BY <1>1, <1>2
<1>3. ASSUME NEW d \in Drops, NEW m \in Nat, Reported(d, m), m <= twitch[d].minutes
      PROVE  /\ seen' \in [Drops -> Nat]
             /\ \A o \in Drops : seen'[o] <= twitch'[o].minutes
  <2>1. /\ seen' \in [Drops -> Nat]
        /\ \A o \in Drops : seen'[o] = seen[o] \/ (o = d /\ seen'[o] = m)
    BY <1>1, <1>3, ReportedIs
  <2> QED BY <1>1, <1>3, <2>1
<1>4. CASE Progress
  <2> DEFINE m == Head(mail)
  <2>1. m \in Mails /\ m.minutes <= twitch[m.drop].minutes
    BY <1>4, HeadIs DEF Counts, Progress
  <2>2. m.drop \in Drops /\ m.minutes \in Nat
    BY <2>1 DEF Mails
  <2>3. UNCHANGED seen \/ Reported(m.drop, m.minutes)
    BY <1>4 DEF Progress
  <2> HIDE DEF m
  <2> QED BY <1>2, <1>3, <2>1, <2>2, <2>3
<1>5. CASE PollApplies
  <2>1. poll.pc = "answered" /\ poll.drop # "none" /\ Reported(poll.drop, poll.minutes)
    BY <1>5 DEF PollApplies, PollEnds, Answers
  <2>2. /\ poll.drop \in Drops /\ poll.minutes \in Nat
        /\ poll.minutes <= twitch[poll.drop].minutes
    BY <2>1 DEF Types, WorldTypes, PollState, Counts
  <2> QED BY <1>3, <2>1, <2>2
<1>6. CASE FetchEnds
  <2>1. seen' = [d \in Drops |-> IF main.inventory[d].minutes > seen[d]
                                THEN main.inventory[d].minutes ELSE seen[d]]
    BY <1>6 DEF FetchEnds
  <2>2. main.inventory \in [Drops -> Counted]
        /\ \A d \in Drops : main.inventory[d].minutes <= twitch[d].minutes
    BY <1>6 DEF FetchEnds, Types, WorldTypes, MainState, Counts
  <2>3. \A d \in Drops : main.inventory[d].minutes \in Nat
    BY <2>2 DEF Counted
  <2>4. \A d \in Drops : seen'[d] \in Nat /\ seen'[d] <= twitch'[d].minutes
    BY <1>1, <2>1, <2>2, <2>3
  <2> QED BY <2>1, <2>4
<1> QED BY <1>2, <1>4, <1>5, <1>6
        DEF Next, vars, memory, Minute, ClaimAnnounced, FetchAnswered, GamesUpdate,
            MainClaims, PollSent, PollAnswered, PollEstimates, PollDropped,
            ClaimGranted, ClaimAnswered, ClaimFailed, ClaimRecorded

\* The inventory that was fetched, and the answer of a poll, were true when they were sent.
LEMMA AnswersStep ==
    ASSUME Types, Counts, [Next]_vars
    PROVE  /\ main'.pc = "fetching" =>
                 \A d \in Drops : main'.inventory[d].minutes <= twitch'[d].minutes
           /\ poll'.pc = "answered" /\ poll'.drop # "none" =>
                 poll'.minutes <= twitch'[poll'.drop].minutes
           /\ poll'.pc = "sent" => poll'.drop = "none"
<1>1. \A d \in Drops : /\ twitch[d].minutes <= twitch'[d].minutes
                       /\ twitch[d].minutes \in Nat /\ twitch'[d].minutes \in Nat
  BY TwitchStep DEF Types, WorldTypes, Counted
<1>2. main'.pc = "fetching" =>
         \A d \in Drops : main'.inventory[d].minutes <= twitch'[d].minutes
  <2>1. CASE UNCHANGED main
    <3>1. main.pc = "fetching" => \A d \in Drops : main.inventory[d].minutes \in Nat
      BY DEF Types, WorldTypes, MainState, Counted
    <3> QED BY <1>1, <2>1, <3>1 DEF Counts
  <2>2. CASE FetchAnswered
    BY <1>1, <2>2 DEF FetchAnswered
  <2>3. CASE FetchEnds \/ GamesUpdate
    <3>1. main' = [pc |-> "claiming", from |-> 1]
      BY <2>3 DEF FetchEnds, GamesUpdate
    <3>2. main'.pc = "claiming"
      BY <3>1
    <3> QED BY <3>2
  <2>4. CASE MainClaims
    <3>1. main.pc = "claiming" /\ main \in [pc : {"claiming"}, from : Nat]
      BY <2>4 DEF MainClaims, Types, WorldTypes, MainState
    <3>2. CASE main' = Idle
      BY <3>2 DEF Idle
    <3>3. CASE \E i \in main.from..Len(Listed) : main' = [main EXCEPT !.from = i + 1]
      <4>1. PICK i \in main.from..Len(Listed) : main' = [main EXCEPT !.from = i + 1]
        BY <3>3
      <4>2. main'.pc = "claiming"
        BY <3>1, <4>1
      <4> QED BY <4>2
    <3> QED BY <2>4, <3>2, <3>3 DEF MainClaims
  <2> QED BY <2>1, <2>2, <2>3, <2>4
        DEF Next, vars, memory, Minute, Progress, ClaimAnnounced, PollSent, PollAnswered,
            PollApplies, PollEstimates, PollDropped, ClaimGranted, ClaimAnswered, ClaimFailed,
            ClaimRecorded
<1>3. /\ poll'.pc = "answered" /\ poll'.drop # "none" =>
            poll'.minutes <= twitch'[poll'.drop].minutes
      /\ poll'.pc = "sent" => poll'.drop = "none"
  <2>1. ASSUME poll'.pc = poll.pc, poll.pc # "idle" =>
                  poll'.drop = poll.drop /\ poll'.minutes = poll.minutes
        PROVE  /\ poll'.pc = "answered" /\ poll'.drop # "none" =>
                     poll'.minutes <= twitch'[poll'.drop].minutes
               /\ poll'.pc = "sent" => poll'.drop = "none"
    <3>1. poll.pc = "answered" /\ poll.drop # "none" =>
             poll.drop \in Drops /\ poll.minutes \in Nat
      BY DEF Types, WorldTypes, PollState
    <3> QED BY <1>1, <2>1, <3>1 DEF Counts
  <2>2. ASSUME NEW r \in BOOLEAN, Overtaken(r)
        PROVE  poll'.pc = poll.pc /\ (poll.pc # "idle" =>
                  poll'.drop = poll.drop /\ poll'.minutes = poll.minutes)
    BY <2>2, OvertakenIs DEF Types, WorldTypes
  <2>3. CASE UNCHANGED poll
    BY <2>1, <2>3
  <2>4. CASE Progress
    BY <2>1, <2>2, <2>3, <2>4 DEF Progress, Revises
  <2>5. CASE FetchEnds
    BY <2>1, <2>2, <2>5 DEF FetchEnds
  <2>6. CASE \E c \in claims : ClaimAnswered(c)
    BY <2>1, <2>2, <2>3, <2>6 DEF ClaimAnswered
  <2>7. CASE PollEnds
    BY <2>7 DEF PollEnds, Idle
  <2>8. CASE PollSent
    BY <2>8 DEF PollSent
  <2>9. CASE PollAnswered
    <3>1. poll \in Polling /\ poll.pc = "sent"
      BY <2>9 DEF PollAnswered, Types, WorldTypes, PollState, Polling
    <3>2. CASE poll' = [poll EXCEPT !.pc = "answered"]
      BY <3>1, <3>2 DEF Counts, Polling
    <3>3. CASE \E d \in Drops : poll' = [poll EXCEPT !.pc = "answered", !.drop = d,
                                                    !.minutes = twitch[d].minutes]
      <4>1. PICK d \in Drops : poll' = [poll EXCEPT !.pc = "answered", !.drop = d,
                                                    !.minutes = twitch[d].minutes]
        BY <3>3
      <4>2. poll'.drop = d /\ poll'.minutes = twitch[d].minutes /\ poll'.pc = "answered"
        BY <3>1, <4>1 DEF Polling
      <4> QED BY <1>1, <4>2
    <3> QED BY <2>9, <3>2, <3>3 DEF PollAnswered
  <2> QED BY <2>3, <2>4, <2>5, <2>6, <2>7, <2>8, <2>9
        DEF Next, vars, memory, Minute, ClaimAnnounced, FetchAnswered, GamesUpdate, MainClaims,
            PollApplies, PollEstimates, PollDropped, ClaimGranted, ClaimFailed, ClaimRecorded
<1> QED BY <1>2, <1>3

LEMMA CountsStep ==
    ASSUME Types, Counts, [Next]_vars
    PROVE  Counts'
  BY MailStep, SeenStep, AnswersStep DEF Counts

\* The campaigns, the claims and the history.
LEMMA CampaignStep ==
    ASSUME Types, [Next]_vars
    PROVE  CampTypes' /\ ClaimTypes'
<1>1. CASE Keeping
  BY <1>1, KeepingKeeps DEF Kept, FewerTell, Types, CampTypes, ClaimTypes
<1>2. CASE FetchEnds
  <2>1. camps' \in Seq(Campaign) /\ now' = now + 1 /\ UNCHANGED <<claims, history>>
    BY <1>2, FetchEndsIs DEF FetchEnds
  <2>2. now \in Nat
    BY DEF Types, CampTypes, now
  <2> QED BY <2>1, <2>2 DEF Types, CampTypes, ClaimTypes
<1>3. ASSUME NEW c \in claims, ClaimAnswered(c)
      PROVE  CampTypes' /\ ClaimTypes'
  <2> DEFINE t == [c EXCEPT !.pc = "telling"]
  <2>1. camps' \in Seq(Campaign) /\ now' = now
    BY <1>3, ClaimAnsweredIs DEF OnlyDrop
  <2>2. t \in Claim /\ t.gen \in 1..now
    BY ClaimIs, NowTelling, Zenon
  <2>3. claims' = (claims \ {c}) \cup {t} /\ UNCHANGED history
    BY <1>3 DEF ClaimAnswered
  <2> HIDE DEF t
  <2> QED BY <2>1, <2>2, <2>3 DEF Types, CampTypes, ClaimTypes
<1>4. ASSUME NEW c \in claims, ClaimRecorded(c)
      PROVE  CampTypes' /\ ClaimTypes'
  <2>1. camps' \in Seq(Campaign) /\ now' = now
    BY <1>4, ClaimRecordedIs DEF OnlyDrop
  <2>2. claims' = claims \ {c} /\ Record(c.drop) /\ c.drop \in Drops
    BY <1>4, ClaimIs DEF ClaimRecorded, Ended
  <2>3. history' \in Seq(Drops)
    BY <2>2, RecordIs DEF Types, ClaimTypes
  <2> QED BY <2>1, <2>2, <2>3 DEF Types, CampTypes, ClaimTypes
<1> QED BY <1>1, <1>2, <1>3, <1>4, StepIs

LEMMA TypesStep ==
    ASSUME Types, Counts, [Next]_vars
    PROVE  Types'
<1>1. WorldTypes'
  BY TwitchStep, MailStep, SeenStep, MainStep, PollTypes DEF WorldTypes
<1> QED BY <1>1, MainStep, CampaignStep DEF Types

----------------------------------------------------------------------------
(* The answers to polls.                                                   *)

\* Whatever the miner hears of the campaign of the poll counts as a change of it.
LEMMA NewsStep ==
    ASSUME Types, Counts, NewsInv, [Next]_vars
    PROVE  NewsInv'
<1>1. now \in Nat /\ poll \in PollState
  BY DEF Types, WorldTypes, CampTypes, now
<1>2. now' = now \/ now' = now + 1
  <2>1. CASE Keeping
    BY <2>1, KeepingKeeps DEF Kept
  <2>2. CASE FetchEnds
    BY <2>2, FetchEndsIs
  <2>3. CASE \E c \in claims : ClaimAnswered(c) \/ ClaimRecorded(c)
    BY <2>3, ClaimAnsweredIs, ClaimRecordedIs DEF OnlyDrop
  <2> QED BY <2>1, <2>2, <2>3, StepIs
<1>3. poll.pc # "idle" => poll \in Polling /\ poll.gen \in Nat
  BY <1>1 DEF PollState, Polling
<1>4. CASE UNCHANGED <<poll, seen>>
  <2>1. CASE poll.pc = "idle"
    BY <1>4, <2>1 DEF NewsInv
  <2>2. CASE poll.pc # "idle"
    <3>1. poll.gen = now' => poll.gen = now
      BY <1>1, <1>2, <1>3, <2>2 DEF NewsInv
    <3>2. poll.gen <= now'
      BY <1>1, <1>2, <1>3, <2>2 DEF NewsInv
    <3> QED BY <1>4, <2>2, <3>1, <3>2 DEF NewsInv
  <2> QED BY <2>1, <2>2
<1>5. CASE PollEnds
  BY <1>5 DEF PollEnds, Idle, NewsInv
<1>6. ASSUME Overtaken(TRUE), now' = now
      PROVE  NewsInv'
  <2>1. TRUE \in BOOLEAN
    OBVIOUS
  <2>2. /\ poll'.pc = poll.pc
        /\ poll.pc # "idle" =>
              poll'.gen = poll.gen /\ poll'.changed = (poll.changed \/ TRUE)
    BY <1>1, <1>6, <2>1, OvertakenIs, Zenon
  <2>3. poll.pc # "idle" => poll'.gen <= now' /\ poll'.changed
    BY <1>6, <2>2 DEF NewsInv
  <2> QED BY <2>2, <2>3 DEF NewsInv
<1>7. CASE Progress
  <2>1. now' = now
    BY <1>7, ProgressKeeps DEF Kept
  <2> QED BY <1>4, <1>6, <1>7, <2>1 DEF Progress, Revises
<1>8. CASE FetchEnds
  <2>1. now' = now + 1 /\ Overtaken(FALSE) /\ FALSE \in BOOLEAN
    BY <1>8, FetchEndsIs DEF FetchEnds
  <2>2. poll'.pc = poll.pc /\ (poll.pc # "idle" => poll'.gen = poll.gen)
    BY <1>1, <2>1, OvertakenIs
  <2> QED BY <1>1, <1>3, <2>1, <2>2 DEF NewsInv
<1>9. ASSUME NEW c \in claims, ClaimAnswered(c)
      PROVE  NewsInv'
  <2>1. now' = now /\ UNCHANGED seen
    BY <1>9, ClaimAnsweredIs DEF OnlyDrop, ClaimAnswered
  <2> QED BY <1>4, <1>6, <1>9, <2>1 DEF ClaimAnswered
<1>10. CASE PollSent
  <2>1. /\ poll'.pc = "sent" /\ poll'.gen = now /\ poll'.overtaken = FALSE
        /\ UNCHANGED camps
    BY <1>10 DEF PollSent
  <2> QED BY <1>1, <2>1 DEF NewsInv, now
<1>11. CASE PollAnswered
  <2>1. /\ poll \in Polling /\ poll.pc = "sent" /\ poll.drop = "none"
        /\ UNCHANGED <<camps, seen>>
    BY <1>3, <1>11 DEF PollAnswered, Counts
  <2>2. CASE poll' = [poll EXCEPT !.pc = "answered"]
    <3>1. /\ poll'.pc = "answered" /\ poll'.gen = poll.gen /\ poll'.drop = "none"
          /\ poll'.changed = poll.changed /\ poll'.overtaken = poll.overtaken
      BY <2>1, <2>2 DEF Polling
    <3> QED BY <2>1, <3>1 DEF NewsInv, now
  <2>3. CASE \E d \in Drops : poll' = [poll EXCEPT !.pc = "answered", !.drop = d,
                                                  !.minutes = twitch[d].minutes]
    <3>1. PICK d \in Drops : poll' = [poll EXCEPT !.pc = "answered", !.drop = d,
                                                  !.minutes = twitch[d].minutes]
      BY <2>3
    <3>2. /\ poll'.pc = "answered" /\ poll'.gen = poll.gen /\ poll'.drop = d
          /\ poll'.minutes = twitch[d].minutes
          /\ poll'.changed = poll.changed /\ poll'.overtaken = poll.overtaken
      BY <2>1, <3>1 DEF Polling
    <3>3. seen'[d] <= twitch[d].minutes
      BY <2>1 DEF Counts
    <3> QED BY <2>1, <3>2, <3>3 DEF NewsInv, now
  <2> QED BY <1>11, <2>2, <2>3 DEF PollAnswered
<1> QED BY <1>4, <1>5, <1>7, <1>8, <1>9, <1>10, <1>11
        DEF Next, vars, memory, Minute, ClaimAnnounced, FetchAnswered, GamesUpdate, MainClaims,
            PollApplies, PollEstimates, PollDropped, ClaimGranted, ClaimFailed, ClaimRecorded

----------------------------------------------------------------------------
(* The theorems.                                                           *)

Inv == Types /\ Counts /\ NewsInv /\ OnceInv

LEMMA InitInv == Init => Inv
<1> SUFFICES ASSUME Init
             PROVE  Inv
  OBVIOUS
<1>1. Types
  <2>1. twitch \in [Drops -> Counted]
    <3>1. \A d \in Drops : [minutes |-> 0, claimed |-> FALSE] \in Counted
      BY DEF Counted
    <3> QED BY <3>1 DEF Init
  <2>2. /\ mail \in Seq(Mails) /\ seen \in [Drops -> Nat]
        /\ main \in MainState /\ poll \in PollState /\ main.pc = "idle"
    BY DEF Init, Idle, MainState, PollState
  <2>3. CampTypes /\ ClaimTypes
    BY DEF Init, CampTypes, ClaimTypes
  <2> QED BY <2>1, <2>2, <2>3 DEF Types, WorldTypes, MainTypes
<1>2. Counts
  BY DEF Init, Idle, Counts
<1>3. NewsInv
  BY DEF Init, Idle, NewsInv
<1>4. OnceInv
  BY DEF Init, OnceInv, now
<1> QED BY <1>1, <1>2, <1>3, <1>4 DEF Inv

LEMMA NextInv == Inv /\ [Next]_vars => Inv'
  BY TypesStep, CountsStep, NewsStep, OnceStep DEF Inv

\* The inductive invariant: what is known is never ahead of Twitch, an answer that is
\* used is not behind what is known, and of each drop at most one claim tells.
THEOREM InductiveInv == Spec => []Inv
<1>1. Init => Inv
  BY InitInv
<1>2. Inv /\ [Next]_vars => Inv'
  BY NextInv
<1> QED BY <1>1, <1>2, PTL DEF Spec

\* However the claims of the message handler and of the main loop overlap, each drop of
\* a campaign is told of at most once, and only if the history has it, exactly once
\* (BaseDrop.claim, TimedDrop.claim, DropHistory.record).
THEOREM EachDropIsClaimedOnce == Spec => []ClaimedOnce
<1>1. Inv => ClaimedOnce
  <2> SUFFICES ASSUME Inv
               PROVE  ClaimedOnce
    OBVIOUS
  <2>1. DOMAIN camps = 1..now /\ DOMAIN history = 1..Len(history)
    BY DEF Inv, Types, CampTypes, ClaimTypes, now
  <2>2. \A g \in 1..now : \A d \in Drops :
           /\ camps[g].drops[d].told <= 1
           /\ camps[g].drops[d].told = 1 => \E i \in 1..Len(history) : history[i] = d
    BY DEF Inv, OnceInv, Known
  <2>3. \A i, j \in 1..Len(history) : history[i] = history[j] => i = j
    BY DEF Inv, OnceInv
  <2> QED BY <2>1, <2>2, <2>3 DEF ClaimedOnce
<1> QED BY <1>1, InductiveInv, PTL

\* The answer to a poll never takes back minutes that Twitch had reported: if anything
\* was heard of the campaign after the request, the answer is not used
\* (WatchService.watch_loop, progress_revision).
THEOREM AnswersAreNotBehind == Spec => NeverTakesBack
<1>1. Inv /\ [Next]_vars => [PollApplies => poll.minutes >= seen[poll.drop]]_vars
  <2> SUFFICES ASSUME Inv, PollApplies
               PROVE  poll.minutes >= seen[poll.drop]
    OBVIOUS
  <2>1. /\ poll.pc = "answered" /\ poll.drop # "none"
        /\ poll.gen = now /\ ~poll.changed
    BY DEF PollApplies, PollEnds, Unchanged, Answers
  <2>2. poll.drop \in Drops /\ seen[poll.drop] <= poll.minutes
    BY <2>1 DEF Inv, NewsInv
  <2>3. seen[poll.drop] \in Nat /\ poll.minutes \in Nat
    BY <2>1, <2>2 DEF Inv, Types, WorldTypes, PollState
  <2> QED BY <2>2, <2>3
<1> QED BY <1>1, InductiveInv, PTL DEF Spec, NeverTakesBack

\* A minute is estimated only if nothing was heard of the campaign since the request:
\* a reported minute, a claim or a new inventory is never counted a second time
\* (WatchService.watch_loop, DropsCampaign.bump_minutes).
THEOREM EstimatesAreOfTheUnknown == Spec => NoEstimateOverNews
<1>1. Inv /\ [Next]_vars =>
         [\A d \in Drops : /\ now > 0 /\ now' = now
                           /\ camps'[now].drops[d].extra > camps[now].drops[d].extra
                           => ~poll.overtaken]_vars
  <2> SUFFICES ASSUME Inv, Next, NEW d \in Drops, now > 0, now' = now,
                      camps'[now].drops[d].extra > camps[now].drops[d].extra
               PROVE  ~poll.overtaken
    OBVIOUS
  <2>1. Types
    BY DEF Inv
  <2>2. ~Quiet
    <3>1. /\ camps[now].drops[d].extra \in Nat /\ camps'[now].drops[d].extra \in Nat
      <4>1. now \in 1..now /\ camps[now] \in Campaign
        BY <2>1, Present
      <4>2. Types'
        BY TypesStep DEF Inv
      <4>3. camps'[now] \in Campaign
        BY <4>1, <4>2 DEF Types, CampTypes, now
      <4> QED BY <4>1, <4>3 DEF Campaign, DropState
    <3> QED BY <3>1 DEF Quiet, NoMore
  <2>3. PollEstimates \/ FetchEnds
    BY <2>1, <2>2, SameIsKept, ProgressKeeps, ClaimAnnouncedKeeps, MainClaimsKeeps,
       PollAppliesKeeps, ClaimGrantedKeeps, ClaimFailedKeeps, ClaimAnsweredIs, ClaimRecordedIs
       DEF Next, Types, memory, Minute, FetchAnswered, GamesUpdate, PollSent, PollAnswered,
           PollDropped
  <2>4. CASE FetchEnds
    BY <2>1, <2>4, FetchEndsIs DEF Types, CampTypes, now
  <2>5. CASE PollEstimates
    BY <2>5 DEF Inv, NewsInv, PollEstimates, PollEnds, Unchanged
  <2> QED BY <2>3, <2>4, <2>5
<1> QED BY <1>1, InductiveInv, PTL DEF Spec, NoEstimateOverNews
==========================================================================
