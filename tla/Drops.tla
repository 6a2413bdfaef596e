------------------------------- MODULE Drops -------------------------------
(***************************************************************************)
(* The progress of a campaign's drops and their claims.  Twitch counts the *)
(* minutes; the miner hears of them in three ways that overlap: websocket  *)
(* messages (MessageHandlers.process_drops), the poll of the watch loop    *)
(* (WatchService.watch_loop), which estimates a minute when it gets no     *)
(* answer, and the inventory, whose every fetch replaces the campaign and  *)
(* its drops by new objects (InventoryService.fetch_inventory).  A drop is *)
(* claimed by the message that announces its claim and by the main loop    *)
(* after each fetch or claim; DropHistory keeps what was claimed.          *)
(*                                                                         *)
(* There is one campaign, which is active and of the watched channel.  A   *)
(* task keeps the objects it began with, so all generations are kept.  Of  *)
(* progress_revision the model has what is compared: whether it changed    *)
(* since the poll under way was sent.                                      *)
(***************************************************************************)
EXTENDS DropIgnore, Integers, Sequences

CONSTANTS
    Drops, Needed, Preconditions, \* required_minutes and precondition_drops
    Listed,       \* the order of the drops in the campaign
    MaxExtra,     \* MAX_EXTRA_MINUTES
    MaxFetches, MaxMail \* bounds

ASSUME DropsAssumption ==
    /\ Needed \in [Drops -> Nat \ {0}]
    /\ Preconditions \in [Drops -> SUBSET Drops]
    /\ Listed \in Seq(Drops)
    /\ MaxExtra \in Nat \ {0}
    /\ {MaxFetches, MaxMail} \subseteq Nat

VARIABLES
    twitch,  \* what Twitch knows of each drop: [minutes, claimed]
    mail,    \* websocket messages on their way
    camps,   \* the campaigns of all fetches: [drops]
    poll,    \* the poll of the watch loop
    main,    \* the main loop: fetching, or claiming drops
    update,  \* GAMES_UPDATE is requested
    claims,  \* the claims under way
    history, \* DropHistory: a sequence of drops
    seen     \* the newest minutes that Twitch itself reported to the miner, per drop

memory == <<camps, poll, main, update, claims>>
vars == <<twitch, mail, memory, history, seen>>

Generations == 1..MaxFetches
now == Len(camps)

Idle == [pc |-> "idle"]

TypeOK ==
    /\ twitch \in [Drops -> [minutes : Nat, claimed : BOOLEAN]]
    /\ Len(mail) <= MaxMail /\ now <= MaxFetches
    /\ poll.pc \in {"idle", "sent", "answered"}
    /\ main.pc \in {"idle", "fetching", "claiming"}
    /\ \A c \in claims : c.pc \in {"asked", "answered", "telling"} /\ c.drop \in Drops

Init ==
    /\ twitch = [d \in Drops |-> [minutes |-> 0, claimed |-> FALSE]]
    /\ mail = <<>> /\ camps = <<>>
    /\ poll = Idle /\ main = Idle /\ update = FALSE /\ claims = {}
    /\ history = <<>>
    /\ seen = [d \in Drops |-> 0]

----------------------------------------------------------------------------
(* Twitch counts the minutes of every drop that can be earned, and         *)
(* announces the progress or the completion of one, or that gets lost.     *)

Earning == {d \in Drops : /\ ~twitch[d].claimed /\ twitch[d].minutes < Needed[d]
                          /\ \A p \in Preconditions[d] : twitch[p].claimed}

Complete(d) == twitch[d].minutes = Needed[d]

Message(d, minutes) ==
    [type |-> IF minutes = Needed[d] THEN "drop-claim" ELSE "drop-progress",
     drop |-> d, minutes |-> minutes]

Minute ==
    /\ twitch' = [d \in Drops |-> IF d \in Earning
                                  THEN [twitch[d] EXCEPT !.minutes = @ + 1] ELSE twitch[d]]
    /\ \E d \in Earning :
          \/ Len(mail) < MaxMail /\ mail' = Append(mail, Message(d, twitch'[d].minutes))
          \/ UNCHANGED mail
    /\ UNCHANGED <<memory, history, seen>>

----------------------------------------------------------------------------
(* Drops and campaigns: C is a campaign.                                   *)

\* Every drop is one to be watched for and has a reward; CLAIMED are the claimed ones.
Graph(claimed) == [d \in Drops |-> [claimed |-> d \in claimed, watch |-> TRUE,
                                    reward |-> TRUE, pre |-> Preconditions[d]]]

MineableWith == [claimed \in SUBSET Drops |-> Mineable(Graph(claimed), {})]

\* TimedDrop.can_earn; a drop that was estimated too often waits for the next inventory.
CanEarn(c, d) ==
    /\ d \in MineableWith[{e \in Drops : c.drops[e].claimed}]
    /\ \A p \in Preconditions[d] : c.drops[p].claimed
    /\ c.drops[d].extra < MaxExtra

AnyEarned(c) == \E d \in Drops : CanEarn(c, d)

\* DropsCampaign._update_real_minutes: all drops that can be earned are shifted.
Shifted(c, delta) ==
    [c EXCEPT !.drops = [d \in Drops |->
        LET real == c.drops[d].real + delta
        IN  IF delta = 0 \/ real < 0 \/ ~CanEarn(c, d) THEN c.drops[d]
            ELSE [c.drops[d] EXCEPT !.extra = 0,
                                    !.real = IF real < Needed[d] THEN real ELSE Needed[d]]]]

\* TimedDrop.update_minutes.
Observed(c, d, minutes) ==
    LET new == IF minutes < Needed[d] THEN minutes ELSE Needed[d]
    IN  Shifted(c, new - c.drops[d].real)

\* Mutant: an observation that changes nothing is not one.
RevisesIfNew(d, minutes) == minutes # camps[now].drops[d].real

\* Every observation is a revision, also of what was known.
Revises(d, minutes) == TRUE

\* DropsCampaign.bump_minutes: any() stops at the first drop that reaches the limit.
Bumped(c) ==
    LET Last(i) == CanEarn(c, Listed[i]) /\ c.drops[Listed[i]].extra + 1 >= MaxExtra
        Reached(i) == ~\E j \in 1..i - 1 : Last(j)
    IN  [c EXCEPT !.drops = [d \in Drops |->
            IF CanEarn(c, d) /\ \E i \in DOMAIN Listed : Listed[i] = d /\ Reached(i)
            THEN [c.drops[d] EXCEPT !.extra = c.drops[d].extra + 1] ELSE c.drops[d]]]

Reported(d, minutes) == seen' = [seen EXCEPT ![d] = IF minutes > @ THEN minutes ELSE @]

\* Something of the present campaign is newer than the poll under way; whether its
\* progress_revision shows that.
Overtaken(revised) ==
    poll' = IF poll.pc = "idle" THEN poll
            ELSE [poll EXCEPT !.overtaken = TRUE, !.changed = @ \/ revised]

----------------------------------------------------------------------------
(* Claims.                                                                 *)

\* TimedDrop.claim: a claimed drop has all its minutes.
WithAllMinutes(drop, d) == [drop EXCEPT !.real = Needed[d], !.extra = 0]

\* TimedDrop.claim up to the request: a claimed drop has nothing to ask for.
StartClaim(by, c, d) ==
    IF c.drops[d].claimed
    THEN /\ camps' = [camps EXCEPT ![now] = [c EXCEPT !.drops[d] = WithAllMinutes(c.drops[d], d)]]
         /\ UNCHANGED claims
    ELSE /\ camps' = [camps EXCEPT ![now] = c]
         /\ claims' = IF c.drops[d].claim_id
                      THEN claims \cup {[by |-> by, gen |-> now, drop |-> d, pc |-> "asked",
                                         ok |-> FALSE]}
                      ELSE claims

\* Twitch grants it, or did before; its answer may be lost.
ClaimGranted(c) ==
    /\ c.pc = "asked"
    /\ twitch' = [twitch EXCEPT ![c.drop].claimed = @ \/ Complete(c.drop)]
    /\ \E ok \in {Complete(c.drop), FALSE} :
          claims' = (claims \ {c}) \cup {[c EXCEPT !.pc = "answered", !.ok = ok]}
    /\ UNCHANGED <<mail, camps, poll, main, update, history, seen>>

\* DropHistory.record ignores what it has.
Record(d) == history' = IF \E i \in DOMAIN history : history[i] = d THEN history
                        ELSE Append(history, d)

\* Mutant: whoever claimed it is told, like the history.
TellAlways(c) == TRUE

\* Only the first of two claims is told.
TellFirst(c) == ~camps[c.gen].drops[c.drop].claimed

\* What becomes of the drop of C: the claim that found it unclaimed is told.
Recorded(drop, c) ==
    [WithAllMinutes(drop, c.drop) EXCEPT !.told = drop.told + IF c.pc = "telling" THEN 1 ELSE 0]

Ended(c) == claims' = claims \ {c}

ClaimAnswered(c) ==
    /\ c.pc = "answered" /\ c.ok /\ TellFirst(c)
    /\ camps' = [camps EXCEPT ![c.gen].drops[c.drop].claimed = TRUE]
    /\ update' = TRUE
    /\ claims' = (claims \ {c}) \cup {[c EXCEPT !.pc = "telling"]}
    /\ IF c.gen = now THEN Overtaken(TRUE) ELSE UNCHANGED poll
    /\ UNCHANGED <<twitch, mail, main, history, seen>>

ClaimFailed(c) ==
    /\ c.pc = "answered" /\ ~c.ok
    /\ Ended(c)
    /\ UNCHANGED <<twitch, mail, camps, poll, main, update, history, seen>>

\* The dashboard, Telegram and Discord have been told, or somebody else does that.
ClaimRecorded(c) ==
    /\ c.pc = "telling" \/ (c.pc = "answered" /\ c.ok /\ ~TellFirst(c))
    /\ camps' = [camps EXCEPT ![c.gen].drops[c.drop] =
                    Recorded(camps[c.gen].drops[c.drop], c)]
    /\ Record(c.drop)
    /\ Ended(c)
    /\ UNCHANGED <<twitch, mail, poll, main, update, seen>>

----------------------------------------------------------------------------
(* Messages.                                                               *)

Mail == mail # <<>> /\ mail' = Tail(mail)

\* Progress that cannot be earned is ignored.
Progress ==
    /\ Mail
    /\ LET m == Head(mail)
       IN  /\ m.type = "drop-progress"
           /\ IF now > 0 /\ CanEarn(camps[now], m.drop)
              THEN /\ camps' = [camps EXCEPT ![now] = Observed(camps[now], m.drop, m.minutes)]
                   /\ Reported(m.drop, m.minutes)
                   /\ Overtaken(Revises(m.drop, m.minutes))
              ELSE UNCHANGED <<camps, seen, poll>>
    /\ UNCHANGED <<twitch, main, update, claims, history>>

ClaimAnnounced ==
    /\ Mail
    /\ LET m == Head(mail)
       IN  /\ m.type = "drop-claim"
           /\ ~\E c \in claims : c.by = "message" /\ c.drop = m.drop
           /\ IF now = 0 THEN UNCHANGED <<camps, claims>>
              ELSE StartClaim("message", [camps[now] EXCEPT !.drops[m.drop].claim_id = TRUE],
                              m.drop)
    /\ UNCHANGED <<twitch, poll, main, update, history, seen>>

----------------------------------------------------------------------------
(* The main loop.                                                          *)

\* INVENTORY_FETCH: the answer to the Inventory request is what Twitch knows at this time.
FetchAnswered ==
    /\ main.pc = "idle" /\ now < MaxFetches
    /\ main' = [pc |-> "fetching", inventory |-> twitch]
    /\ UNCHANGED <<twitch, mail, camps, poll, update, claims, history, seen>>

Drop(d, data) == [real |-> IF data.claimed THEN Needed[d] ELSE data.minutes, extra |-> 0,
                  claimed |-> data.claimed, told |-> 0,
                  claim_id |-> data.minutes = Needed[d]]

\* Of a replaced campaign only the claims under way are still of interest.
Forgotten(c) == [drops |-> [d \in Drops |-> [c.drops[d] EXCEPT !.real = 0, !.extra = 0,
                                                              !.claim_id = FALSE]]]

\* After requests for the other campaigns the inventory is replaced.
FetchEnds ==
    /\ main.pc = "fetching"
    /\ camps' = Append([g \in DOMAIN camps |-> Forgotten(camps[g])],
                       [drops |-> [d \in Drops |-> Drop(d, main.inventory[d])]])
    /\ seen' = [d \in Drops |-> IF main.inventory[d].minutes > seen[d]
                                THEN main.inventory[d].minutes ELSE seen[d]]
    /\ Overtaken(FALSE)
    /\ main' = [pc |-> "claiming", from |-> 1]
    /\ UNCHANGED <<twitch, mail, update, claims, history>>

\* GAMES_UPDATE begins with the drops that can be claimed, one after the other.
GamesUpdate ==
    /\ main.pc = "idle" /\ update /\ now > 0
    /\ update' = FALSE
    /\ main' = [pc |-> "claiming", from |-> 1]
    /\ UNCHANGED <<twitch, mail, camps, poll, claims, history, seen>>

CanClaim(d) == camps[now].drops[d].claim_id /\ ~camps[now].drops[d].claimed

\* The next drop that can be claimed, if there is one.
MainClaims ==
    /\ main.pc = "claiming"
    /\ ~\E c \in claims : c.by = "main"
    /\ LET left == {i \in main.from..Len(Listed) : CanClaim(Listed[i])}
       IN  IF left = {} THEN main' = Idle /\ UNCHANGED <<camps, claims>>
           ELSE \E i \in left :
                   /\ \A j \in left : i <= j
                   /\ main' = [main EXCEPT !.from = i + 1]
                   /\ StartClaim("main", camps[now], Listed[i])
    /\ UNCHANGED <<twitch, mail, poll, update, history, seen>>

----------------------------------------------------------------------------
(* The poll of the watch loop.                                             *)

PollSent ==
    /\ poll.pc = "idle" /\ now > 0
    /\ poll' = [pc |-> "sent", gen |-> now, active |-> AnyEarned(camps[now]),
                changed |-> FALSE, overtaken |-> FALSE, drop |-> "none", minutes |-> 0]
    /\ UNCHANGED <<twitch, mail, camps, main, update, claims, history, seen>>

\* Twitch reports the drop it counts for, or none; the request can also fail.
PollAnswered ==
    /\ poll.pc = "sent"
    /\ \/ poll' = [poll EXCEPT !.pc = "answered"]
       \/ \E d \in Drops :
             /\ d \in Earning \/ (Complete(d) /\ ~twitch[d].claimed)
             /\ poll' = [poll EXCEPT !.pc = "answered", !.drop = d,
                                     !.minutes = twitch[d].minutes]
    /\ UNCHANGED <<twitch, mail, camps, main, update, claims, history, seen>>

\* Mutant: whichever campaign it is.
UnchangedRevision == ~poll.changed

\* The campaign is the one of the request, and nothing was learned of it since.
Unchanged == poll.gen = now /\ ~poll.changed

PollEnds == poll.pc = "answered" /\ poll' = Idle

Answers == poll.drop # "none" /\ CanEarn(camps[now], poll.drop)

PollApplies ==
    /\ PollEnds /\ now > 0 /\ Unchanged /\ Answers
    /\ camps' = [camps EXCEPT ![now] = Observed(camps[now], poll.drop, poll.minutes)]
    /\ Reported(poll.drop, poll.minutes)
    /\ UNCHANGED <<twitch, mail, main, update, claims, history>>

PollEstimates ==
    /\ PollEnds /\ now > 0 /\ Unchanged /\ ~Answers
    /\ poll.active /\ AnyEarned(camps[now])
    /\ camps' = [camps EXCEPT ![now] = Bumped(camps[now])]
    /\ UNCHANGED <<twitch, mail, main, update, claims, history, seen>>

\* The answer is not used: something is newer, the channel is not the watched one any
\* more, or nothing can be earned.
PollDropped ==
    /\ PollEnds
    /\ UNCHANGED <<twitch, mail, camps, main, update, claims, history, seen>>

----------------------------------------------------------------------------
Next ==
    \/ Minute
    \/ Progress \/ ClaimAnnounced
    \/ FetchAnswered \/ FetchEnds \/ GamesUpdate \/ MainClaims
    \/ PollSent \/ PollAnswered \/ PollApplies \/ PollEstimates \/ PollDropped
    \/ \E c \in claims : ClaimGranted(c) \/ ClaimAnswered(c) \/ ClaimFailed(c) \/ ClaimRecorded(c)

Spec == Init /\ [][Next]_vars

----------------------------------------------------------------------------
(* Properties.                                                             *)

\* The answer to a poll never takes back minutes that Twitch had reported of the drop.
NeverTakesBack ==
    [][PollApplies => poll.minutes >= seen[poll.drop]]_vars

\* A minute is estimated only for what nothing was learned about since the request: a
\* reported minute, a claim or a new inventory is never counted a second time.
NoEstimateOverNews ==
    [][\A d \in Drops : /\ now > 0 /\ now' = now
                        /\ camps'[now].drops[d].extra > camps[now].drops[d].extra
                        => ~poll.overtaken]_vars

\* However the claims of the message handler and of the main loop overlap, one of them
\* tells the user, and the history has the drop exactly once when they are over.
ClaimedOnce ==
    /\ \A g \in DOMAIN camps : \A d \in Drops :
          /\ camps[g].drops[d].told <= 1
          /\ camps[g].drops[d].told = 1 => \E i \in DOMAIN history : history[i] = d
    /\ \A i, j \in DOMAIN history : history[i] = history[j] => i = j

\* bump_minutes: "ensure all drops are bumped before checking".
AllAreBumped ==
    [][\A d, e \in Drops :
          /\ now > 0 /\ now' = now /\ CanEarn(camps[now], d)
          /\ camps'[now].drops[e].extra > camps[now].drops[e].extra
          => camps'[now].drops[d].extra > camps[now].drops[d].extra]_vars

\* "Notify once per successful claim".
ToldOnce ==
    \A f, g \in DOMAIN camps : \A d \in Drops :
        camps[f].drops[d].told > 0 /\ camps[g].drops[d].told > 0 => f = g
=============================================================================
