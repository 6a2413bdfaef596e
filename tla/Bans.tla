------------------------------- MODULE Bans -------------------------------
(***************************************************************************)
(* The channels an account is banned from.  Every search for channels asks *)
(* Twitch for the bans of what it found, of the watched channel and of     *)
(* what is known to be banned, in batches that can fail                    *)
(* (ChannelService.filter_banned_channels); a timer asks for a new search  *)
(* when a ban ends.  A search makes new Channel objects beside old ones,   *)
(* each with a ban of its own.                                             *)
(*                                                                         *)
(* A ban is the time of its end: 0 when there is none, Forever when it is  *)
(* permanent or its end was not told.                                      *)
(***************************************************************************)
EXTENDS Naturals, FiniteSets

CONSTANTS Channels, NoChannel,
          EndOfTime \* bound

ConstantsOK == EndOfTime \in Nat /\ NoChannel \notin Channels

VARIABLES
    time,
    search,    \* the CHANNELS_FETCH step: "none", "finding" or "asking"
    found,     \* the bans of the objects that it found, as a function
    left,      \* the channels whose batch has not answered
    watched,   \* the channel that stays the watched or the chosen one meanwhile
    kept,      \* the ban of that object
    bans,      \* _banned_channels: the ban of each object, 0 for what is not in it
    timer,     \* _ban_refresh: when it fires, Forever without one
    requested, \* a games update is requested
    tracked,   \* the channels of the miner
    refused,   \* ghost: what the last search left out because of a ban
    told       \* ghost: what Twitch last told of each channel

vars == <<time, search, found, left, watched, kept, bans, timer, requested, tracked,
          refused, told>>

Forever == EndOfTime + 1

\* Channel.banned, in the present.
Banned(ban) == time < ban

Init ==
    /\ time = 0 /\ search = "none" /\ found = <<>> /\ left = {}
    /\ watched = NoChannel /\ kept = 0
    /\ bans = [c \in Channels |-> 0] /\ timer = Forever /\ requested = FALSE
    /\ tracked = {} /\ refused = {} /\ told = [c \in Channels |-> 0]

Tick ==
    /\ time < EndOfTime /\ time' = time + 1
    /\ UNCHANGED <<search, found, left, watched, kept, bans, timer, requested, tracked,
                   refused, told>>

\* CHANNELS_FETCH: the miner's channels are forgotten, and others, or they again, found.
Search ==
    /\ search = "none" /\ search' = "finding"
    /\ \E cs \in SUBSET Channels : found' = [c \in cs |-> 0]
    /\ requested' \in {requested, FALSE} \* GAMES_UPDATE came before, or only a cleanup
    /\ tracked' = {}
    /\ UNCHANGED <<time, left, watched, kept, bans, timer, refused, told>>

----------------------------------------------------------------------------
(* filter_banned_channels.                                                 *)

\* Mutant: what is new is taken to be free.
KnownOfItself(c) == IF c \in DOMAIN found THEN found[c] ELSE bans[c]

\* The ban of the first object of a channel that is banned; all its objects inherit it.
Known(c) ==
    IF c = watched /\ Banned(kept) THEN kept ELSE IF Banned(bans[c]) THEN bans[c] ELSE 0

Asked == DOMAIN found \cup ({watched} \cap Channels) \cup {c \in Channels : Banned(bans[c])}

Filter ==
    /\ search = "finding" /\ Asked # {} /\ search' = "asking"
    /\ left' = Asked
    /\ found' = [c \in DOMAIN found |-> Known(c)]
    /\ kept' = IF watched \in Channels THEN Known(watched) ELSE 0
    /\ bans' = [c \in Channels |-> IF Banned(bans[c]) THEN Known(c) ELSE 0]
    /\ UNCHANGED <<time, watched, timer, requested, tracked, refused, told>>

FilterNothing ==
    /\ search = "finding" /\ Asked = {} /\ search' = "none"
    /\ refused' = {}
    /\ UNCHANGED <<time, found, left, watched, kept, bans, timer, requested, tracked, told>>

\* An answer is for all objects of its channel.
Answer(c) ==
    /\ search = "asking" /\ c \in left /\ left' = left \ {c}
    /\ \E ban \in {0, Forever} \cup time..EndOfTime :
          /\ told' = [told EXCEPT ![c] = ban]
          /\ found' = [d \in DOMAIN found |-> IF d = c THEN ban ELSE found[d]]
          /\ kept' = IF watched = c THEN ban ELSE kept
          /\ bans' = [bans EXCEPT ![c] = IF @ = 0 THEN 0 ELSE ban]
    /\ UNCHANGED <<time, search, watched, timer, requested, tracked, refused>>

\* A batch fails or takes ten seconds, or an answer is incomplete: what is known stays.
NoAnswer(c) ==
    /\ search = "asking" /\ c \in left /\ left' = left \ {c}
    /\ UNCHANGED <<time, search, found, watched, kept, bans, timer, requested, tracked,
                   refused, told>>

\* _schedule_ban_refresh: at the first end that is known.
Ends(b) == {b[c] : c \in {d \in Channels : Banned(b[d])}} \cup {Forever}
FirstEnd(b) == CHOOSE e \in Ends(b) : \A f \in Ends(b) : e <= f

\* The ban of one of the objects of c: they have the same.
Agreed(c) == IF c \in DOMAIN found THEN found[c] ELSE IF c = watched THEN kept ELSE bans[c]

Filtered ==
    /\ search = "asking" /\ left = {} /\ search' = "none"
    /\ bans' = [c \in Channels |-> IF Banned(Agreed(c)) THEN Agreed(c) ELSE 0]
    /\ timer' = FirstEnd(bans')
    /\ tracked' = {c \in DOMAIN found : ~Banned(found[c])}
    /\ refused' = DOMAIN found \ tracked'
    /\ found' = <<>>
    /\ UNCHANGED <<time, left, watched, kept, requested, told>>

----------------------------------------------------------------------------

\* _ban_expired; the loop's clock may be a little ahead of the one of the bans.
BanExpires ==
    /\ timer # Forever /\ timer <= time + 1
    /\ requested' = TRUE
    /\ timer' = FirstEnd(bans)
    /\ UNCHANGED <<time, search, found, left, watched, kept, bans, tracked, refused, told>>

\* CHANNEL_SWITCH, and can_watch of it: a banned channel is not watched.
Switch ==
    /\ search = "none"
    /\ \/ \E c \in tracked \cup {NoChannel} : watched' = c /\ kept' = 0
       \/ Banned(kept) /\ watched' = NoChannel /\ kept' = 0
    /\ UNCHANGED <<time, search, found, left, bans, timer, requested, tracked, refused, told>>

\* authentication_change: the other account has bans of its own.
AccountChanges ==
    /\ search' = "none" /\ found' = <<>> /\ left' = {} /\ tracked' = {} /\ refused' = {}
    /\ watched' = NoChannel /\ kept' = 0
    /\ bans' = [c \in Channels |-> 0] /\ timer' = Forever
    /\ told' = [c \in Channels |-> 0]
    /\ UNCHANGED <<time, requested>>

Next ==
    \/ Tick \/ Search \/ Filter \/ FilterNothing \/ Filtered \/ BanExpires \/ Switch \/ AccountChanges
    \/ \E c \in Channels : Answer(c) \/ NoAnswer(c)

Spec == Init /\ [][Next]_vars

----------------------------------------------------------------------------
(* Properties.                                                             *)

\* A ban that Twitch told of holds for every object of the channel, found before or
\* since, until it ends or Twitch says so: whichever questions fail, the channel is not
\* mined and the miner knows that it cannot watch it. When it ends, the miner looks again.
BansHoldUntilTheyEnd ==
    search = "none" =>
        /\ \A c \in tracked : ~Banned(told[c])
        /\ watched # NoChannel => Banned(kept) = Banned(told[watched])
        /\ \A c \in refused : ~Banned(bans[c]) => requested \/ timer <= time
=============================================================================
