------------------------------ MODULE Selection ------------------------------
(***************************************************************************)
(* What is mined first.  StreamSelector makes the queue of wanted games    *)
(* that the dashboard shows, and ChannelService orders the channels by     *)
(* which CHANNEL_SWITCH and should_switch choose what to watch; both apply *)
(* the Mining list, the games whose every drop is wanted, the fallback to  *)
(* unlisted games, the priority of rewards and the temporary order of the  *)
(* dashboard.                                                              *)
(*                                                                         *)
(* A campaign here has one drop, which is not claimed and nobody ignores.  *)
(* Channels stream the game of the campaign; categories that are watched   *)
(* on channels of other games are left out.                                *)
(***************************************************************************)
EXTENDS Naturals, Sequences, FiniteSets, SequencesExt, FiniteSetsExt

CONSTANTS Games,        \* numbers, in the order of their names
          Types,        \* of rewards
          Campaigns,    \* that there may be: [game, type, ends, active]; one that is not
                        \* active starts within the hour
          Lists,        \* the sequences of games the user may enter
          Priorities,   \* the sequences of types, empty without a priority
          MaxCampaigns  \* bound: campaigns at a time

ConstantsOK ==
    /\ Games \subseteq Nat /\ IsFiniteSet(Games) /\ IsFiniteSet(Types)
    /\ Campaigns \subseteq [game : Games, type : Types, ends : Nat, active : BOOLEAN]
    /\ Lists \subseteq Seq(Games) /\ <<>> \in Lists
    /\ Priorities \subseteq Seq(Types) /\ <<>> \in Priorities

VARIABLES
    settings,  \* [listed, allDrops, listOnly, priority, allowed]
    order,     \* the temporary order
    inventory, \* the campaigns
    wanted     \* Twitch.wanted_games

vars == <<settings, order, inventory, wanted>>

Settings == [listed : Lists, allDrops : Lists, listOnly : BOOLEAN,
             priority : Priorities, allowed : SUBSET Types]

----------------------------------------------------------------------------
(* Keys: sequences of numbers, of which the first that differ decide.      *)

Less(x, y) == \E i \in DOMAIN x : x[i] < y[i] /\ \A j \in 1..(i - 1) : x[j] = y[j]
LessOrEqual(x, y) == x = y \/ Less(x, y)
Least(keys) == CHOOSE k \in keys : \A other \in keys : LessOrEqual(k, other)

Place(seq, x) == Min({i \in 1..Len(seq) : seq[i] = x} \cup {Len(seq) + 1})

----------------------------------------------------------------------------
(* RewardPriority and TemporaryGameOrder.                                  *)

Enabled == settings.priority # <<>>
Selected(game) == game \in Range(settings.listed)

\* As if there were no reward to wait for, at no time.
NoKey == <<Cardinality(Types) + 1, 1000>>

\* campaign_key: only a drop that can be earned now counts, and a reward nobody wants
\* comes last.
CampaignKey(campaign) ==
    IF ~campaign.active THEN NoKey
    ELSE <<IF campaign.type \in settings.allowed
           THEN Place(settings.priority, campaign.type) ELSE Cardinality(Types) + 1,
           campaign.ends>>

KeyOf(campaigns) == Least({CampaignKey(c) : c \in campaigns} \cup {NoKey})

\* rank: a game that is not in the order comes after those that are.
Rank(game) == Place(order, game)

----------------------------------------------------------------------------
(* The queue.                                                              *)

Of(game) == {c \in inventory : c.game = game}

\* Every type of reward is wanted of these games.
AllDrops(game) == game \in Range(settings.allDrops)
HasWanted(game, types) == \E c \in Of(game) : c.type \in types

Wanted(game) == HasWanted(game, IF AllDrops(game) THEN Types ELSE settings.allowed)

\* The games of the user, and those that _append_unlisted_games adds.
Listed == {g \in Range(settings.listed) \cup Range(settings.allDrops) : Wanted(g)}
Unlisted ==
    IF settings.listOnly THEN {}
    ELSE {g \in Games \ (Listed \cup Range(settings.listed)) : HasWanted(g, settings.allowed)}

\* The games of the user in their sequence, the list before the others, and then what is
\* not listed, the campaign that ends first before the others.  The identity of a game
\* stands for the name that decides between two.
ListKey(game) ==
    IF game \in Listed
    THEN <<0, Place(settings.listed \o settings.allDrops, game), 0>>
    ELSE <<1, Min({c.ends : c \in {d \in Of(game) : d.type \in settings.allowed}}), game>>

\* With a reward priority the listed games come first, each group by its rewards.
RewardKey(game) ==
    IF Enabled THEN <<IF Selected(game) THEN 0 ELSE 1>> \o KeyOf(Of(game)) ELSE <<>>

\* Mutant: the rewards after the order of the dashboard.
QueueKeyByReward(game) == RewardKey(game) \o <<Rank(game)>> \o ListKey(game)

\* The sorts are stable: the last decides before the one it follows, and the temporary
\* order is the last.
QueueKey(game) == <<Rank(game)>> \o RewardKey(game) \o ListKey(game)

\* get_wanted_games.
Queue ==
    LET games == Listed \cup Unlisted IN
    [n \in 1..Cardinality(games) |->
        CHOOSE g \in games :
            Cardinality({h \in games : Less(QueueKey(h), QueueKey(g))}) = n - 1]

----------------------------------------------------------------------------
(* The channels.                                                           *)

\* What a channel that streams the game can progress now.
Candidates(game) == {c \in Of(game) : c.active /\ game \in Range(wanted)}

\* can_watch, of a channel that is online and not banned.
Watchable(game) == Candidates(game) # {}

\* _default_mining_priority: with a fallback, or a priority, the user's own games may
\* come first.
Tier(game) ==
    IF settings.listOnly \/ (Selected(game) /\ Candidates(game) # {}) THEN 0 ELSE 1

DefaultPriority(game) ==
    LET place == Place(wanted, game) IN
    IF settings.listOnly /\ ~Enabled THEN <<0, place>>
    ELSE IF ~Enabled THEN <<Tier(game), place>>
    ELSE <<Tier(game)>> \o KeyOf(Candidates(game)) \o <<place>>

ManualRank(game) == IF Watchable(game) THEN Rank(game) ELSE Len(order) + 1

\* get_mining_priority, of a channel that streams the game.
MiningPriority(game) ==
    IF order = <<>> THEN DefaultPriority(game)
    ELSE <<ManualRank(game)>> \o DefaultPriority(game)

----------------------------------------------------------------------------
(* What changes it.  Each change asks for the games update, which is        *)
(* GAMES_UPDATE's last word on wanted_games.                               *)

Update == wanted' = Queue'

Init ==
    /\ settings = [listed |-> <<>>, allDrops |-> <<>>, listOnly |-> TRUE,
                   priority |-> <<>>, allowed |-> Types]
    /\ order = <<>> /\ inventory = {} /\ wanted = <<>>

ChangeSettings ==
    /\ \/ \E list \in Lists : settings' = [settings EXCEPT !.listed = list]
       \/ \E list \in Lists : settings' = [settings EXCEPT !.allDrops = list]
       \/ settings' = [settings EXCEPT !.listOnly = ~@]
       \/ \E types \in Priorities : settings' = [settings EXCEPT !.priority = types]
       \/ \E types \in SUBSET Types : settings' = [settings EXCEPT !.allowed = types]
    /\ UNCHANGED <<order, inventory>>
    /\ Update

\* set_game_order and clear_game_order.
ChangeOrder ==
    /\ order' \in Lists
    /\ UNCHANGED <<settings, inventory>>
    /\ Update

\* A fetch finds a campaign more or less.
Fetch ==
    /\ \E c \in Campaigns :
          \/ c \in inventory /\ inventory' = inventory \ {c}
          \/ /\ Cardinality(inventory) < MaxCampaigns
             /\ inventory' = inventory \cup {c}
    /\ UNCHANGED <<settings, order>>
    /\ Update

Next == ChangeSettings \/ ChangeOrder \/ Fetch

Spec == Init /\ [][Next]_vars

----------------------------------------------------------------------------
(* Properties.                                                             *)

\* The games whose every drop is wanted are not told from the others by the order of
\* the channels, when rewards have a priority and only listed games are mined.
Told == settings.listOnly /\ Enabled => Range(settings.allDrops) \subseteq Range(settings.listed)

\* What the queue shows first is mined first: of two games that can be watched now, a
\* channel of the one that comes first in the queue is preferred.
InQueueOrder ==
    \A g, h \in Range(wanted) :
        Watchable(g) /\ Watchable(h) /\ Place(wanted, g) < Place(wanted, h)
            => Less(MiningPriority(g), MiningPriority(h))

\* ... and everything the user wants is in the queue, but nothing else.
QueueIsMined ==
    /\ Told => InQueueOrder
    /\ Range(wanted) = {g \in Games : /\ \/ ~settings.listOnly
                                         \/ g \in Range(settings.listed \o settings.allDrops)
                                      /\ Wanted(g)}
----------------------------------------------------------------------------
(* What the property rests on.                                             *)

Inv ==
    /\ settings \in Settings /\ order \in Lists /\ inventory \subseteq Campaigns
    /\ wanted = Queue
=============================================================================
