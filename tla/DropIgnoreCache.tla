------------------------- MODULE DropIgnoreCache --------------------------
(***************************************************************************)
(* A campaign, which evaluates DropIgnorePolicy when it is asked and keeps *)
(* the result until the keywords or the claims change.                     *)
(***************************************************************************)
EXTENDS DropIgnore

CONSTANTS Campaigns, \* the graphs of drops to start from
          MaxChanges \* bound: changes of the keywords and claims

ConstantsOK == MaxChanges \in Nat /\ \A drops \in Campaigns : IsGraph(drops)

VARIABLES
    graph,    \* the campaign's drops
    matching, \* the drops whose name contains one of the keywords
    cache,    \* [key, mineable] of _drop_ignore_evaluation
    asked,    \* {what whoever asked last was told}, {} after a change
    changes

vars == <<graph, matching, cache, asked, changes>>

\* No evaluation yet has no mineable drops either.
NoCache == [key |-> <<>>, mineable |-> {}]

Init ==
    /\ graph \in Campaigns
    /\ matching = {}
    /\ cache = NoCache
    /\ asked = {}
    /\ changes = 0

\* Mutant: the claims are not part of the key.
KeywordsOnly == <<matching>>

Key == <<matching, Unclaimed(graph)>>

Evaluated == IF cache.key = Key THEN cache
             ELSE [key |-> Key, mineable |-> Mineable(graph, matching)]

Change == changes < MaxChanges /\ changes' = changes + 1 /\ asked' = {}

Claim(d) ==
    /\ ~graph[d].claimed /\ Change
    /\ graph' = [graph EXCEPT ![d].claimed = TRUE]
    /\ UNCHANGED <<matching, cache>>

\* Settings: drop_name_blacklist.
SetKeywords(names) ==
    /\ names # matching /\ Change
    /\ matching' = names
    /\ UNCHANGED <<graph, cache>>

\* mineable_drop_ids and everything that reads it.
Ask ==
    /\ asked = {}
    /\ cache' = Evaluated
    /\ asked' = {Evaluated.mineable}
    /\ UNCHANGED <<graph, matching, changes>>

Next ==
    \/ Ask
    \/ \E d \in DOMAIN graph : Claim(d)
    \/ \E names \in SUBSET DOMAIN graph : SetKeywords(names)

Spec == Init /\ [][Next]_vars

----------------------------------------------------------------------------
(* Reference and property.                                                 *)

\* What is left to claim for D: D and, through unclaimed drops, its preconditions.
Missing(S) == {p \in UNION {graph[d].pre : d \in S} : p \notin DOMAIN graph}

\* S is closed: it holds the unclaimed preconditions of its members.
Closed(S) == \A d \in S : \A p \in graph[d].pre \cap Unclaimed(graph) : p \in S

\* S can be claimed one by one, each after its preconditions.
Ordered(S) == \A T \in (SUBSET S) \ {{}} : \E d \in T : graph[d].pre \cap T = {}

\* S is a way to the reward of D: it can be watched to the end, no keyword forbids it.
Way(S, d) ==
    /\ d \in S /\ graph[d].reward
    /\ S \subseteq Unclaimed(graph) \ matching
    /\ \A e \in S : graph[e].watch
    /\ Missing(S) = {} /\ Closed(S) /\ Ordered(S)

\* The least ways.
LeastWays(d) == {S \in SUBSET DOMAIN graph :
                    Way(S, d) /\ ~\E T \in SUBSET S : T # S /\ Way(T, d)}

\* What is mined is what lies on a way to some reward nobody ignores, at any time: the
\* cached evaluation never outlives a claim or a change of the keywords, and the
\* recursive walk, which meets cycles and missing drops, finds exactly these drops.
MinesWhatLeadsToRewards ==
    asked \subseteq {UNION UNION {LeastWays(d) : d \in DOMAIN graph}}

----------------------------------------------------------------------------
(* What the property rests on.                                             *)

\* The campaign, if these were its unclaimed drops.
With(unclaimed) == [d \in DOMAIN graph |-> [graph[d] EXCEPT !.claimed = d \notin unclaimed]]

\* The evaluation that is kept is one of this campaign, of some keywords and claims.
Recalled ==
    \/ cache = NoCache
    \/ \E names, unclaimed \in SUBSET DOMAIN graph :
          cache = [key |-> <<names, unclaimed>>, mineable |-> Mineable(With(unclaimed), names)]

Inv ==
    /\ IsGraph(graph) /\ matching \subseteq DOMAIN graph
    /\ Recalled
    /\ asked \subseteq {Mineable(graph, matching)}
=============================================================================
