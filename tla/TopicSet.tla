------------------------------ MODULE TopicSet ------------------------------
(***************************************************************************)
(* What the websocket pool promises the miner: one set of subscribed       *)
(* topics.  How many connections carry them, and which, does not show;     *)
(* only a set too large for all connections together is refused.           *)
(***************************************************************************)
EXTENDS Naturals, FiniteSets

CONSTANTS Topic, Capacity

VARIABLES
    subscribed, \* the topics the miner listens for
    overflow    \* has a subscription been refused?

Init == subscribed = {} /\ overflow = FALSE

Subscribe(S) ==
    /\ ~overflow
    /\ subscribed' = subscribed \cup S
    /\ overflow' = (Cardinality(subscribed') > Capacity)

Unsubscribe(S) ==
    /\ ~overflow
    /\ subscribed' = subscribed \ S
    /\ UNCHANGED overflow

Forget == subscribed' = {} /\ UNCHANGED overflow

Next ==
    \/ \E S \in SUBSET Topic : Subscribe(S) \/ Unsubscribe(S)
    \/ Forget

Spec == Init /\ [][Next]_<<subscribed, overflow>>
=============================================================================
