------------------------------ MODULE MCDrops ------------------------------
EXTENDS Drops

\* Two drops that are earned at once, one of them longer than the other.
TwoDrops == {"first", "second"}
TwoNeeded == [first |-> 1, second |-> 2]
NoPreconditions == [first |-> {}, second |-> {}]
TwoListed == <<"first", "second">>
============================================================================
