------------------------------ MODULE MCMiner ------------------------------
(* Instances of Miner for TLC.                                             *)
EXTENDS Miner, TLC

CONSTANTS c1, c2, c3

(* c1 and c3 are objects of one channel, and differ in nothing.            *)
MCId  == [c \in Channel |-> IF c \in {c1, c3} THEN "a" ELSE "b"]
Twins == Permutations({c1, c3})

(* That channel is the most wanted one.                                    *)
MCRank == [c \in Channel |-> IF c \in {c1, c3} THEN 0 ELSE 1]

(* All channels stream one game, or the first another one than the rest.   *)
OneGame  == [c \in Channel |-> "g1"]
TwoGames == [c \in Channel |-> IF c \in {c1, c3} THEN "g1" ELSE "g2"]
=============================================================================
