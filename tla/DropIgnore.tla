---------------------------- MODULE DropIgnore ----------------------------
(***************************************************************************)
(* Which drops of a campaign are still worth mining: how DropIgnorePolicy  *)
(* evaluates the graph of the drops and their preconditions.               *)
(*                                                                         *)
(* A drop is [claimed, watch, reward, pre]; whether a keyword occurs in    *)
(* its name is the set of names that match.  The text of a reason is left  *)
(* out.                                                                    *)
(***************************************************************************)
EXTENDS Naturals, FiniteSets

\* The drops and what they name as preconditions, which may be missing.
Names(drops) == DOMAIN drops \cup UNION {drops[d].pre : d \in DOMAIN drops}

IsGraph(drops) ==
    /\ IsFiniteSet(DOMAIN drops)
    /\ drops \in [DOMAIN drops -> [claimed : BOOLEAN, watch : BOOLEAN, reward : BOOLEAN,
                                  pre : SUBSET Names(drops)]]

Unclaimed(drops) == {d \in DOMAIN drops : ~drops[d].claimed}

\* One pass over the drops: a precondition that is ignored blocks its dependents.
Block(drops, ignored) ==
    ignored \cup {d \in Unclaimed(drops) : drops[d].pre \cap ignored # {}}

\* Directly ignored, and then until a pass changes nothing.
Reasons(drops, matching) ==
    LET after[n \in 0..Cardinality(DOMAIN drops)] ==
            IF n = 0 THEN Unclaimed(drops) \cap matching ELSE Block(drops, after[n - 1])
    IN  after[Cardinality(DOMAIN drops)]

\* What collect_branch(d, visiting) returns, by what it returns for others: the drops to
\* mine for d, as {branch}, or {} when that is impossible.
Collected(drops, ignored, branch, d, visiting) ==
    IF d \notin DOMAIN drops THEN {}
    ELSE IF drops[d].claimed THEN {{}}
    ELSE IF d \in ignored \cup visiting \/ ~drops[d].watch THEN {}
    ELSE LET parts == {branch[<<p, visiting \cup {d}>>] : p \in drops[d].pre}
         IN  IF {} \in parts THEN {} ELSE {{d} \cup UNION UNION parts}

Branches(drops, ignored) ==
    LET branch[call \in Names(drops) \X SUBSET DOMAIN drops] ==
            Collected(drops, ignored, branch, call[1], call[2])
    IN  [d \in DOMAIN drops |-> branch[<<d, {}>>]]

Mineable(drops, matching) ==
    LET ignored == Reasons(drops, matching)
        branches == Branches(drops, ignored)
    IN  UNION UNION {branches[d] : d \in {d \in Unclaimed(drops) \ ignored :
                                            drops[d].watch /\ drops[d].reward}}
=============================================================================
