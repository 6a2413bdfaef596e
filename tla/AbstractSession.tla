------------------------- MODULE AbstractSession -------------------------
(***************************************************************************)
(* What the miner promises of the Twitch session it keeps across restarts. *)
(* Twitch offers one context at a time, to a login or to the renewal of an *)
(* account.  The session is replaced as a whole by what is offered, once;  *)
(* a renewal only replaces an older context of its own account; a logout   *)
(* leaves nothing of the session, and nothing else loses it.               *)
(***************************************************************************)
EXTENDS Naturals

CONSTANTS Accounts, None

VARIABLES session,      \* [ctx, out]: the context [acct, n], whether logged out
          offer,        \* [ctx, renews]: what was offered and not yet used
          proofs        \* how many contexts Twitch has issued so far

vars == <<session, offer, proofs>>

Nothing == [ctx |-> None, renews |-> FALSE]

Init == /\ session = [ctx |-> None, out |-> FALSE]
        /\ offer = Nothing
        /\ proofs = 0

Offer == /\ offer = Nothing
         /\ proofs' = proofs + 1
         /\ \E a \in Accounts, renews \in BOOLEAN :
               offer' = [ctx |-> [acct |-> a, n |-> proofs'], renews |-> renews]
         /\ UNCHANGED session

Withdraw == /\ offer' = Nothing
            /\ UNCHANGED <<session, proofs>>

Use == /\ offer # Nothing
       /\ offer.renews => /\ session.ctx # None
                          /\ session.ctx.acct = offer.ctx.acct
                          /\ session.ctx.n < offer.ctx.n
       /\ session' = [ctx |-> offer.ctx, out |-> FALSE]
       /\ offer' = Nothing
       /\ UNCHANGED proofs

Logout == /\ session' = [ctx |-> None, out |-> TRUE]
          /\ UNCHANGED <<offer, proofs>>

Next == Offer \/ Withdraw \/ Use \/ Logout

Spec == Init /\ [][Next]_vars
==========================================================================
