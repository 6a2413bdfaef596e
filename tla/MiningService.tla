--------------------------- MODULE MiningService ---------------------------
(***************************************************************************)
(* What the miner promises, whichever of its tasks does it and wherever    *)
(* they are interrupted.  It works only while mining is allowed and until  *)
(* it is told to exit, on one inventory of the account that is logged in.  *)
(* It fetches an inventory because one was asked for, and such a request   *)
(* is dropped by nothing else.  It watches only what was found able to     *)
(* earn, and begins to only while mining is allowed.  An account that is   *)
(* replaced leaves nothing to the next login.                              *)
(***************************************************************************)
CONSTANTS Channel, NoChannel

VARIABLES
    phase,    \* "running", told to exit ("exiting"), or "ended"
    open,     \* is mining allowed?
    asked,    \* has an inventory been asked for?
    loaded,   \* is there an inventory of this account?
    work,     \* what is under way, if anything
    able,     \* the channels found able to earn
    watching  \* the channel being watched

vars == <<phase, open, asked, loaded, work, able, watching>>

Work == {"none", "start", "inventory", "claims", "gather", "delay"}

Init ==
    /\ phase = "running" /\ open \in BOOLEAN
    /\ asked = FALSE /\ loaded = FALSE /\ work = "none"
    /\ able = {} /\ watching = NoChannel

(* A login begins without anything of the account before.                  *)
Login ==
    /\ phase = "running" /\ work = "none"
    /\ ~loaded /\ able = {} /\ watching = NoChannel
    /\ work' = "start"
    /\ UNCHANGED <<phase, open, asked, loaded, able, watching>>

(* Logged in: the inventory is asked for, unless the miner is to exit.     *)
LoggedIn ==
    /\ work = "start"
    /\ work' = "none"
    /\ asked' = (asked \/ phase = "running")
    /\ UNCHANGED <<phase, open, loaded, able, watching>>

Ask ==
    /\ phase = "running"
    /\ asked' = TRUE
    /\ UNCHANGED <<phase, open, loaded, work, able, watching>>

(* The fetch may clear what was known of the channels.                     *)
Fetch ==
    /\ phase = "running" /\ open /\ asked /\ work = "none"
    /\ work' = "inventory"
    /\ asked' = FALSE
    /\ \/ UNCHANGED <<able, watching>>
       \/ able' = {} /\ watching' = NoChannel
    /\ UNCHANGED <<phase, open, loaded>>

Load ==
    /\ work = "inventory"
    /\ work' = "none"
    /\ loaded' = TRUE
    /\ UNCHANGED <<phase, open, asked, able, watching>>

(* Claim what was earned, list channels, or wait before a switch.          *)
Begin ==
    /\ phase = "running" /\ open /\ loaded /\ work = "none"
    /\ work' \in {"claims", "gather", "delay"}
    /\ UNCHANGED <<phase, open, asked, loaded, able, watching>>

(* Channels are judged, and one may be watched from now on.                *)
Judge ==
    /\ phase # "ended" /\ loaded
    /\ work' \in {work, "none"}
    /\ able' \in SUBSET Channel
    /\ \/ UNCHANGED watching
       \/ open /\ watching' \in able \cup able'
    /\ UNCHANGED <<phase, open, asked, loaded>>

StopWatching ==
    /\ watching' = NoChannel
    /\ UNCHANGED <<phase, open, asked, loaded, work, able>>

(* What is under way fails or is cancelled.                                *)
Abandon ==
    /\ phase # "ended"
    /\ work' = "none"
    /\ able' \in SUBSET able
    /\ UNCHANGED <<phase, open, asked, loaded, watching>>

(* The account is replaced, while no work is under way.                    *)
Forget ==
    /\ phase # "ended" /\ work = "none"
    /\ loaded' = FALSE /\ able' = {} /\ watching' = NoChannel
    /\ UNCHANGED <<phase, open, asked, work>>

(* Pause, or the clock; reopening asks for an inventory.                   *)
Toggle ==
    /\ phase # "ended"
    /\ open' = ~open
    /\ asked' \in {asked, asked \/ (open' /\ phase = "running")}
    /\ UNCHANGED <<phase, loaded, work, able, watching>>

Exit ==
    /\ phase = "running"
    /\ phase' = "exiting"
    /\ UNCHANGED <<open, asked, loaded, work, able, watching>>

(* The program ends: on an exit, or because a request failed for good.     *)
End ==
    /\ phase # "ended" /\ work = "none"
    /\ phase' = "ended"
    /\ able' = {} /\ watching' = NoChannel
    /\ UNCHANGED <<open, asked, loaded, work>>

Next ==
    \/ Login \/ LoggedIn \/ Ask \/ Fetch \/ Load \/ Begin \/ Judge
    \/ StopWatching \/ Abandon \/ Forget \/ Toggle \/ Exit \/ End

Spec == Init /\ [][Next]_vars
=============================================================================
