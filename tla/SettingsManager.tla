-------------------------- MODULE SettingsManager ---------------------------
(***************************************************************************)
(* The settings: Settings, which loads and saves settings.json, the        *)
(* SettingsManager of the dashboard, which validates, applies and saves an *)
(* update and hides the secrets, and the mining loop, which adds new games *)
(* to the list by itself and computes what to mine from it.                *)
(***************************************************************************)
EXTENDS Naturals

CONSTANTS Games,     \* every game
          Hosts,     \* of a proxy
          Passwords, \* of a proxy
          Tokens,    \* of the Telegram bot
          Mask,      \* what the dashboard shows in place of a secret
          Absent,    \* a field that is not in the update
          NoProxy, NoToken,
          NoFile, Torn, \* settings.json before its first save, and cut short
          MaxUpdates \* bound: updates and restarts

ConstantsOK ==
    /\ Mask \notin Passwords \cup Tokens
    /\ MaxUpdates \in Nat

VARIABLES
    memory,  \* the Settings object: [games, proxy, token]
    disk,    \* settings.json: the same, NoFile or Torn
    program, \* "runs", "ends" after an error, "off", or "refuses" to start
    pending, \* _games_update_pending
    computing, \* does the mining loop compute what to mine?
    used,    \* the list the wanted games were computed from
    typed,   \* ghost: the proxies and tokens somebody entered
    updates

vars == <<memory, disk, program, pending, computing, used, typed, updates>>

Proxies == [host : Hosts, password : Passwords]
Masked(proxy) == [proxy EXCEPT !.password = Mask]

Defaults == [games |-> {}, proxy |-> NoProxy, token |-> NoToken]

Init ==
    /\ memory = Defaults /\ disk = NoFile /\ program = "runs"
    /\ pending = FALSE /\ computing = FALSE /\ used = {}
    /\ typed = {NoProxy, NoToken} /\ updates = 0

Count == updates < MaxUpdates /\ updates' = updates + 1

----------------------------------------------------------------------------
(* Saving. The file is opened for writing first, so what fails later has   *)
(* destroyed the old one.                                                  *)

Saved(settings) == disk' = settings
SaveFails == disk' \in {disk, Torn}

----------------------------------------------------------------------------
(* SettingsManager.update_settings.                                        *)

\* A field keeps its value when the update does not name it.
Given(new, old) == IF new = Absent THEN old ELSE new

\* What a submitted proxy stands for: its own masked form for itself.
Meant(proxy) ==
    IF memory.proxy # NoProxy /\ proxy = Masked(memory.proxy) THEN memory.proxy ELSE proxy

\* The masked token stands for the one that is stored, and so does an empty field.
MeantToken(token) == IF token \in {Mask, NoToken, Absent} THEN memory.token ELSE token

HasMask(proxy) == proxy \notin Proxies \cup {NoProxy, Absent}

\* Every field is validated before any is written.
Valid(form) == ~HasMask(Meant(form.proxy))

Updated(form) ==
    [games |-> Given(form.games, memory.games),
     proxy |-> Given(Meant(form.proxy), memory.proxy),
     token |-> MeantToken(form.token)]

\* What a form holds: what was typed and what the dashboard once showed.
Forms == [games : (SUBSET Games) \cup {Absent},
          proxy : Proxies \cup {Masked(p) : p \in Proxies} \cup {NoProxy, Absent},
          token : Tokens \cup {Mask, NoToken, Absent}]

\* Mutant: a failed save leaves the new values in memory.
KeepsNew(settings) ==
    /\ SaveFails /\ memory' = settings
    /\ UNCHANGED <<program, pending>>

\* A failed save restores every field, and no effect runs.
RollsBack(settings) ==
    /\ SaveFails
    /\ UNCHANGED <<memory, program, pending>>

\* The effects run after the save: whatever bears on what to mine asks for a new
\* computation.  (Changed games also end the temporary order of the queue.)
Accepts(settings) ==
    /\ Saved(settings) /\ memory' = settings
    /\ pending' = (pending \/ settings.games # memory.games
                           \/ settings.proxy # memory.proxy)
    /\ UNCHANGED program

UpdateSettings ==
    /\ program \in {"runs", "ends"} /\ Count
    /\ \E form \in Forms :
        /\ Valid(form)
        /\ Accepts(Updated(form)) \/ RollsBack(Updated(form))
        /\ typed' = typed \cup ({form.proxy, form.token} \cap (Proxies \cup Tokens))
    /\ UNCHANGED <<computing, used>>

\* TemporaryGameOrder.set through the dashboard: the games are updated.
SetGameOrder ==
    /\ program = "runs"
    /\ pending' = TRUE
    /\ UNCHANGED <<memory, disk, program, computing, used, typed, updates>>

----------------------------------------------------------------------------
(* The mining loop, and the start and end of the program.                  *)

\* GAMES_UPDATE, which takes the request up and then waits for claims.
BeginUpdate ==
    /\ program = "runs" /\ ~computing
    /\ pending' = FALSE /\ computing' = TRUE
    /\ UNCHANGED <<memory, disk, program, used, typed, updates>>

Served == computing' = FALSE /\ UNCHANGED pending

ComputeWanted ==
    /\ program = "runs" /\ computing
    /\ Served /\ used' = memory.games
    /\ UNCHANGED <<memory, disk, program, typed, updates>>

\* auto_add_new_games comes first: a failed save is not caught, and ends the run.
AutoAdd ==
    /\ program = "runs" /\ computing /\ Count
    /\ \E games \in (SUBSET (Games \ memory.games)) \ {{}} :
        LET settings == [memory EXCEPT !.games = @ \cup games]
        IN  /\ memory' = settings
            /\ \/ /\ Saved(settings) /\ Served
                  /\ used' = settings.games /\ UNCHANGED program
               \/ /\ SaveFails /\ program' = "ends"
                  /\ computing' = FALSE /\ UNCHANGED <<pending, used>>
    /\ UNCHANGED typed

\* The program ends by itself, and saves once more, or it is killed.
End ==
    /\ program \in {"runs", "ends"}
    /\ Saved(memory) \/ SaveFails
    /\ program' = "off" /\ computing' = FALSE
    /\ UNCHANGED <<memory, pending, used, typed, updates>>

\* Settings.load: what cannot be read stops the start.
Start ==
    /\ program = "off" /\ Count
    /\ memory' = IF disk \in {NoFile, Torn} THEN Defaults ELSE disk
    /\ program' = IF disk # Torn THEN "runs" ELSE "refuses"
    /\ pending' = FALSE /\ used' = memory'.games
    /\ UNCHANGED <<disk, computing, typed>>

\* Whoever runs the miner removes the file it cannot read.
Repair ==
    /\ program = "refuses"
    /\ disk' = NoFile /\ program' = "off"
    /\ UNCHANGED <<memory, pending, computing, used, typed, updates>>

Next ==
    \/ UpdateSettings
    \/ SetGameOrder
    \/ BeginUpdate
    \/ ComputeWanted
    \/ AutoAdd
    \/ End
    \/ Start
    \/ Repair

Spec == Init /\ [][Next]_vars

----------------------------------------------------------------------------
(* Properties.                                                             *)

\* While the program runs, what is in force is what was last saved: an update that was
\* rejected or could not be saved leaves nothing that a later save or computation
\* would take up; and the miner works with the list or knows that it has to compute
\* again. A mask a dashboard showed once is never stored for a secret, and no password
\* moves to another proxy than the one it was entered with.
SettingsInForce ==
    program = "runs" =>
        /\ (disk \in {memory, Torn}) \/ (disk = NoFile /\ memory = Defaults)
        /\ used # memory.games => pending \/ computing
        /\ {memory.proxy, memory.token} \subseteq typed
----------------------------------------------------------------------------
(* What the property rests on.                                             *)

\* Settings whose proxy and token somebody entered.
Entered == [games : SUBSET Games, proxy : typed, token : typed]

\* Not even a program that has stopped holds, or has saved, other ones.
Inv ==
    /\ {NoProxy, NoToken} \subseteq typed
    /\ memory \in Entered /\ disk \in Entered \cup {NoFile, Torn}
    /\ SettingsInForce
=============================================================================
