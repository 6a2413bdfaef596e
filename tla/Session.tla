----------------------------- MODULE Session -----------------------------
(***************************************************************************)
(* The Twitch session of the miner: ImportedSession, which keeps one       *)
(* context in memory and in its file and sends the GQL requests with it,   *)
(* and SessionController, which serializes logins, renewals and logouts    *)
(* and runs the renewal worker.                                            *)
(*                                                                         *)
(* A context is [acct, n]: the account it belongs to and the number of its *)
(* proof, in the order Twitch issued them.  Proofs 1..expired are expired. *)
(* The seed of a renewal is the context itself: every context the          *)
(* controller installs comes with its SDK cookie.                          *)
(*                                                                         *)
(* One action is the code between two awaits.  An operation awaits the     *)
(* controller's lock, the issuer, the activation, and Twitch's validation; *)
(* a caller awaits the session's lock, Twitch (with that lock), the        *)
(* dashboard, and the _updated event.  Waiting for the session's lock after*)
(* one of the first four is the same as that await lasting longer.         *)
(***************************************************************************)
EXTENDS Naturals, FiniteSets

CONSTANTS
    Accounts,    \* Twitch accounts
    Logins,      \* login attempts that may run at once (accept, accept_token)
    Callers,     \* tasks that send GQL requests
    None,
    MaxProofs,   \* bound: proofs Twitch issues
    MaxLogouts,  \* bound: logouts requested
    MaxCrashes   \* bound: crashes and restarts

ASSUME SessionAssumption ==
    /\ MaxProofs \in Nat /\ MaxLogouts \in Nat /\ MaxCrashes \in Nat
    /\ None \notin Accounts \cup Callers \cup Logins \cup {"renew", "logout"}
    /\ Logins \cap {"renew", "logout"} = {}
    /\ None \notin [acct : Accounts, n : Nat]

Ops == Logins \cup {"renew", "logout"}
Contexts == [acct : Accounts, n : 1..MaxProofs]

VARIABLES
    disk,        \* the session file: [ctx, gen, out]
    mem,         \* the same fields in memory
    identity,    \* _identity is known, so the context was validated in this process
    restore,     \* _restore_pending
    rejected,    \* _rejected
    updated,     \* the _updated event
    keeper,      \* who holds the session's lock across an await
    holder,      \* who holds the controller's lock
    op,          \* the controller's operations
    epoch,       \* _epoch, one per logout and stop
    stopping,    \* request_stop and SessionController.stop
    worker,      \* where _run is
    wake, force, \* _wake and _force_renewal
    caller,      \* the tasks in authenticate and gql
    proofs, expired, crashes

file == <<disk, mem, identity, restore, rejected>>
control == <<epoch, stopping>>
work == <<worker, wake, force>>
world == <<proofs, expired, crashes>>
vars == <<file, updated, keeper, holder, op, control, work, caller, world>>

NoSession == [ctx |-> None, gen |-> 0, out |-> FALSE]
NoOp == [pc |-> "idle", epoch |-> 0, ctx |-> None, acct |-> None, gen |-> 0,
         seen |-> NoSession, late |-> FALSE, result |-> "none"]
NoCall == [pc |-> "idle", user |-> None, pending |-> FALSE, sent |-> None]

TypeOK ==
    /\ \A s \in {disk, mem} : /\ s.ctx \in Contexts \cup {None}
                              /\ s.gen \in 0..MaxProofs
                              /\ s.out \in BOOLEAN
                              /\ (s.ctx = None <=> s.gen = 0) /\ (s.out => s.ctx = None)
    /\ {identity, restore, rejected, updated, wake, force, stopping} \subseteq BOOLEAN
    /\ epoch \in 0..(MaxLogouts + 1)
    /\ keeper \in Callers \cup {None}
    /\ holder \in Ops \cup {None}
    /\ worker \in {"idle", "sleep", "renewing", "relogin", "retry", "ended"}
    /\ \A o \in Ops : op[o].pc \in {"idle", "lock", "issue", "check", "twitch",
                                    "gather", "save", "cookies"}
    /\ \A c \in Callers : caller[c].pc \in {"idle", "auth", "restore", "pend", "wait",
                                            "send", "request"}

Fresh(ctx) == ctx # None /\ ctx.n > expired

\* status()["state"] = "ready"
Ready == Fresh(mem.ctx) /\ identity /\ ~rejected

Seed == mem.ctx

----------------------------------------------------------------------------
(* The session's file, and what is lost with the process.                  *)

\* __init__ takes the file over: the context must be validated again.
Restored ==
    /\ mem' = disk
    /\ identity' = FALSE
    /\ restore' = (disk.ctx # None)
    /\ rejected' = FALSE

Init ==
    /\ disk = NoSession /\ mem = NoSession
    /\ identity = FALSE /\ restore = FALSE /\ rejected = FALSE
    /\ updated = FALSE
    /\ keeper = None /\ holder = None
    /\ op = [o \in Ops |-> NoOp]
    /\ epoch = 0 /\ stopping = FALSE
    /\ worker = "idle" /\ wake = FALSE /\ force = FALSE
    /\ caller = [c \in Callers |-> NoCall]
    /\ proofs = 0 /\ expired = 0 /\ crashes = 0

\* A crash or an end of the process at any await, and the next start.
Restart ==
    /\ crashes < MaxCrashes
    /\ crashes' = crashes + 1
    /\ Restored
    /\ updated' = FALSE /\ keeper' = None /\ holder' = None
    /\ op' = [o \in Ops |-> NoOp]
    /\ epoch' = 0 /\ stopping' = FALSE
    /\ worker' = (IF disk.ctx = None THEN "idle" ELSE "sleep")
    /\ wake' = FALSE /\ force' = FALSE
    /\ caller' = [c \in Callers |-> NoCall]
    /\ UNCHANGED <<disk, proofs, expired>>

\* Time passes: proofs expire, the oldest first.
Expire ==
    /\ expired < proofs
    /\ expired' = expired + 1
    /\ UNCHANGED <<file, updated, keeper, holder, op, control, work, caller, proofs, crashes>>

\* _updated.set(): whoever waits for it goes on.
Notified(cs) == [c \in Callers |-> IF cs[c].pc = "wait" THEN [cs[c] EXCEPT !.pc = "auth"]
                                   ELSE cs[c]]
Notify == updated' = TRUE /\ caller' = Notified(caller)

----------------------------------------------------------------------------
(* What every operation of the controller does.                            *)


\* Mutant: the epoch is not looked at.
CurrentEver(o) == ~stopping

Current(o) == ~stopping /\ op[o].epoch = epoch


\* Mutant: an operation that fails keeps the lock.
FinishLocked(o, result) ==
    /\ op' = [op EXCEPT ![o] = [NoOp EXCEPT !.result = IF o = "renew" THEN result ELSE "none"]]
    /\ holder' = IF holder = o /\ result = "ok" THEN None ELSE holder

\* The operation is over, and its lock free.  Only the worker hears of a result.
Finish(o, result) ==
    /\ op' = [op EXCEPT ![o] = [NoOp EXCEPT !.result = IF o = "renew" THEN result ELSE "none"]]
    /\ holder' = IF holder = o THEN None ELSE holder

Goto(o, pc) == op' = [op EXCEPT ![o].pc = pc]

\* accept, accept_token and renew_once note the epoch before they wait for the lock.
Begun == [NoOp EXCEPT !.pc = "lock", !.epoch = epoch]

StartLogin(o) ==
    /\ op[o].pc = "idle" /\ ~stopping
    /\ op' = [op EXCEPT ![o] = Begun]
    /\ UNCHANGED <<file, updated, keeper, holder, control, work, caller, world>>

\* A renewal needs a seed and remembers which session it renews.
Admitted(o) == Current(o) /\ (o = "renew" => Seed # None)

\* The lock is taken and current() checked.
Acquire(o) ==
    /\ op[o].pc = "lock" /\ holder = None
    /\ IF Admitted(o)
       THEN /\ holder' = o
            /\ op' = [op EXCEPT ![o] = [@ EXCEPT !.pc = "issue", !.gen = mem.gen,
                                        !.acct = IF o = "renew" THEN mem.ctx.acct ELSE None]]
       ELSE Finish(o, "error")
    /\ UNCHANGED <<file, updated, keeper, control, work, caller, world>>

\* The issuer answers with a proof of the account whose token it was given.
Issue(o) ==
    /\ op[o].pc = "issue"
    /\ proofs < MaxProofs
    /\ \E a \in IF o = "renew" THEN {op[o].acct} ELSE Accounts :
          op' = [op EXCEPT ![o].ctx = [acct |-> a, n |-> proofs + 1], ![o].pc = "check"]
    /\ proofs' = proofs + 1
    /\ UNCHANGED <<file, updated, keeper, holder, control, work, caller, expired, crashes>>

\* authorized(): a renewal only counts for the generation it began with.
Authorized(o) == Current(o) /\ (o = "renew" => mem.gen = op[o].gen)

\* install asks for a newer context than the present one, unless a login replaces it.
Candidate(o) == /\ Fresh(op[o].ctx)
                /\ o = "renew" /\ mem.ctx # None => op[o].ctx.n > mem.ctx.n

\* Any of the awaits may fail or be refused, authorized() of a login among them.
OpFails(o) ==
    /\ op[o].pc \in {"issue", "check", "twitch"}
    /\ \E result \in {"error", "relogin"} : Finish(o, result)
    /\ UNCHANGED <<file, updated, keeper, control, work, caller, world>>

\* A cancelled operation ends at its await, though an issuer may outlast that.
OpCancelled(o) ==
    /\ op[o].late
    /\ Finish(o, "cancelled")
    /\ UNCHANGED <<file, updated, keeper, control, work, caller, world>>

\* authentication_change, for a login or a logout: tasks of the miner's run are cancelled.
Drained(o) == IF o = "renew" THEN {{}} ELSE SUBSET {c \in Callers : caller[c].pc # "idle"}

Without(cs) == [c \in Callers |-> IF c \in cs THEN NoCall ELSE caller[c]]

\* The session's lock is free once those are gone.
Unlocked(cs) == keeper \in cs \cup {None} /\ keeper' = None

\* install, before it asks Twitch; what is there now is remembered (_revision).
Check(o) ==
    /\ op[o].pc = "check"
    /\ \E cs \in Drained(o) : Unlocked(cs) /\ caller' = Without(cs)
    /\ IF Authorized(o) /\ Candidate(o)
       THEN /\ op' = [op EXCEPT ![o].pc = "twitch", ![o].seen = mem]
            /\ UNCHANGED holder
       ELSE Finish(o, "error")
    /\ UNCHANGED <<file, updated, control, work, world>>

\* After Twitch validated the candidate everything is checked again, with the lock.
Commits(o) == Authorized(o) /\ mem = op[o].seen /\ Candidate(o)

\* The file is replaced as a whole or, when that fails, not at all.
Written(s) == disk' = s

Installed(o) == [ctx |-> op[o].ctx, gen |-> mem.gen + 1, out |-> FALSE]


\* Mutant: the file is not written.
SaveInMemory(o) == /\ mem' = Installed(o)
                   /\ UNCHANGED disk

\* The file is written before memory changes; then nothing can fail any more.
Save(o) == /\ Written(Installed(o))
           /\ mem' = Installed(o)

\* After a login the worker looks again; a renewal was started by the worker.
Commit(o) ==
    /\ op[o].pc = "twitch" /\ keeper = None
    /\ Commits(o)
    /\ Save(o)
    /\ identity' = TRUE /\ restore' = FALSE /\ rejected' = FALSE
    /\ Notify
    /\ Finish(o, "ok")
    /\ wake' = (wake \/ o # "renew")
    /\ UNCHANGED <<keeper, control, worker, force, world>>

----------------------------------------------------------------------------
(* Logout and stop.                                                        *)

\* What is under way is cancelled, after the epoch has changed.
Superseded == [o \in Ops |-> IF o # "logout" /\ op[o].pc # "idle"
                             THEN [op[o] EXCEPT !.late = TRUE] ELSE op[o]]

StartLogout ==
    /\ op["logout"].pc = "idle" /\ ~stopping
    /\ epoch < MaxLogouts
    /\ epoch' = epoch + 1
    /\ op' = [Superseded EXCEPT !["logout"] = [NoOp EXCEPT !.pc = "gather"]]
    /\ UNCHANGED <<file, updated, keeper, holder, stopping, work, caller, world>>

\* All that was cancelled has ended, and the lock is free.
Gathered ==
    /\ op["logout"].pc = "gather"
    /\ \A o \in Ops : ~op[o].late
    /\ holder = None
    /\ holder' = "logout"
    /\ Goto("logout", "save")
    /\ UNCHANGED <<file, updated, keeper, control, work, caller, world>>

Forgotten == [ctx |-> None, gen |-> 0, out |-> TRUE]

\* The logout is written before memory is cleared, within an activation.
SaveLogout ==
    /\ op["logout"].pc = "save"
    /\ \E cs \in Drained("logout") : Unlocked(cs) /\ caller' = Notified(Without(cs))
    /\ Written(Forgotten) /\ mem' = Forgotten
    /\ identity' = FALSE /\ restore' = FALSE /\ rejected' = FALSE
    /\ updated' = TRUE
    /\ Goto("logout", "cookies")
    /\ UNCHANGED <<holder, control, work, world>>

\* The file cannot be written, or the cookies not be deleted.
LogoutFails ==
    /\ op["logout"].pc \in {"save", "cookies"}
    /\ Finish("logout", "error")
    /\ UNCHANGED <<file, updated, keeper, control, work, caller, world>>

CookiesCleared ==
    /\ op["logout"].pc = "cookies"
    /\ Finish("logout", "ok")
    /\ force' = FALSE /\ wake' = TRUE
    /\ UNCHANGED <<file, updated, keeper, control, worker, caller, world>>

\* request_stop and SessionController.stop: operations and worker are cancelled.
Stop ==
    /\ ~stopping
    /\ stopping' = TRUE
    /\ epoch' = epoch + 1
    /\ op' = Superseded
    /\ worker' = "ended" /\ wake' = TRUE
    /\ Notify
    /\ UNCHANGED <<file, keeper, holder, force, world>>

----------------------------------------------------------------------------
(* The renewal worker.                                                     *)

\* The head of its loop: _force_renewal is cleared when a renewal begins.
WorkerLooks(forced) ==
    IF Seed # None /\ forced
    THEN /\ worker' = "renewing"
         /\ force' = FALSE
         /\ op' = [op EXCEPT !["renew"] = Begun]
    ELSE /\ worker' = (IF Seed = None THEN "idle" ELSE "sleep")
         /\ force' = forced
         /\ op' = [op EXCEPT !["renew"] = NoOp]

\* _wait returns because of the event, which it clears.
WorkerWakes ==
    /\ worker \in {"idle", "sleep", "relogin", "retry"} /\ wake
    /\ wake' = FALSE
    /\ WorkerLooks(force \/ worker = "retry")
    /\ UNCHANGED <<file, updated, keeper, holder, control, caller, world>>

\* _wait returns because its time is over: the proof expires soon, or it is time to retry.
WorkerTimeout ==
    /\ worker \in {"sleep", "retry"}
    /\ wake' = FALSE
    /\ WorkerLooks(TRUE)
    /\ UNCHANGED <<file, updated, keeper, holder, control, caller, world>>

\* The renewal has ended.  Only a new login helps after some of its errors.
WorkerHears ==
    /\ worker = "renewing" /\ op["renew"].pc = "idle"
    /\ \/ /\ op["renew"].result \in {"ok", "cancelled"}
          /\ WorkerLooks(force)
       \/ /\ op["renew"].result \in {"relogin", "error"}
          /\ worker' = (IF op["renew"].result = "error" THEN "retry" ELSE "relogin")
          /\ op' = [op EXCEPT !["renew"] = NoOp]
          /\ UNCHANGED force
    /\ UNCHANGED <<file, updated, keeper, holder, control, wake, caller, world>>


\* Mutant: the worker is not woken.
RequestQuietly == /\ force' = (Seed # None \/ force)
                  /\ UNCHANGED wake

\* request_renewal, called by whoever finds no usable context.
RequestRenewal ==
    IF Seed # None /\ ~force THEN force' = TRUE /\ wake' = TRUE
    ELSE UNCHANGED <<force, wake>>

----------------------------------------------------------------------------
(* The callers: gql, and authenticate inside it.                           *)

StartCall(c) ==
    /\ caller[c].pc = "idle" /\ ~stopping
    /\ caller' = [caller EXCEPT ![c] = [NoCall EXCEPT !.pc = "auth",
                                        !.user = IF mem.ctx = None THEN None ELSE mem.ctx.acct]]
    /\ UNCHANGED <<file, updated, keeper, holder, op, control, work, world>>

Left(c) == caller' = [caller EXCEPT ![c] = NoCall]

CallerStops(c) ==
    /\ stopping
    /\ caller[c].pc \in {"auth", "send"}
    /\ Left(c)
    /\ UNCHANGED <<file, updated, keeper, holder, op, control, work, world>>

\* A restored context is validated once, with the lock held meanwhile.
AuthRestore(c) ==
    /\ caller[c].pc = "auth" /\ keeper = None /\ ~stopping
    /\ Fresh(mem.ctx) /\ restore
    /\ restore' = FALSE
    /\ keeper' = c
    /\ caller' = [caller EXCEPT ![c].pc = "restore"]
    /\ UNCHANGED <<disk, mem, identity, rejected, updated, holder, op, control, work, world>>

AuthRestored(c) ==
    /\ caller[c].pc = "restore"
    /\ \/ identity' = TRUE /\ UNCHANGED rejected
       \/ rejected' = TRUE /\ UNCHANGED identity
    /\ keeper' = None
    /\ caller' = [caller EXCEPT ![c].pc = "auth"]
    /\ UNCHANGED <<disk, mem, restore, updated, holder, op, control, work, world>>

\* The context can be used; the dashboard's prompt is taken back.
AuthReady(c) ==
    /\ caller[c].pc = "auth" /\ keeper = None /\ ~stopping
    /\ Ready
    /\ caller' = [caller EXCEPT ![c].pc = "send", ![c].pending = FALSE]
    /\ UNCHANGED <<file, updated, keeper, holder, op, control, work, world>>

\* It cannot: the event is cleared, the dashboard asks for a login once.
AuthWaits(c) ==
    /\ caller[c].pc = "auth" /\ keeper = None /\ ~stopping
    /\ ~Ready /\ ~(Fresh(mem.ctx) /\ restore)
    /\ updated' = FALSE
    /\ IF caller[c].pending
       THEN /\ caller' = [caller EXCEPT ![c].pc = "wait"]
            /\ RequestRenewal
       ELSE /\ caller' = [caller EXCEPT ![c].pc = "pend", ![c].pending = TRUE]
            /\ UNCHANGED <<force, wake>>
    /\ UNCHANGED <<file, keeper, holder, op, control, worker, world>>

\* After the dashboard was told, a renewal is asked for and the event awaited.
Pended(c) ==
    /\ caller[c].pc = "pend"
    /\ caller' = [caller EXCEPT ![c].pc = IF updated THEN "auth" ELSE "wait"]
    /\ RequestRenewal
    /\ UNCHANGED <<file, updated, keeper, holder, op, control, worker, world>>


\* Mutant: whoever is logged in by then.
AnyUser(c) == TRUE

\* With the lock again: a request never goes to the account of somebody else.
SameUser(c) == caller[c].user = (IF mem.ctx = None THEN None ELSE mem.ctx.acct)

\* The request is sent with the lock held, so no context replaces the one it carries.
Send(c) ==
    /\ caller[c].pc = "send" /\ keeper = None /\ ~stopping
    /\ \/ /\ ~SameUser(c)
          /\ Left(c)
          /\ UNCHANGED keeper
       \/ /\ SameUser(c) /\ mem.ctx # None /\ ~(Fresh(mem.ctx) /\ ~rejected)
          /\ caller' = [caller EXCEPT ![c].pc = "auth"]
          /\ UNCHANGED keeper
       \/ /\ SameUser(c) /\ Fresh(mem.ctx) /\ ~rejected
          /\ caller' = [caller EXCEPT ![c].pc = "request", ![c].sent = mem.ctx]
          /\ keeper' = c
    /\ UNCHANGED <<file, updated, holder, op, control, work, world>>

Answered(c) ==
    /\ caller[c].pc = "request"
    /\ keeper' = None
    /\ Left(c)
    /\ UNCHANGED <<file, updated, holder, op, control, work, world>>

\* Twitch refuses the proof: it is not used again, and the refused rows are sent anew.
Rejected(c) ==
    /\ caller[c].pc = "request"
    /\ rejected' = TRUE
    /\ keeper' = None
    /\ caller' = [caller EXCEPT ![c].pc = "auth", ![c].sent = None]
    /\ UNCHANGED <<disk, mem, identity, restore, updated, holder, op, control, work, world>>

\* A known read is sent again, after a delay which an update ends.
Transient(c) ==
    /\ caller[c].pc = "request" /\ ~stopping
    /\ updated' = FALSE
    /\ keeper' = None
    /\ caller' = [caller EXCEPT ![c].pc = "auth", ![c].sent = None]
    /\ UNCHANGED <<file, holder, op, control, work, world>>

----------------------------------------------------------------------------
OpStep(o) == \/ Acquire(o) \/ Issue(o) \/ OpFails(o) \/ OpCancelled(o)
             \/ Check(o) \/ Commit(o)

CallStep(c) == \/ StartCall(c) \/ CallerStops(c) \/ AuthRestore(c) \/ AuthRestored(c)
               \/ AuthReady(c) \/ AuthWaits(c) \/ Pended(c) \/ Send(c) \/ Answered(c)
               \/ Rejected(c) \/ Transient(c)

Next ==
    \/ \E o \in Logins : StartLogin(o)
    \/ \E o \in Ops : OpStep(o)
    \/ \E c \in Callers : CallStep(c)
    \/ StartLogout \/ Gathered \/ SaveLogout \/ LogoutFails \/ CookiesCleared
    \/ Stop
    \/ WorkerWakes \/ WorkerTimeout \/ WorkerHears
    \/ Restart \/ Expire

\* asyncio's locks are first come, first served, so whoever keeps asking gets them;
\* every await of an operation and of a request has a time limit; timers fire.
\* Nothing is assumed of the user: logins, logouts and calls need not happen.
CallGoes(c) == \/ CallerStops(c) \/ AuthRestore(c) \/ AuthRestored(c) \/ AuthReady(c)
               \/ AuthWaits(c) \/ Pended(c) \/ Send(c) \/ Answered(c) \/ Rejected(c)
               \/ Transient(c)

LogoutGoes == Gathered \/ SaveLogout \/ LogoutFails \/ CookiesCleared

Fairness ==
    /\ \A o \in Ops : SF_vars(OpStep(o))
    /\ \A c \in Callers : SF_vars(CallGoes(c))
    /\ SF_vars(LogoutGoes)
    /\ WF_vars(WorkerWakes) /\ WF_vars(WorkerTimeout) /\ WF_vars(WorkerHears)

Spec == Init /\ [][Next]_vars

LiveSpec == Spec /\ Fairness

----------------------------------------------------------------------------
(* Properties.                                                             *)

\* A login or a renewal that was under way when a logout or a stop was requested
\* never installs its session, however long its issuer ignores the cancellation.
LateNeverInstalls ==
    [][mem'.ctx \notin {mem.ctx, None}
       => \E o \in Ops : op[o].ctx = mem'.ctx /\ ~op[o].late]_vars

\* A request in flight carries the context that is in memory, of the account its
\* caller began with: a rejection condemns the proof it was given for and no newer
\* one, and no answer for one account reaches a task of another.
InFlightIsCurrent ==
    \A c \in Callers : caller[c].pc = "request" =>
        caller[c].sent = mem.ctx /\ caller[c].sent.acct = caller[c].user

\* A caller that finds the proof unusable gets a renewal started while there is a seed,
\* also when the last one ended with an error that only a new login should cure.
RenewalRequestsServed ==
    force /\ Seed # None ~> worker = "renewing" \/ Seed = None \/ stopping

\* Every logout ends, with whatever logins and renewals it has to wait for.
LogoutEnds == op["logout"].pc # "idle" ~> op["logout"].pc = "idle"

\* A task that waits for a session goes on once there is a usable one.
WaitersResume ==
    \A c \in Callers : caller[c].pc = "wait" /\ Ready ~> caller[c].pc # "wait" \/ ~Ready

\* Across crashes, failed writes, races and restarts the session is what a login or a
\* renewal of the same account was offered last, used once and as a whole, and only a
\* logout drops it.
Offered == {o \in Ops : op[o].ctx # None}
Abstract == INSTANCE AbstractSession WITH
    session <- [ctx |-> mem.ctx, out |-> mem.out],
    offer <- IF Offered = {} THEN [ctx |-> None, renews |-> FALSE]
             ELSE LET o == CHOOSE o \in Offered : TRUE
                  IN [ctx |-> op[o].ctx, renews |-> o = "renew"]
ImplementsAbstract == Abstract!Init /\ [][Abstract!Next]_(Abstract!vars)
=============================================================================
