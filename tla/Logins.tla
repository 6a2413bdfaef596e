------------------------------ MODULE Logins ------------------------------
(***************************************************************************)
(* The three ways to log in and what keeps them apart: ContainerLogin, the *)
(* browser the miner runs itself, HelperConnections, which admits one      *)
(* desktop helper, and a token given on the dashboard.  The dashboard's    *)
(* requests go through Twitch.enable_helper, cancel_helper, logout and     *)
(* accept_token, one at a time because of _logout_lock; shutdown does not  *)
(* wait for it.                                                            *)
(*                                                                         *)
(* SessionController is module Session; here an admitted login installs a  *)
(* session or fails some time later, also after it was cancelled, because  *)
(* an issuer may outlast that.  Attempt numbers are only ever compared     *)
(* with the present one, so a login remembers whether its own still is.    *)
(* An action is the code between two awaits; a task that is created takes  *)
(* its first step, and whoever awaits its end goes on, before anything     *)
(* else happens.                                                           *)
(***************************************************************************)
EXTENDS Naturals, FiniteSets

CONSTANT MaxInstalls   \* bound: sessions installed

ConstantsOK == MaxInstalls \in Nat

Requests == {"enable", "cancel", "logout", "token"}
Closers == Requests \cup {"shutdown"}

VARIABLES
    ready, gen,   \* the session's state is "ready", and its generation
    asked,        \* a task waits for a session (import_pending)
    login,        \* ContainerLogin: [state, needed]
    run,          \* its task: [pc, current, cut, failed]
    helper,       \* HelperConnections: [state, live, ticket, gen], and a history: refused
    accept,       \* the request in HelperConnections.accept
    token,        \* the request in SessionController.accept_token
    at,           \* where the dashboard's requests and the shutdown are
    lock,         \* who holds _logout_lock
    stopped,      \* which of helper, browser and controller were told to stop
    void,         \* the logins under way that a later request has replaced
    installs

session == <<ready, gen, installs>>
tasks == <<run, accept, token>>
doing == <<at, lock, stopped>>
vars == <<session, asked, login, helper, tasks, doing, void>>

NoTask == [pc |-> "none", current |-> FALSE, cut |-> FALSE, failed |-> FALSE]
Admitted == [NoTask EXCEPT !.pc = "admit", !.current = TRUE]

TypeOK ==
    /\ {ready, asked} \subseteq BOOLEAN
    /\ gen \in 0..MaxInstalls /\ installs \in 0..MaxInstalls
    /\ login.state \in {"idle", "starting", "sign_in", "verifying", "error"}
    /\ run.pc \in {"none", "start", "wait", "capture", "admit", "leave"}
    /\ helper.state \in {"disabled", "waiting", "connected", "verifying", "complete", "error"}
    /\ {accept.pc, token.pc} \subseteq {"none", "admit"}
    /\ at \in [Closers -> {"idle", "lock", "helper", "browser", "controller", "done"}]
    /\ lock \in Requests \cup {"free"}
    /\ stopped \subseteq {"helper", "browser", "controller"}
    /\ void \subseteq {"run", "accept", "token"}

\* Refused: the last request closed every way to log in and was then turned down.
Disabled == [state |-> "disabled", live |-> FALSE, ticket |-> FALSE, gen |-> 0,
             refused |-> FALSE]

Init ==
    /\ ready = FALSE /\ gen = 0 /\ installs = 0
    /\ asked = FALSE
    /\ login = [state |-> "idle", needed |-> FALSE]
    /\ run = NoTask /\ accept = NoTask /\ token = NoTask
    /\ helper = Disabled
    /\ at = [o \in Closers |-> "idle"]
    /\ lock = "free" /\ stopped = {} /\ void = {}

----------------------------------------------------------------------------
(* Pieces.                                                                 *)

\* The helper was chosen, so the miner does not open its own browser.
Selected == helper.state \notin {"disabled", "complete"}

Running(t) == t.pc # "none"

\* Mutant: the attempt number stays.
JustCancelled(t) == IF Running(t) THEN [t EXCEPT !.cut = TRUE] ELSE t

\* The attempt number changes and the task is cancelled, wherever it is.
Replaced(t) == IF Running(t) THEN [t EXCEPT !.cut = TRUE, !.current = FALSE] ELSE t
Outdated(t) == [t EXCEPT !.current = FALSE]

\* ContainerLogin.request_login: a task is created unless there is one.
CanStart(l) == "browser" \notin stopped /\ ~Running(run) /\ l.state = "idle"
RequestLogin(l) ==
    /\ login' = [state |-> IF CanStart(l) THEN "starting" ELSE l.state, needed |-> TRUE]
    /\ run' = IF CanStart(l) THEN [NoTask EXCEPT !.pc = "start", !.current = TRUE] ELSE run
    /\ token' = IF CanStart(l) THEN Outdated(token) ELSE token

Install == /\ installs < MaxInstalls
           /\ installs' = installs + 1
           /\ ready' = TRUE /\ gen' = gen + 1

\* on_change after an installation: the browser that waits for the user is closed,
\* and a helper is not awaited any more.
BrowserNotices ==
    IF login.state = "sign_in"
    THEN /\ login' = [login EXCEPT !.needed = FALSE]
         /\ run' = [run EXCEPT !.cut = TRUE]
    ELSE UNCHANGED <<login, run>>

HelperNotices ==
    IF helper.state \in {"waiting", "connected", "verifying"} /\ gen' # helper.gen
    THEN helper' = Disabled /\ accept' = Replaced(accept)
    ELSE UNCHANGED <<helper, accept>>

\* The task has ended that a request or the shutdown waits for, which goes
\* on before another browser is opened.
Woken == {o \in Closers : \/ at[o] = "helper" /\ ~Running(accept)
                          \/ at[o] = "browser" /\ ~Running(run)}

----------------------------------------------------------------------------
(* The tasks that wait for a session, and the session they wait for.       *)

\* authenticate tells the dashboard, which opens the browser unless the helper is chosen.
Ask ==
    /\ ~asked /\ ~ready /\ Woken = {}
    /\ asked' = TRUE
    /\ IF Selected THEN UNCHANGED <<login, run, token>> ELSE RequestLogin(login)
    /\ helper' = [helper EXCEPT !.refused = FALSE]
    /\ UNCHANGED <<session, accept, doing, void>>

Unask ==
    /\ asked /\ ready
    /\ asked' = FALSE
    /\ UNCHANGED <<session, login, helper, tasks, doing, void>>

\* The proof expires or Twitch rejects it, after those who waited for it went on.
Expire ==
    /\ ready /\ ~asked
    /\ ready' = FALSE
    /\ UNCHANGED <<gen, installs, asked, login, helper, tasks, doing, void>>

\* The renewal worker gets a new proof for the session there is.
Renewed ==
    /\ gen > 0 /\ "controller" \notin stopped
    /\ Install
    /\ BrowserNotices /\ HelperNotices
    /\ UNCHANGED <<asked, token, doing, void>>

----------------------------------------------------------------------------
(* The browser's task.                                                     *)

RunGoes(pc) == run' = [run EXCEPT !.pc = pc]
OthersUnchanged == UNCHANGED <<session, asked, helper, accept, token, doing>>

\* Display, VNC and browser are up; it closes again if a session is ready by now.
RunStarted ==
    /\ run.pc = "start" /\ ~run.cut
    /\ login' = [login EXCEPT !.state = "sign_in", !.needed = @ /\ ~ready]
    /\ run' = [run EXCEPT !.pc = "wait", !.cut = ready]
    /\ UNCHANGED void
    /\ OthersUnchanged

\* The user has closed the browser, or had it closed (POST /api/session/finish).
RunSignedIn ==
    /\ run.pc = "wait" /\ ~run.cut
    /\ login' = [login EXCEPT !.state = "verifying"]
    /\ RunGoes("capture")
    /\ UNCHANGED void
    /\ OthersUnchanged

RunCaptured ==
    /\ run.pc = "capture" /\ ~run.cut
    /\ RunGoes("admit")
    /\ UNCHANGED <<login, void>>
    /\ OthersUnchanged

\* The controller asks once more whether it may, then the session is another one.
RunInstalls ==
    /\ run.pc = "admit"
    /\ run.current /\ stopped \cap {"browser", "controller"} = {}
    /\ Install
    /\ login' = [login EXCEPT !.needed = FALSE]
    /\ RunGoes("leave")
    /\ HelperNotices
    /\ asked' = FALSE
    /\ UNCHANGED <<token, doing, void>>

\* Something fails or times out, or the task is cancelled: the browser is closed.
RunFails ==
    /\ run.pc \in {"start", "wait", "capture", "admit"}
    /\ run' = [run EXCEPT !.pc = "leave", !.failed = ~run.cut]
    /\ UNCHANGED <<login, void>>
    /\ OthersUnchanged

\* Mutant: the end of a cancelled login is not shown.
RunEndsQuietly ==
    /\ run.pc = "leave"
    /\ \E failed \in {run.failed, TRUE} :
          login' = [login EXCEPT !.state = IF failed /\ ~run.cut THEN "error" ELSE @]
    /\ run' = NoTask
    /\ void' = void \ {"run"}
    /\ OthersUnchanged

\* All processes have ended and the profiles are gone, or that failed.
RunEnds ==
    /\ run.pc = "leave"
    /\ \E failed \in {run.failed, TRUE} :
          login' = [login EXCEPT !.state = IF failed /\ ~run.cut THEN "error" ELSE "idle"]
    /\ run' = NoTask
    /\ void' = void \ {"run"}
    /\ OthersUnchanged

\* POST /api/session/retry.
Retry ==
    /\ ~Selected /\ Woken = {}
    /\ login.needed /\ login.state \in {"idle", "error"}
    /\ RequestLogin([login EXCEPT !.state = "idle"])
    /\ UNCHANGED <<session, asked, helper, accept, doing, void>>

----------------------------------------------------------------------------
(* The helper's connection.                                                *)

HelperOnly == UNCHANGED <<session, asked, login, run, token, doing>>

\* The ten minutes are over, or the dashboard session that enabled it.
Lapse ==
    /\ helper.live
    /\ helper' = [helper EXCEPT !.live = FALSE]
    /\ UNCHANGED <<accept, void>> /\ HelperOnly

\* The dashboard asks for the status, and that is noticed.
Polled ==
    /\ helper.state \in {"waiting", "connected", "verifying", "complete"} /\ ~helper.live
    /\ helper' = [Disabled EXCEPT !.state = IF helper.state = "complete" THEN "disabled" ELSE "error",
                                  !.refused = helper.refused]
    /\ accept' = Replaced(accept)
    /\ UNCHANGED void /\ HelperOnly

\* The first helper gets the ticket.
Connect ==
    /\ helper.state = "waiting" /\ helper.live /\ "helper" \notin stopped
    /\ helper' = [helper EXCEPT !.state = "connected", !.ticket = TRUE]
    /\ UNCHANGED <<accept, void>> /\ HelperOnly

\* It sends what it captured.
Submit ==
    /\ helper.state = "connected" /\ helper.live /\ "helper" \notin stopped
    /\ ~Running(accept)
    /\ helper' = [helper EXCEPT !.state = "verifying"]
    /\ accept' = Admitted
    /\ UNCHANGED void /\ HelperOnly

AcceptOver == accept' = NoTask /\ void' = void \ {"accept"}

\* authorized() of its request.
Authorized == accept.current /\ helper.ticket /\ helper.live /\ gen = helper.gen

\* Nothing is awaited between the installation and the receipt.
AcceptInstalls ==
    /\ accept.pc = "admit"
    /\ Authorized /\ stopped \cap {"helper", "controller"} = {}
    /\ Install
    /\ BrowserNotices
    /\ helper' = [helper EXCEPT !.state = "complete"]
    /\ AcceptOver
    /\ asked' = FALSE
    /\ UNCHANGED <<token, doing>>

\* Verification fails or is cancelled; a connection that is not the present one is silent.
AcceptFails ==
    /\ accept.pc = "admit"
    /\ helper' = IF ~accept.current THEN helper
                 ELSE IF accept.cut THEN [Disabled EXCEPT !.state = "error"]
                 ELSE [helper EXCEPT !.state = "error"]
    /\ AcceptOver
    /\ HelperOnly

----------------------------------------------------------------------------
(* The token.                                                              *)

TokenOver == token' = NoTask /\ void' = void \ {"token"}

TokenInstalls ==
    /\ token.pc = "admit"
    /\ token.current /\ "controller" \notin stopped
    /\ Install
    /\ login' = [login EXCEPT !.state = "idle"]
    /\ HelperNotices
    /\ TokenOver
    /\ asked' = FALSE
    /\ UNCHANGED <<run, doing>>

\* Mutant: a failed token is shown, but Retry is not.
TokenFailsForGood ==
    /\ token.pc = "admit"
    /\ login' = IF token.current THEN [login EXCEPT !.state = "error"] ELSE login
    /\ TokenOver
    /\ UNCHANGED <<session, asked, helper, run, accept, doing>>

TokenFails ==
    /\ token.pc = "admit"
    /\ login' = IF token.current THEN [state |-> "error", needed |-> TRUE] ELSE login
    /\ TokenOver
    /\ UNCHANGED <<session, asked, helper, run, accept, doing>>

----------------------------------------------------------------------------
(* The dashboard's requests, and the shutdown: they close the helper's     *)
(* connection, then the browser, each time waiting for the task to end.    *)

\* It waits at PC, with the lock.
Suspend(o, pc) == /\ at' = [at EXCEPT ![o] = pc]
                  /\ lock' = IF o = "shutdown" THEN lock ELSE o

Leave(o) == at' = [at EXCEPT ![o] = "idle"] /\ lock' = "free"

Stopping(o, parts) == stopped' = IF o = "shutdown" THEN parts ELSE stopped

\* enable refuses a session that is ready by now, and whoever was logged out of the
\* dashboard while helper and browser were closed for him.
Enable ==
    \/ /\ ~ready /\ "helper" \notin stopped
       /\ helper' = [Disabled EXCEPT !.state = "waiting", !.live = TRUE, !.gen = gen]
    \/ helper' = [Disabled EXCEPT !.refused = ~ready /\ "helper" \notin stopped]

\* The browser is closed: cancel ends with "idle", and the request does what it is for.
AfterBrowser(o) ==
    /\ login' = [state |-> IF o = "token" THEN "verifying" ELSE "idle", needed |-> FALSE]
    /\ IF o = "enable" THEN Enable ELSE helper' = Disabled
    /\ token' = CASE o = "token" -> Admitted
                  [] o \in {"logout", "shutdown"} -> Replaced(token)
                  [] OTHER -> Outdated(token)
    /\ CASE o = "logout" -> Suspend(o, "controller")
         [] o = "shutdown" -> at' = [at EXCEPT ![o] = "done"] /\ UNCHANGED lock
         [] OTHER -> Leave(o)
    /\ Stopping(o, {"helper", "browser", "controller"})

\* ContainerLogin.cancel.
CloseBrowser(o) ==
    IF Running(run)
    THEN /\ run' = Replaced(run)
         /\ login' = [login EXCEPT !.needed = FALSE]
         /\ token' = Outdated(token)
         /\ helper' = Disabled
         /\ Suspend(o, "browser")
         /\ Stopping(o, {"helper", "browser"})
    ELSE AfterBrowser(o) /\ UNCHANGED run

\* cancel_helper opens the browser again if nobody is logged in, which is so at
\* least when a task waits for a session.
AfterHelper(o) ==
    IF o = "cancel"
    THEN /\ helper' = Disabled
         /\ \/ ~ready /\ RequestLogin(login)
            \/ ~asked /\ UNCHANGED <<login, run, token>>
         /\ Leave(o)
         /\ UNCHANGED <<stopped, void>>
    ELSE /\ CloseBrowser(o)
         /\ void' = void \cup (IF Running(run) THEN {"run"} ELSE {})
                         \cup (IF Running(token) THEN {"token"} ELSE {})

\* HelperConnections.cancel.
CloseHelper(o) ==
    IF Running(accept)
    THEN /\ accept' = Replaced(accept)
         /\ void' = void \cup {"accept"}
         /\ helper' = Disabled
         /\ Suspend(o, "helper")
         /\ Stopping(o, {"helper"})
         /\ UNCHANGED <<login, run, token>>
    ELSE AfterHelper(o) /\ UNCHANGED accept

\* A request waits for the lock; there is one token at a time (SessionAPI._token_lock).
Requested(o) ==
    /\ at[o] = "idle"
    /\ o = "token" => ~Running(token)
    /\ at' = [at EXCEPT ![o] = "lock"]
    /\ UNCHANGED <<session, asked, login, helper, tasks, lock, stopped, void>>

\* enable_helper and accept_token refuse whoever is logged in.
Locked(o) ==
    /\ at[o] = "lock" /\ lock = "free"
    /\ \/ /\ o = "token" => ~ready
          /\ CloseHelper(o)
       \/ /\ o \in {"enable", "token"} /\ (ready \/ ~asked)
          /\ Leave(o)
          /\ UNCHANGED <<login, helper, tasks, stopped, void>>
    /\ UNCHANGED <<session, asked>>

Shutdown ==
    /\ at["shutdown"] = "idle"
    /\ CloseHelper("shutdown")
    /\ UNCHANGED <<session, asked>>

HelperClosed(o) ==
    /\ at[o] = "helper" /\ ~Running(accept)
    /\ AfterHelper(o)
    /\ UNCHANGED <<session, asked, accept>>

BrowserClosed(o) ==
    /\ at[o] = "browser" /\ ~Running(run)
    /\ AfterBrowser(o)
    /\ UNCHANGED <<session, asked, run, accept, void>>

\* SessionController.logout has drained the logins.  A logout that was saved opens the
\* browser for the next login, also when the cookies could not be deleted.
LoggedOut ==
    /\ at["logout"] = "controller" /\ ~Running(token)
    /\ asked' = FALSE
    /\ \/ /\ ready' = FALSE /\ gen' = 0
          /\ RequestLogin(login)
       \/ UNCHANGED <<ready, gen, login, run, token>>
    /\ Leave("logout")
    /\ UNCHANGED <<installs, helper, accept, stopped, void>>

----------------------------------------------------------------------------
SessionStep == Ask \/ Unask \/ Expire \/ Renewed
BrowserStep == \/ RunStarted \/ RunSignedIn \/ RunCaptured \/ RunInstalls \/ RunFails \/ RunEnds
               \/ Retry
HelperStep == Lapse \/ Polled \/ Connect \/ Submit \/ AcceptInstalls \/ AcceptFails
TokenStep == TokenInstalls \/ TokenFails
RequestStep == Shutdown \/ LoggedOut \/ \E o \in Requests : Requested(o) \/ Locked(o)

Next ==
    \/ SessionStep \/ BrowserStep \/ HelperStep \/ TokenStep \/ RequestStep
    \/ \E o \in Closers : HelperClosed(o) \/ BrowserClosed(o)

Spec == Init /\ [][Next]_vars

----------------------------------------------------------------------------
(* Properties.                                                             *)

\* A login that a later request replaced (a helper that was chosen, a token, a logout,
\* a shutdown) never installs its session, even if its issuer ignores the cancellation.
OnlyTheLatestInstalls ==
    /\ RunInstalls => "run" \notin void
    /\ AcceptInstalls => "accept" \notin void
    /\ TokenInstalls => "token" \notin void
ReplacedNeverInstalls == [][OnlyTheLatestInstalls]_vars

\* While a task waits for a session and no request is being served, there is a way to
\* log in on the dashboard: the browser, the helper, a token being verified, or Retry.
\* Only a request for the helper that is refused after the others were closed, because
\* its dashboard session has ended meanwhile, leaves none, until the next request or ask.
LoginOffered ==
    /\ asked /\ ~ready /\ stopped = {} /\ ~helper.refused
    /\ \A o \in Closers : at[o] \in {"idle", "lock"}
    => Selected \/ Running(run) \/ Running(token) \/ login.needed

\* The same without that exception, as the docs have it (Retry after a failure).  It
\* does not hold.
LoginAlwaysOffered ==
    /\ asked /\ ~ready /\ stopped = {}
    /\ \A o \in Closers : at[o] \in {"idle", "lock"}
    => Selected \/ Running(run) \/ Running(token) \/ login.needed

\* What the dashboard shows of the browser is true: a login that is said to be under way
\* is, and no helper is shown whose verification nobody waits for.
StatusIsTrue ==
    /\ login.state \in {"starting", "sign_in"} => Running(run)
    /\ login.state = "verifying" => Running(run) \/ Running(token)
    /\ helper.state = "verifying" => Running(accept)
----------------------------------------------------------------------------
(* What the properties rest on.                                            *)

Shapes ==
    /\ DOMAIN login = {"state", "needed"}
    /\ \A t \in {run, accept, token} : DOMAIN t = {"pc", "current", "cut", "failed"}
    /\ DOMAIN helper = {"state", "live", "ticket", "gen", "refused"}
    /\ DOMAIN at = Closers

\* A login that was replaced has lost its right to install; one that is over is
\* forgotten, and a token is only asked for when no other is verified.
Replacing ==
    /\ "run" \in void => Running(run) /\ ~run.current
    /\ "accept" \in void => Running(accept) /\ ~accept.current
    /\ "token" \in void => Running(token) /\ ~token.current
    /\ at["token"] \in {"lock", "helper", "browser"} => ~Running(token)

\* What is said to be verified is so by the login that is waited for.
Showing ==
    /\ login.state \in {"starting", "sign_in"} => Running(run)
    /\ login.state = "verifying" => Running(run) \/ (Running(token) /\ token.current)
    /\ helper.state = "verifying" => Running(accept) /\ accept.current

\* A browser that runs is not counted on: it may be about to end.
Offering ==
    /\ asked /\ ~ready /\ stopped = {} /\ (\A o \in Closers : at[o] \in {"idle", "lock"})
       => Selected \/ helper.refused \/ login.needed \/ (Running(token) /\ token.current)
    /\ at["cancel"] # "browser"

Inv == Shapes /\ Replacing /\ Showing /\ Offering
=============================================================================
