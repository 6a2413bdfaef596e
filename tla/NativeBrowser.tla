--------------------------- MODULE NativeBrowser ---------------------------
(***************************************************************************)
(* The browser of the login helper, a program of its own on the user's     *)
(* computer.  NativeLoginHelper.run asks for admission, opens an ordinary  *)
(* browser on a temporary profile for the login, waits for the user to     *)
(* close it, opens another one on the same profile that can be read, sends *)
(* what it captured, and closes (NativeChrome).  The user, a browser or a  *)
(* signal can interrupt it at any await.  SIGTERM and SIGHUP are its own,  *)
(* Ctrl-C is that of asyncio.run.                                          *)
(***************************************************************************)
EXTENDS Naturals, FiniteSets

VARIABLES
    stage,   \* where run is
    cut,     \* a cancellation of the task that runs run waits for its await
    live,    \* the browsers that run: "login", "capture"
    process, \* the one that NativeChrome knows: one of them, or "none"
    clean,   \* the browser for the login ended with exit code 0
    profile, \* the temporary directory: "none", "empty" or, with a login, "signed in"
    port,    \* who answers at the address: "nobody", "ours", or another program
    closing, \* the _closing task: "none", "ask", "wait", "remove", "done"
    failure, \* "none", or why the run fails: "error", "cancelled"
    unclean, \* the cleanup failed
    sent,    \* the server accepted the session
    said,    \* what the program ends with: "none", "success", or an error
    interrupts \* the Ctrl-C that came last: "none", "first", "second", "third"

vars == <<stage, cut, live, process, clean, profile, port, closing, failure, unclean, sent,
          said, interrupts>>

Init ==
    /\ stage = "connect" /\ cut = FALSE
    /\ live = {} /\ process = "none" /\ clean = FALSE /\ profile = "none" /\ port = "nobody"
    /\ closing = "none" /\ failure = "none" /\ unclean = FALSE /\ sent = FALSE
    /\ said = "none" /\ interrupts = "none"

----------------------------------------------------------------------------
(* The user, the system and the browsers.                                  *)

\* A browser ends, by the user or by itself; what was signed in may be on the disk.
BrowserEnds(b) ==
    /\ b \in live /\ live' = live \ {b}
    /\ IF b = "login" THEN clean' \in BOOLEAN /\ profile' \in {profile, "signed in"}
       ELSE UNCHANGED <<clean, profile>>
    /\ UNCHANGED <<stage, cut, process, port, closing, failure, unclean, sent, said, interrupts>>

\* At most one Ctrl-C.
Once == interrupts \in {"none", "first"}

\* run_cancellable: SIGTERM and SIGHUP cancel the task, however often.
Terminated ==
    /\ stage # "over" /\ ~cut
    /\ cut' = TRUE
    /\ UNCHANGED <<stage, live, process, clean, profile, port, closing, failure, unclean,
                   sent, said, interrupts>>

\* The first Ctrl-C does the same.  The second is a KeyboardInterrupt out of the loop:
\* asyncio.run cancels every task there is, _closing too, and waits for all of them.
Interrupted ==
    /\ stage # "over" /\ Once
    /\ interrupts' = (IF interrupts = "none" THEN "first" ELSE "second") /\ cut' = TRUE
    /\ IF interrupts = "first" /\ closing \in {"ask", "wait", "remove"}
       THEN process' = "none" /\ closing' = "done"
       ELSE UNCHANGED <<process, closing>>
    /\ UNCHANGED <<stage, live, clean, profile, port, failure, unclean, sent, said>>

\* The third ends that wait.
Abandoned ==
    /\ stage # "over" /\ interrupts = "second"
    /\ interrupts' = "third"
    /\ stage' = "over" /\ said' = "cancelled"
    /\ UNCHANGED <<cut, live, process, clean, profile, port, closing, failure, unclean, sent>>

----------------------------------------------------------------------------
(* run, up to the end of the block that uses the browser.                  *)

\* Nothing is owned before the server has admitted the helper.
Refused ==
    /\ stage = "connect"
    /\ stage' = "over" /\ said' = IF cut THEN "cancelled" ELSE "error"
    /\ UNCHANGED <<cut, live, process, clean, profile, port, closing, failure, unclean, sent,
                   interrupts>>

\* __aenter__: it does not wait for the browser of the login, which may not start.
Opened ==
    /\ stage = "connect" /\ ~cut
    /\ profile' = "empty"
    /\ \/ stage' = "login" /\ live' = {"login"} /\ process' = "login" /\ UNCHANGED failure
       \/ stage' = "close" /\ failure' = "error" /\ UNCHANGED <<live, process>>
    /\ UNCHANGED <<cut, clean, port, closing, unclean, sent, said, interrupts>>

\* Mutant: however it ended.
Ended == "login" \notin live

\* "Never read a live profile or force-close successful login."
EndedInOrder == "login" \notin live /\ clean

\* _restart_for_capture; another program may take the port before the browser does.
Restarts ==
    /\ stage = "login" /\ ~cut /\ EndedInOrder
    /\ stage' = "ready" /\ process' = "capture" /\ live' = live \cup {"capture"}
    /\ port' \in {"ours", "another"}
    /\ UNCHANGED <<cut, clean, profile, closing, failure, unclean, sent, said, interrupts>>

\* _wait_ready and _check_login ask for the process behind the address first.
Ours == process \in live /\ port = "ours"

Proceeds(from, to) ==
    /\ stage = from /\ ~cut /\ stage' = to
    /\ UNCHANGED <<cut, live, process, clean, profile, port, closing, failure, unclean, said,
                   interrupts>>

Ready == Proceeds("ready", "check") /\ Ours /\ UNCHANGED sent
SignedIn == Proceeds("check", "capture") /\ Ours /\ profile = "signed in" /\ UNCHANGED sent
Captured == Proceeds("capture", "send") /\ Ours /\ UNCHANGED sent

\* The upload is answered, or its receipt is.
Sent == Proceeds("send", "close") /\ sent' = TRUE

Using == {"login", "ready", "check", "capture", "send"}

\* A signal, a timeout, a missing login, a stranger, a browser that ended: __aexit__.
Fails ==
    /\ stage \in Using
    /\ failure' = IF cut THEN "cancelled" ELSE "error"
    /\ stage' = "close" /\ cut' = FALSE
    /\ UNCHANGED <<live, process, clean, profile, port, closing, unclean, sent, said, interrupts>>

----------------------------------------------------------------------------
(* close, whose task _closing only the second Ctrl-C cancels.              *)

CloseBegins ==
    /\ stage = "close" /\ closing = "none"
    /\ closing' = IF process = "none" THEN "remove" ELSE "ask"
    /\ UNCHANGED <<stage, cut, live, process, clean, profile, port, failure, unclean, sent,
                   said, interrupts>>

\* Only a browser whose process was found behind the address is asked to close; whether
\* it does is up to it (BrowserEnds).
Asked ==
    /\ stage = "close" /\ closing = "ask" /\ closing' = "wait"
    /\ UNCHANGED <<stage, cut, live, process, clean, profile, port, failure, unclean, sent,
                   said, interrupts>>

\* It ended within five seconds, or is killed; if it cannot be, that is reported later.
Waited ==
    /\ stage = "close" /\ closing = "wait" /\ closing' = "remove" /\ process' = "none"
    /\ \/ live' = live \ {process} /\ UNCHANGED unclean
       \/ process \in live /\ unclean' = TRUE /\ UNCHANGED live
    /\ UNCHANGED <<stage, cut, clean, profile, port, failure, sent, said, interrupts>>

\* Four attempts.
Removed ==
    /\ stage = "close" /\ closing = "remove" /\ closing' = "done"
    /\ \/ profile' = "none" /\ UNCHANGED unclean
       \/ profile # "none" /\ unclean' = TRUE /\ UNCHANGED profile
    /\ UNCHANGED <<stage, cut, live, process, clean, port, failure, sent, said, interrupts>>

\* Mutant: the wait for _closing ends with a signal.
Unshielded == closing = "done" \/ (closing # "none" /\ cut)

Drained == closing = "done"

\* A failed cleanup is reported before anything else, then a signal; after a second
\* Ctrl-C nothing but that.
Closed ==
    /\ stage = "close" /\ Drained
    /\ stage' = "over" /\ cut' = FALSE
    /\ said' = IF ~Once THEN "cancelled"
               ELSE IF unclean THEN "not cleaned up"
               ELSE IF cut THEN "cancelled"
               ELSE IF failure # "none" THEN failure ELSE "success"
    /\ UNCHANGED <<live, process, clean, profile, port, closing, failure, unclean, sent,
                   interrupts>>

Next ==
    \/ \E b \in live : BrowserEnds(b)
    \/ Terminated \/ Interrupted \/ Abandoned
    \/ Refused \/ Opened \/ Restarts \/ Ready \/ SignedIn \/ Captured \/ Sent \/ Fails
    \/ CloseBegins \/ Asked \/ Waited \/ Removed \/ Closed

Spec == Init /\ [][Next]_vars

----------------------------------------------------------------------------
(* Properties.                                                             *)

\* Whatever terminates the program, and however often, it ends without a browser and
\* without the profile, which holds the account's cookies, or it says so; only a second
\* Ctrl-C may end it before.  Success is said only of a session the server has. Two
\* browsers never share the profile, and the one that is read has what the user signed
\* in with written to the disk.
NothingOutlivesTheHelper ==
    /\ stage = "over" /\ said # "not cleaned up" /\ Once
          => live = {} /\ profile = "none"
    /\ said = "success" => sent
    /\ Cardinality(live) <= 1
    /\ stage \in {"capture", "send"} => clean /\ profile = "signed in"

\* The same of a second Ctrl-C, as close promises of any cancellation.  It does not hold:
\* browser and profile may stay, and only "cancelled" is said.
CleansUpWhateverArrives ==
    stage = "over" /\ said # "not cleaned up" /\ interrupts # "third"
          => live = {} /\ profile = "none"

----------------------------------------------------------------------------
(* What the property rests on.                                             *)

\* The values of the variables; the browser for the login and the one that is read
\* never run at once.
Types ==
    /\ stage \in {"connect", "close", "over"} \cup Using
    /\ live \in {{}, {"login"}, {"capture"}}
    /\ process \in {"none", "login", "capture"}
    /\ profile \in {"none", "empty", "signed in"}
    /\ closing \in {"none", "ask", "wait", "remove", "done"}
    /\ failure \in {"none", "error", "cancelled"}
    /\ {cut, clean, unclean, sent} \subseteq BOOLEAN
    /\ interrupts \in {"none", "first", "second", "third"}

\* What run has at each of its awaits.
Owned ==
    /\ stage = "connect" => live = {} /\ process = "none" /\ profile = "none"
    /\ stage = "login" => process = "login"
    /\ stage \in {"ready", "check", "capture", "send"} =>
          process = "capture" /\ clean /\ "login" \notin live
    /\ stage \in {"capture", "send"} => profile = "signed in"
    /\ stage = "close" => (failure # "none" \/ sent)

\* What close still has to do: unless it failed or was cut short, the browser that is known is the only
\* one that may run, and when it is done none does.
Cleaning ==
    /\ closing # "none" => stage \in {"close", "over"}
    /\ closing = "none" => ~unclean
    /\ ~unclean /\ Once => live \subseteq {process}
    /\ closing \in {"remove", "done"} => process = "none"
    /\ closing = "done" /\ ~unclean /\ Once => profile = "none"

\* What is said at the end.
Ending ==
    /\ stage = "over" /\ Once =>
          closing = "done" \/ (closing = "none" /\ live = {} /\ profile = "none")
    /\ stage = "over" /\ said # "not cleaned up" /\ Once => ~unclean
    /\ stage # "over" => said = "none"
    /\ said = "success" => sent

Inv == Types /\ Owned /\ Cleaning /\ Ending
=============================================================================
