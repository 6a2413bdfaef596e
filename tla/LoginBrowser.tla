---------------------------- MODULE LoginBrowser ----------------------------
(***************************************************************************)
(* What one run of ContainerLogin owns: the processes of a virtual desktop *)
(* and of a browser on it, and their private directories. Whatever ends    *)
(* the run, at whatever await and however often it is cancelled, they have *)
(* to be gone before the run is over and another one may start.            *)
(***************************************************************************)
EXTENDS Naturals, FiniteSets

CONSTANTS MaxRuns,   \* bound: runs one after another
          MaxCancels \* bound: cancellations

ConstantsOK == MaxRuns \in Nat /\ MaxCancels \in Nat

VARIABLES
    stage,   \* where _run is
    cut,     \* a cancellation waits for its await to be delivered
    up,      \* the processes that run
    dirs,    \* the directories that exist
    cleanup, \* the _cleanup task of the browser and of the desktop
    kept,    \* ghost: what no signal ended or the disk did not give up
    runs, cancels

vars == <<stage, cut, up, dirs, cleanup, kept, runs, cancels>>

Desktop == {"Xvfb", "openbox", "x11vnc"}

\* Each is started when those before it run.
Before(p) == CASE p = "Xvfb" -> {} [] p = "openbox" -> {"Xvfb"}
               [] p = "x11vnc" -> {"Xvfb", "openbox"}

NoCleanup == [browser |-> "none", desktop |-> "none"]

Init ==
    /\ stage = "over" /\ cut = FALSE
    /\ up = {} /\ dirs = {} /\ cleanup = NoCleanup
    /\ kept = {} /\ runs = 0 /\ cancels = 0

Goto(s) == stage' = s /\ UNCHANGED <<runs, cancels>>

----------------------------------------------------------------------------
(* _run: the desktop, the browser, the login, the capture.                 *)

\* Before its isolation is certain the run owns nothing; a refusal ends it here.
Start ==
    /\ stage = "over" /\ runs < MaxRuns
    /\ runs' = runs + 1 /\ cleanup' = NoCleanup
    /\ stage' = "desktop" /\ dirs' = dirs \cup {"display"}
    /\ cut' = FALSE
    /\ UNCHANGED <<up, kept, cancels>>

StartProcess ==
    /\ stage = "desktop" /\ ~cut
    /\ \E p \in Desktop \ up : Before(p) \subseteq up /\ up' = up \cup {p}
    /\ UNCHANGED <<stage, cut, dirs, cleanup, kept, runs, cancels>>

\* The viewer has answered.
DesktopReady ==
    /\ stage = "desktop" /\ ~cut /\ Desktop \subseteq up
    /\ Goto("browser") /\ dirs' = dirs \cup {"profile"}
    /\ UNCHANGED <<cut, up, cleanup, kept>>

BrowserStarts ==
    /\ stage = "browser" /\ ~cut
    /\ Goto("sign_in") /\ up' = up \cup {"browser"}
    /\ UNCHANGED <<cut, dirs, cleanup, kept>>

\* The user, or finish through the window manager, closes the browser, which writes
\* its profile; the capture then starts one of its own on that profile.
Capture ==
    /\ stage = "sign_in" /\ ~cut
    /\ Goto("capture") /\ up' = up \ {"browser"}
    /\ UNCHANGED <<cut, dirs, cleanup, kept>>

CaptureStarts ==
    /\ stage = "capture" /\ ~cut /\ "browser" \notin up
    /\ up' = up \cup {"browser"}
    /\ UNCHANGED <<stage, cut, dirs, cleanup, kept, runs, cancels>>

\* The seed goes to the controller while the browser runs.
Captured ==
    /\ stage = "capture" /\ ~cut /\ "browser" \in up
    /\ Goto("accept")
    /\ UNCHANGED <<cut, up, dirs, cleanup, kept>>

----------------------------------------------------------------------------
(* The end of a run.                                                       *)

\* cancel, stop and session_changed.
Cancel ==
    /\ stage # "over" /\ cancels < MaxCancels
    /\ cancels' = cancels + 1 /\ cut' = TRUE
    /\ UNCHANGED <<stage, up, dirs, cleanup, kept, runs>>

\* Any step ends with an error or a cancellation, and the last one by itself. Whoever
\* has a browser closes that first: close starts the cleanup as a task of its own.
Close ==
    /\ cut' = FALSE
    /\ \/ /\ stage = "desktop"
          /\ Goto("close desktop") /\ cleanup' = [cleanup EXCEPT !.desktop = "stop"]
       \/ /\ stage \in {"browser", "sign_in", "capture", "accept"}
          /\ Goto("close browser") /\ cleanup' = [cleanup EXCEPT !.browser = "stop"]
    /\ UNCHANGED <<up, dirs, kept>>

\* OwnedChromium.stop: SIGTERM, then SIGKILL, and if that does not help either,
\* BROWSER_STOP; what is left then counts as kept.
Ends(p) == up' = up \ {p} /\ UNCHANGED kept
Stays(p) == up' = up \ {p} /\ kept' = kept \cup {p}

StopBrowser ==
    /\ cleanup.browser = "stop"
    /\ \/ Ends("browser") /\ cleanup' = [cleanup EXCEPT !.browser = "remove"]
       \/ /\ "browser" \in up /\ Stays("browser")
          /\ cleanup' = [cleanup EXCEPT !.browser = "done"]
    /\ UNCHANGED <<stage, cut, dirs, runs, cancels>>

\* The desktop's processes are stopped in reverse, one failure does not stop the others.
StopDesktop ==
    /\ cleanup.desktop = "stop"
    /\ \/ \E p \in up \cap Desktop :
            /\ \A q \in up : p \notin (IF q \in Desktop THEN Before(q) ELSE {})
            /\ Ends(p) \/ Stays(p)
            /\ UNCHANGED cleanup
       \/ /\ up \cap Desktop = {}
          /\ cleanup' = [cleanup EXCEPT !.desktop = "remove"]
          /\ UNCHANGED <<up, kept>>
    /\ UNCHANGED <<stage, cut, dirs, runs, cancels>>

\* rmtree, in a thread.
Remove ==
    /\ \E who \in {"browser", "desktop"} :
        LET dir == IF who = "browser" THEN "profile" ELSE "display" IN
        /\ cleanup[who] = "remove"
        /\ cleanup' = [cleanup EXCEPT ![who] = "done"]
        /\ \/ dirs' = dirs \ {dir} /\ UNCHANGED kept
           \/ kept' = kept \cup {dir} /\ UNCHANGED dirs
    /\ UNCHANGED <<stage, cut, up, runs, cancels>>

\* Mutant: a cancellation ends the wait for the cleanup, as it ends every other.
WaitEnds(who) == cleanup[who] = "done" \/ cut

\* finish_cleanup: the wait goes on through every cancellation.
Drained(who) == cleanup[who] = "done"

BrowserClosed ==
    /\ stage = "close browser" /\ Drained("browser")
    /\ Goto("close desktop") /\ cut' = FALSE
    /\ cleanup' = [cleanup EXCEPT !.desktop = "stop"]
    /\ UNCHANGED <<up, dirs, kept>>

DesktopClosed ==
    /\ stage = "close desktop" /\ Drained("desktop")
    /\ Goto("over") /\ cut' = FALSE
    /\ UNCHANGED <<up, dirs, cleanup, kept>>

Next ==
    \/ Start \/ StartProcess \/ DesktopReady \/ BrowserStarts
    \/ Capture \/ CaptureStarts \/ Captured
    \/ Cancel \/ Close \/ StopBrowser \/ StopDesktop \/ Remove
    \/ BrowserClosed \/ DesktopClosed

Spec == Init /\ [][Next]_vars

----------------------------------------------------------------------------
(* Properties.                                                             *)

\* When a run is over, none of its processes runs and none of its directories, with the
\* cookies of an account in it, is left, except what could not be ended or removed
\* (and the profile a browser holds that could not be ended); and until then nothing is
\* taken away from what still runs: no display from a browser, no profile, no directory.
NothingOutlivesTheRun ==
    /\ stage = "over" =>
          /\ up = {}
          /\ dirs \subseteq kept \cup (IF "browser" \in kept THEN {"profile"} ELSE {})
    /\ "browser" \in up => Desktop \subseteq up /\ {"profile", "display"} \subseteq dirs
    /\ up # {} => "display" \in dirs
----------------------------------------------------------------------------
(* What the property rests on.                                             *)

Using == {"browser", "sign_in", "capture", "accept"}
Cleanup == {"none", "stop", "remove", "done"}

Types ==
    /\ stage \in {"over", "desktop", "close browser", "close desktop"} \cup Using
    /\ up \subseteq Desktop \cup {"browser"} /\ dirs \subseteq {"profile", "display"}
    /\ cleanup \in [browser : Cleanup, desktop : Cleanup]

\* A cleanup is begun by the stage that waits for it, and waited for.
Cleaning ==
    /\ stage = "over" => cleanup.browser \in {"none", "done"} /\ cleanup.desktop \in {"none", "done"}
    /\ stage \in {"desktop"} \cup Using => cleanup.browser = "none" /\ cleanup.desktop = "none"
    /\ stage = "close browser" => cleanup.browser # "none" /\ cleanup.desktop = "none"
    /\ stage = "close desktop" =>
          cleanup.browser \in {"none", "done"} /\ cleanup.desktop # "none"

\* What runs when, with what it runs on.
Running ==
    /\ "browser" \in up =>
          /\ stage \in Using \cup {"close browser"} /\ cleanup.browser \in {"none", "stop"}
          /\ "profile" \in dirs
    /\ stage \in Using => "profile" \in dirs
    /\ stage \in Using \cup {"close browser"} => Desktop \subseteq up /\ "display" \in dirs
    /\ stage = "desktop" \/ cleanup.desktop = "stop" => "display" \in dirs
    /\ stage = "over" \/ cleanup.desktop \in {"remove", "done"} => up = {}

\* What is left in the end was kept.
Left ==
    /\ "profile" \in dirs =>
          \/ {"profile", "browser"} \cap kept # {}
          \/ stage \in Using
          \/ stage = "close browser" /\ cleanup.browser \in {"stop", "remove"}
    /\ "display" \in dirs /\ (stage = "over" \/ cleanup.desktop = "done") => "display" \in kept

Inv == Types /\ Cleaning /\ Running /\ Left
=============================================================================
