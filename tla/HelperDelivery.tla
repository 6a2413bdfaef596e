--------------------------- MODULE HelperDelivery ---------------------------
(***************************************************************************)
(* The login helper, a program on the user's desktop, and the miner it     *)
(* logs in: it asks for a ticket, lets the user sign in, uploads the       *)
(* session once and, when the answer is lost, asks for the receipt.        *)
(* HelperHTTP and NativeLoginHelper on one side, HelperAPI and             *)
(* HelperConnections on the other, and a network that delays and loses.    *)
(***************************************************************************)
EXTENDS Naturals

CONSTANTS Helpers,     \* the runs of the helper program
          NoHelper,
          MaxAttempts, \* bound: how often the dashboard offers a connection
          MaxPolls     \* receipt_attempts

ConstantsOK ==
    NoHelper \notin Helpers /\ MaxAttempts \in Nat /\ MaxPolls \in Nat

VARIABLES
    offer,     \* HelperConnections: [state, attempt, live, ticket, receipt, error]
    admission, \* the task in accept: [helper, attempt, cut]
    helpers,   \* each helper: [pc, attempt, polls, report]
    upload,    \* the POST of each helper, from its departure to its answer
    installed  \* ghost: the helpers whose session was installed

vars == <<offer, admission, helpers, upload, installed>>

Offer(attempt, state, live, error) ==
    [attempt |-> attempt, state |-> state, live |-> live, ticket |-> NoHelper,
     receipt |-> FALSE, error |-> error]
NoAdmission == [helper |-> NoHelper, attempt |-> 0, cut |-> FALSE]

Init ==
    /\ offer = Offer(0, "disabled", FALSE, "none")
    /\ admission = NoAdmission
    /\ helpers = [h \in Helpers |->
                     [pc |-> "idle", attempt |-> 0, polls |-> 0, report |-> "none"]]
    /\ upload = [h \in Helpers |-> "none"]
    /\ installed = {}

Admitting == admission.helper # NoHelper

----------------------------------------------------------------------------
(* The dashboard's side of HelperConnections.                              *)

\* _invalidate: the attempt, the ticket and the receipt are gone, and the task that
\* works for them is cancelled.
Invalidated(error) ==
    Offer(offer.attempt + 1, IF error = "none" THEN "disabled" ELSE "error", FALSE, error)
Invalidate(error) ==
    /\ offer.attempt < MaxAttempts
    /\ offer' = Invalidated(error)
    /\ admission' = IF Admitting THEN [admission EXCEPT !.cut = TRUE] ELSE admission

Enable ==
    /\ ~Admitting /\ offer.attempt < MaxAttempts
    /\ offer' = Offer(offer.attempt + 1, "waiting", TRUE, "none")
    /\ UNCHANGED <<admission, helpers, upload, installed>>

\* The ten minutes end, or the dashboard session of whoever offered the connection.
Expire ==
    /\ offer.live
    /\ offer' = [offer EXCEPT !.live = FALSE]
    /\ UNCHANGED <<admission, helpers, upload, installed>>

\* status notices it.
Status ==
    /\ offer.state \in {"waiting", "connected", "verifying", "complete"} /\ ~offer.live
    /\ Invalidate(IF offer.state = "complete" THEN "none" ELSE "vague")
    /\ UNCHANGED <<helpers, upload, installed>>

\* cancel, and session_changed when another login installed a session.
Cancel ==
    /\ offer.state # "disabled"
    /\ Invalidate("none")
    /\ UNCHANGED <<helpers, upload, installed>>

----------------------------------------------------------------------------
(* The server's side.                                                      *)

HasTicket(h) ==
    offer.live /\ offer.ticket = h /\ offer.attempt = helpers[h].attempt

\* The POST arrives: one session at a time, and only for the ticket.
Refused(h) == ~HasTicket(h) \/ offer.state # "connected" \/ Admitting

ArriveRefused(h) ==
    /\ upload[h] = "sent" /\ Refused(h)
    /\ upload' = [upload EXCEPT ![h] = "definite"]
    /\ UNCHANGED <<offer, admission, helpers, installed>>

\* What is no valid session leaves the connection open, with its error.
ArriveInvalid(h) ==
    /\ upload[h] = "sent" /\ ~Refused(h)
    /\ upload' = [upload EXCEPT ![h] = "definite"]
    /\ offer' = [offer EXCEPT !.error = "definite"]
    /\ UNCHANGED <<admission, helpers, installed>>

Arrive(h) ==
    /\ upload[h] = "sent" /\ ~Refused(h)
    /\ upload' = [upload EXCEPT ![h] = "served"]
    /\ offer' = [offer EXCEPT !.state = "verifying", !.error = "none"]
    /\ admission' = [helper |-> h, attempt |-> offer.attempt, cut |-> FALSE]
    /\ UNCHANGED <<helpers, installed>>

\* Answers that say nothing about the session: a 503, a lost connection, a code that is
\* not one of RECEIPT_FAILURES.
Ended(answer) ==
    /\ admission' = NoAdmission
    /\ upload' = [upload EXCEPT ![admission.helper] =
                     IF @ = "served" THEN answer ELSE @]
    /\ UNCHANGED helpers

\* authorized() is asked in the step that installs, and the receipt is written in it.
Install ==
    /\ Admitting /\ ~admission.cut
    /\ HasTicket(admission.helper) /\ offer.attempt = admission.attempt
    /\ installed' = installed \cup {admission.helper}
    /\ offer' = [offer EXCEPT !.state = "complete", !.receipt = TRUE, !.error = "none"]
    /\ Ended("ok")

\* Twitch, the proof, the disk or authorized() said no.
AdmissionFails ==
    /\ Admitting /\ ~admission.cut
    /\ \E kind \in {"definite", "vague"} :
        /\ offer' = IF offer.attempt = admission.attempt
                    THEN [offer EXCEPT !.state = "error", !.error = kind] ELSE offer
        /\ Ended(kind)
    /\ UNCHANGED installed

\* The attempt has already changed when the cancellation arrives.
AdmissionCancelled ==
    /\ admission.cut
    /\ UNCHANGED <<offer, installed>>
    /\ Ended("vague")

----------------------------------------------------------------------------
(* The helper.                                                             *)

Goto(h, pc) == [helpers EXCEPT ![h].pc = pc]
Report(h, report) == [helpers EXCEPT ![h].pc = "done", ![h].report = report]

Connect(h) ==
    /\ helpers[h].pc = "idle" /\ offer.live /\ offer.state = "waiting"
    /\ offer' = [offer EXCEPT !.state = "connected", !.ticket = h]
    /\ \/ helpers' = [helpers EXCEPT ![h].pc = "browser", ![h].attempt = offer.attempt]
       \/ helpers' = Report(h, "failure") \* the answer was lost
    /\ UNCHANGED <<admission, upload, installed>>

\* The user signs in, or does not.
SignIn(h) ==
    /\ helpers[h].pc = "browser"
    /\ \/ helpers' = Goto(h, "upload") /\ upload' = [upload EXCEPT ![h] = "sent"]
       \/ helpers' = Report(h, "failure") /\ UNCHANGED upload
    /\ UNCHANGED <<offer, admission, installed>>

\* After the upload was answered with a success only the browser has to go.
Cleanup(h) == helpers' \in {Report(h, "success"), Report(h, "cleanup")}

\* The answer arrives.
Answer(h) ==
    /\ helpers[h].pc = "upload"
    /\ \/ upload[h] = "ok" /\ Cleanup(h)
       \/ upload[h] = "definite" /\ helpers' = Report(h, "failure")
       \/ upload[h] = "vague" /\ helpers' = Goto(h, "receipt")
    /\ UNCHANGED <<offer, admission, upload, installed>>

\* The connection fails before the answer, wherever the request is: it may still arrive.
NoAnswer(h) ==
    /\ helpers[h].pc = "upload"
    /\ helpers' = Goto(h, "receipt")
    /\ UNCHANGED <<offer, admission, upload, installed>>

\* result.
Receipt(h) ==
    IF ~HasTicket(h) THEN "lost" ELSE IF offer.receipt THEN "ok"
    ELSE IF offer.error = "none" THEN "pending" ELSE offer.error

\* Mutant: a ticket the miner does not know any more is a failure.
LossIsFailure(h) == Receipt(h) \in {"definite", "lost"}

\* "Loss of receipt access is not evidence that the credential upload failed."
IsFailure(h) == Receipt(h) = "definite"

Poll(h) ==
    /\ helpers[h].pc = "receipt" /\ helpers[h].polls < MaxPolls
    /\ IF IsFailure(h) THEN helpers' = Report(h, "failure")
       ELSE IF Receipt(h) = "ok" THEN Cleanup(h)
       ELSE helpers' = [helpers EXCEPT ![h].polls = @ + 1]
    /\ UNCHANGED <<offer, admission, upload, installed>>

PollFails(h) ==
    /\ helpers[h].pc = "receipt" /\ helpers[h].polls < MaxPolls
    /\ helpers' = [helpers EXCEPT ![h].polls = @ + 1]
    /\ UNCHANGED <<offer, admission, upload, installed>>

GiveUp(h) ==
    /\ helpers[h].pc = "receipt" /\ helpers[h].polls = MaxPolls
    /\ helpers' = Report(h, "unknown")
    /\ UNCHANGED <<offer, admission, upload, installed>>

Next ==
    \/ Enable \/ Expire \/ Status \/ Cancel
    \/ Install \/ AdmissionFails \/ AdmissionCancelled
    \/ \E h \in Helpers :
          \/ ArriveRefused(h) \/ ArriveInvalid(h) \/ Arrive(h)
          \/ Connect(h) \/ SignIn(h) \/ Answer(h) \/ NoAnswer(h)
          \/ Poll(h) \/ PollFails(h) \/ GiveUp(h)

Spec == Init /\ [][Next]_vars

----------------------------------------------------------------------------
(* Properties.                                                             *)

\* What the helper tells its user is true, and stays true whatever is still on its way:
\* it reports success only of a session the miner installed, of its own and not of the
\* helper that came after it, and failure only of one the miner never installs.
ReportsAreTrue ==
    \A h \in Helpers :
        /\ helpers[h].report = "success" => h \in installed
        /\ helpers[h].report = "failure" => h \notin installed
----------------------------------------------------------------------------
(* What the property rests on.                                             *)

Answers == {"none", "sent", "served", "ok", "definite", "vague"}
Errors == {"none", "vague", "definite"}

Run == [pc : {"idle", "browser", "upload", "receipt", "done"}, attempt : Nat, polls : Nat,
        report : {"none", "success", "failure", "cleanup", "unknown"}]
Connection == [attempt : Nat,
               state : {"disabled", "error", "waiting", "connected", "verifying",
                        "complete"},
               live : BOOLEAN, ticket : Helpers \cup {NoHelper}, receipt : BOOLEAN,
               error : Errors]

Types ==
    /\ offer \in Connection
    /\ admission \in [helper : Helpers \cup {NoHelper}, attempt : Nat, cut : BOOLEAN]
    /\ helpers \in [Helpers -> Run]
    /\ upload \in [Helpers -> Answers]
    /\ installed \subseteq Helpers

\* Where the one upload of a helper is, and what the helper may say of it.
Uploading ==
    \A h \in Helpers :
        /\ helpers[h].pc \in {"idle", "browser"} => upload[h] = "none"
        /\ helpers[h].pc # "done" => helpers[h].report = "none"
        /\ upload[h] = "served" <=> admission.helper = h
        /\ upload[h] = "ok" <=> h \in installed
        /\ helpers[h].report = "success" => upload[h] = "ok"
        /\ helpers[h].report = "failure" => upload[h] \in {"none", "definite"}

\* What the connection on offer says is about the upload of whoever has its ticket.
Offering ==
    /\ offer.state = "waiting" => ~Admitting /\ ~offer.receipt /\ offer.error = "none"
    /\ offer.receipt => offer.ticket \in installed
    /\ Admitting => admission.attempt <= offer.attempt
    /\ Admitting /\ admission.attempt = offer.attempt => offer.ticket = admission.helper
    /\ offer.error = "definite" => \A h \in Helpers : HasTicket(h) => upload[h] = "definite"
    /\ admission.cut => Admitting

Inv == Types /\ Uploading /\ Offering
=============================================================================
