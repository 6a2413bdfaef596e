------------------------------ MODULE Requests ------------------------------
(***************************************************************************)
(* GQLClient.request with the RateLimiter it shares and the retries of     *)
(* HTTPClient.request inside: a request keeps its place in the limiter     *)
(* while it waits for the session, for Twitch and between two attempts to  *)
(* reach it, and gives it back before it is repeated for an error in the   *)
(* answer.  Between two awaits nothing else runs, and whoever holds the    *)
(* lock of the limiter's condition gives it up before it waits, so the     *)
(* lock is always free.                                                    *)
(***************************************************************************)
EXTENDS Naturals, Sequences, FiniteSets, SequencesExt, FiniteSetsExt

CONSTANTS Tasks,   \* that make requests
          Capacity \* of the limiter

ConstantsOK == Capacity \in Nat \ {0} /\ IsFiniteSet(Tasks)

VARIABLES
    total,      \* operations since the last reset
    concurrent, \* operations under way
    resetting,  \* a reset task waits for the end of the window
    queue,      \* the tasks that sleep on the condition, the first to be woken first
    pc,         \* where each task is
    retried,    \* the tasks that used up single_retry
    exit        \* the miner's state is EXIT

vars == <<total, concurrent, resetting, queue, pc, retried, exit>>

Inside == {"validate", "send", "reconnect"}

Init ==
    /\ total = 0 /\ concurrent = 0 /\ resetting = FALSE /\ queue = <<>>
    /\ pc = [t \in Tasks |-> "idle"] /\ retried = {} /\ exit = FALSE

----------------------------------------------------------------------------
(* The limiter.                                                            *)

CanProceed == Max({total, concurrent}) < Capacity

Woken(waiters, n) == {waiters[i] : i \in 1..Min({n, Len(waiters)})}
Asleep(waiters, n) == SubSeq(waiters, n + 1, Len(waiters))

\* Condition.notify(n): the first n of those that sleep.
Notify(waiters, n, at) ==
    /\ queue' = Asleep(waiters, n)
    /\ pc' = [t \in Tasks |-> IF t \in Woken(waiters, n) THEN "woken" ELSE at[t]]

\* __aenter__: whoever comes may take a place before those who were woken for it; the
\* first operation of a window starts its reset.
Enter(t) ==
    IF CanProceed
    THEN /\ total' = total + 1 /\ concurrent' = concurrent + 1
         /\ resetting' = TRUE
         /\ pc' = [pc EXCEPT ![t] = "validate"]
         /\ UNCHANGED queue
    ELSE /\ queue' = Append(queue, t)
         /\ pc' = [pc EXCEPT ![t] = "asleep"]
         /\ UNCHANGED <<total, concurrent, resetting>>

\* __aexit__, also of an operation that fails or is cancelled.
Leave(t, next) ==
    /\ concurrent' = concurrent - 1
    /\ Notify(queue, Capacity - concurrent', [pc EXCEPT ![t] = next])
    /\ UNCHANGED <<total, resetting>>

\* Mutant: nobody is woken.
ResetQuietly ==
    /\ resetting /\ resetting' = FALSE /\ total' = 0
    /\ UNCHANGED <<concurrent, queue, pc, retried, exit>>

Reset ==
    /\ resetting /\ resetting' = FALSE
    /\ total' = 0
    /\ Notify(queue, Capacity - concurrent, pc)
    /\ UNCHANGED <<concurrent, retried, exit>>

----------------------------------------------------------------------------
(* A request.                                                              *)

Start(t) ==
    /\ pc[t] = "idle"
    /\ Enter(t)
    /\ retried' = retried \ {t} /\ UNCHANGED exit

\* The condition is looked at again, and the task may have to wait behind the others.
Wake(t) == pc[t] = "woken" /\ Enter(t) /\ UNCHANGED <<retried, exit>>

Repeat(t) == pc[t] = "pause" /\ Enter(t) /\ UNCHANGED <<retried, exit>>

\* Each attempt to reach Twitch begins with a look at the miner's state.
Attempt(t) ==
    /\ pc[t] \in {"validate", "reconnect"}
    /\ IF exit
       THEN Leave(t, "idle")
       ELSE pc' = [pc EXCEPT ![t] = "send"]
            /\ UNCHANGED <<total, concurrent, resetting, queue>>
    /\ UNCHANGED <<retried, exit>>

\* The site is down or not to be reached: HTTPClient waits and tries again.
Unreached(t) ==
    /\ pc[t] = "send"
    /\ pc' = [pc EXCEPT ![t] = "reconnect"]
    /\ UNCHANGED <<total, concurrent, resetting, queue, retried, exit>>

\* An answer to be returned, an error to be raised (a certificate, an error of GQL that
\* no rule names), or the cancellation of the task.
Done(t) ==
    /\ pc[t] \in Inside
    /\ Leave(t, "idle")
    /\ UNCHANGED <<retried, exit>>

\* An error that passes: the request is repeated, as often as it takes.
Transient(t) ==
    /\ pc[t] = "send"
    /\ Leave(t, "pause")
    /\ UNCHANGED <<retried, exit>>

\* A service error, or a query Twitch does not know: repeated once.
ServiceError(t) ==
    /\ pc[t] = "send"
    /\ Leave(t, IF t \in retried THEN "idle" ELSE "pause")
    /\ retried' = retried \cup {t} /\ UNCHANGED exit

\* A task that waits is cancelled; the condition passes its notification on.
Cancel(t) ==
    /\ \/ pc[t] = "pause" /\ pc' = [pc EXCEPT ![t] = "idle"] /\ UNCHANGED queue
       \/ \E i \in DOMAIN queue :
             queue[i] = t /\ Notify(RemoveAt(queue, i), 1, [pc EXCEPT ![t] = "idle"])
       \/ pc[t] = "woken" /\ Notify(queue, 1, [pc EXCEPT ![t] = "idle"])
    /\ UNCHANGED <<total, concurrent, resetting, retried, exit>>

Exit == /\ ~exit /\ exit' = TRUE
        /\ UNCHANGED <<total, concurrent, resetting, queue, pc, retried>>

Next ==
    \/ \E t \in Tasks :
          \/ Start(t) \/ Wake(t) \/ Repeat(t)
          \/ Attempt(t) \/ Unreached(t)
          \/ Done(t) \/ Transient(t) \/ ServiceError(t)
          \/ Cancel(t)
    \/ Reset
    \/ Exit

Spec == Init /\ [][Next]_vars

----------------------------------------------------------------------------
(* Properties.                                                             *)

InState(where) == {t \in Tasks : pc[t] \in where}

\* No place is lost and none stays free beside a task that sleeps: whatever is
\* cancelled, the places taken are those of the requests under way, and for each free
\* place a task has been woken, unless all have.
NoPlaceIsWasted ==
    /\ concurrent = Cardinality(InState(Inside))
    /\ queue # <<>> =>
          Cardinality(InState({"woken"})) >= Capacity - Max({total, concurrent})

----------------------------------------------------------------------------
(* What the property rests on.                                             *)

Types ==
    /\ total \in 0..Capacity /\ concurrent \in 0..Capacity
    /\ queue \in Seq(Tasks)
    /\ pc \in [Tasks -> {"idle", "pause", "asleep", "woken"} \cup Inside]

\* Who sleeps on the condition does so once.
Sleepers ==
    /\ \A i \in DOMAIN queue : pc[queue[i]] = "asleep"
    /\ \A i, j \in DOMAIN queue : queue[i] = queue[j] => i = j

Inv == Types /\ Sleepers /\ NoPlaceIsWasted
=============================================================================
