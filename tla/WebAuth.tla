------------------------------ MODULE WebAuth -------------------------------
(***************************************************************************)
(* The password of the dashboard: WebAuth, which keeps the password and    *)
(* the sessions on disk and in memory, AuthAPI, whose requests change them *)
(* one at a time, and AuthSocketServer, whose open sockets have to follow. *)
(***************************************************************************)
EXTENDS Naturals, FiniteSets

CONSTANTS Tokens,      \* every session token there will be
          NoToken,
          Sockets,     \* the sockets that may be open at once
          MaxSessions, \* MAX_SESSIONS
          NoSocket     \* a socket that is not open

ConstantsOK == NoToken \notin Tokens /\ MaxSessions \in Nat \ {0}

VARIABLES
    memory,  \* the running policy: [on, sessions]
    disk,    \* the file
    expired, \* the tokens whose thirty days are over
    used,    \* the tokens that were handed out
    sockets, \* AuthSocketServer.tokens: each open socket's token
    timers,  \* the sockets with a timer for the end of their session
    request  \* who holds the lock: [op, at, token, left]

vars == <<memory, disk, expired, used, sockets, timers, request>>

NoRequest == [op |-> "none", at |-> "idle", token |-> NoToken, left |-> {}]
Open == {s \in Sockets : sockets[s] # NoSocket}

Init ==
    /\ memory = [on |-> FALSE, sessions |-> {}] /\ disk = memory
    /\ expired = {} /\ used = {}
    /\ sockets = [s \in Sockets |-> NoSocket] /\ timers = {}
    /\ request = NoRequest

Authenticated(t) == t \in memory.sessions \ expired
Allowed(t) == ~memory.on \/ Authenticated(t)

----------------------------------------------------------------------------
(* The requests. Each takes the lock, and asks again what it was admitted  *)
(* for; a password is checked in a thread, while the lock is held.         *)

Begin(op, t) ==
    /\ request.at = "idle"
    /\ CASE op = "login" -> memory.on
         [] op = "logout" -> TRUE
         [] op = "enable" -> ~memory.on
         [] op \in {"change", "disable"} -> memory.on /\ Allowed(t)
    /\ request' = [op |-> op, at |-> "verify", token |-> t, left |-> {}]
    /\ UNCHANGED <<memory, disk, expired, used, sockets, timers>>

\* The password is wrong or too short, or the write fails: nothing has changed.
Refuse ==
    /\ request.at = "verify"
    /\ request' = NoRequest
    /\ UNCHANGED <<memory, disk, expired, used, sockets, timers>>

\* new_session: expired sessions go, and one of the others (the one that ends first) if
\* there are too many; the session of the browser that logs in is replaced.
LoggedIn(t) ==
    {[on |-> TRUE, sessions |-> (kept \cup {t}) \ {request.token}] :
        kept \in {k \in SUBSET (memory.sessions \ expired) :
                     Cardinality(k) = IF Cardinality(memory.sessions \ expired) < MaxSessions
                                      THEN Cardinality(memory.sessions \ expired)
                                      ELSE MaxSessions - 1}}

\* What the request makes of the policy, with the new token it hands out if it does.
Policies(t) ==
    CASE request.op = "login" -> LoggedIn(t)
      [] request.op = "logout" -> {[memory EXCEPT !.sessions = @ \ {request.token}]}
      [] request.op \in {"enable", "change"} -> {[on |-> TRUE, sessions |-> {t}]}
      [] request.op = "disable" -> {[on |-> FALSE, sessions |-> {}]}

\* Mutant: the running policy changes first, and a write that fails does not undo it.
MemoryFirst(policy) == memory' = policy /\ disk' \in {disk, policy}

\* save: the file is replaced as a whole before the running policy changes.
Save(policy) == disk' = policy /\ memory' = policy

\* Then the open sockets are looked through, or all are closed.
Commit ==
    /\ request.at = "verify"
    /\ IF request.op \in {"login", "enable", "change"}
       THEN \E t \in Tokens \ used :
                /\ \E policy \in Policies(t) : Save(policy)
                /\ used' = used \cup {t}
       ELSE /\ \E policy \in Policies(NoToken) : Save(policy)
            /\ UNCHANGED used
    /\ request' = [request EXCEPT !.at = "prune", !.left = Open]
    /\ UNCHANGED <<expired, sockets, timers>>

Disconnected(s) ==
    /\ sockets' = [sockets EXCEPT ![s] = NoSocket]
    /\ timers' = timers \ {s}

\* prune, one socket after the other, each a wait if it has to be closed.
Prune ==
    /\ request.at = "prune"
    /\ \E s \in request.left :
        /\ request' = [request EXCEPT !.left = @ \ {s}]
        /\ IF sockets[s] = NoSocket \/ (request.op # "disable" /\ Allowed(sockets[s]))
           THEN UNCHANGED <<sockets, timers>>
           ELSE Disconnected(s)
    /\ UNCHANGED <<memory, disk, expired, used>>

Respond ==
    /\ request.at = "prune" /\ request.left = {}
    /\ request' = NoRequest
    /\ UNCHANGED <<memory, disk, expired, used, sockets, timers>>

----------------------------------------------------------------------------
(* The sockets, the clock, and a restart.                                  *)

\* register.
Register(s, t) ==
    /\ sockets[s] = NoSocket /\ Allowed(t)
    /\ sockets' = [sockets EXCEPT ![s] = t]
    /\ timers' = IF memory.on THEN timers \cup {s} ELSE timers
    /\ UNCHANGED <<memory, disk, expired, used, request>>

\* forget; and authorize, which every event and broadcast asks first.
Forget(s) ==
    /\ sockets[s] # NoSocket
    /\ Disconnected(s)
    /\ UNCHANGED <<memory, disk, expired, used, request>>

Expire(t) ==
    /\ t \in used \ expired
    /\ expired' = expired \cup {t}
    /\ UNCHANGED <<memory, disk, used, sockets, timers, request>>

Restart ==
    /\ memory' = disk
    /\ sockets' = [s \in Sockets |-> NoSocket] /\ timers' = {}
    /\ request' = NoRequest
    /\ UNCHANGED <<disk, expired, used>>

Next ==
    \/ \E op \in {"login", "logout", "enable", "change", "disable"},
          t \in used \cup {NoToken} : Begin(op, t)
    \/ Refuse \/ Commit \/ Prune \/ Respond
    \/ \E s \in Sockets : Forget(s)
    \/ \E s \in Sockets, t \in used \cup {NoToken} : Register(s, t)
    \/ \E t \in Tokens : Expire(t)
    \/ Restart

Spec == Init /\ [][Next]_vars

----------------------------------------------------------------------------
(* Properties.                                                             *)

\* The policy that runs is the policy a restart would find; and an open socket without a
\* session any more is one that the request which ended the session still has to look
\* at, or one whose own timer is due: no change of the policy forgets a socket, in
\* whatever order sockets come and go while it looks.
OpenSocketsFollow ==
    /\ memory = disk
    /\ \A s \in Open :
        \/ Allowed(sockets[s])
        \/ request.at = "prune" /\ s \in request.left
        \/ s \in timers /\ sockets[s] \in expired
----------------------------------------------------------------------------
(* What the property rests on.                                             *)

Shapes ==
    /\ DOMAIN memory = {"on", "sessions"}
    /\ DOMAIN request = {"op", "at", "token", "left"}
    /\ request.at = "verify" => request.op \in {"login", "logout", "enable", "change", "disable"}
    /\ used \subseteq Tokens
    /\ sockets \in [Sockets -> used \cup {NoToken, NoSocket}]

\* A session is of a token that was handed out, and an open socket with one has a timer.
Sessions ==
    /\ memory.sessions \subseteq used
    /\ ~memory.on => memory.sessions = {}
    /\ \A s \in Open : sockets[s] \in memory.sessions => s \in timers

Inv == Shapes /\ Sessions /\ OpenSocketsFollow
=============================================================================
