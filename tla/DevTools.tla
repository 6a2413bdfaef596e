------------------------------ MODULE DevTools ------------------------------
(***************************************************************************)
(* Remote control of a browser through one pipe: DevToolsPipe reads it and *)
(* hands each message to the session it names, DevToolsConnection matches  *)
(* the replies of its session with commands and queues the events for the  *)
(* capture.  There is the session of the browser itself and, while target  *)
(* is open, the one of a page; the browser may close the page or end at    *)
(* any time, and answers in any order, late or never.                      *)
(***************************************************************************)
EXTENDS Naturals, Sequences, FiniteSets

CONSTANTS MaxCommands, MaxWire, \* bounds
          LIMIT, MaxEvents      \* what waits in a queue, and in `events`, at most

ConstantsOK == {MaxCommands, MaxWire, LIMIT, MaxEvents} \subseteq Nat \ {0}

VARIABLES
    asked,      \* commands the browser has not answered: [conn, id]
    page,       \* the page, in the browser: "none", "attached", "gone"
    wire,       \* what the browser wrote and the pipe has not read
    pipe,       \* "open" or "ended"
    registered, \* the connections whose session the pipe knows
    queue,      \* _PipeSession.queue of each connection
    reader,     \* DevToolsConnection._receive: "off", "reading", "done"
    commands,   \* every command sent: [conn, id, state, got]
    events,     \* DevToolsConnection.events
    heard,      \* ghost: the capture read the page's events up to their end
    target      \* the context manager: "none", "attaching", "open", "closed"

vars == <<asked, page, wire, pipe, registered, queue, reader, commands, events, heard, target>>

Conn == {"browser", "page"}
End == [kind |-> "end"]

Init ==
    /\ asked = {} /\ page = "none" /\ wire = <<>> /\ pipe = "open"
    /\ registered = {"browser"}
    /\ queue = [c \in Conn |-> <<>>]
    /\ reader = [c \in Conn |-> IF c = "browser" THEN "reading" ELSE "off"]
    /\ commands = <<>>
    /\ events = [c \in Conn |-> <<>>]
    /\ heard = FALSE /\ target = "none"

----------------------------------------------------------------------------
(* The browser.                                                            *)

Writes(m) == Len(wire) < MaxWire /\ wire' = Append(wire, m)

\* An answer names the session of its command, unless that is gone: then it names none.
Replies ==
    /\ pipe = "open"
    /\ \E a \in asked :
          /\ asked' = asked \ {a}
          /\ page' = IF a.attach THEN "attached" ELSE page
          /\ Writes([kind |-> "reply", id |-> a.id, of |-> a.n,
                     to |-> IF page = "gone" THEN "browser" ELSE a.conn])
    /\ UNCHANGED <<pipe, registered, queue, reader, commands, events, heard, target>>

PageEvent ==
    /\ pipe = "open" /\ page = "attached" /\ Writes([kind |-> "event", to |-> "page"])
    /\ UNCHANGED <<asked, page, pipe, registered, queue, reader, commands, events, heard,
                   target>>

PageGoes ==
    /\ pipe = "open" /\ page = "attached" /\ page' = "gone"
    /\ Writes([kind |-> "detached", to |-> "browser"])
    /\ UNCHANGED <<asked, pipe, registered, queue, reader, commands, events, heard, target>>

----------------------------------------------------------------------------
(* DevToolsPipe._receive.                                                  *)

\* _end of the sessions of CS; what they have in their queues is still handed on.
Ended(cs) ==
    /\ registered' = registered \ cs
    /\ queue' = [c \in Conn |-> IF c \in cs \cap registered THEN Append(queue[c], End)
                                ELSE queue[c]]

\* A session ends with its page, or when more is waiting for it than LIMIT.
PipeReads ==
    /\ pipe = "open" /\ wire # <<>> /\ wire' = Tail(wire)
    /\ LET m == Head(wire)
       IN  \/ m.kind = "detached" /\ Ended({"page"})
           \/ m.kind # "detached" /\ Len(queue[m.to]) = LIMIT /\ Ended({m.to})
           \/ /\ m.kind # "detached" /\ Len(queue[m.to]) < LIMIT
              /\ queue' = IF m.to \in registered THEN [queue EXCEPT ![m.to] = Append(@, m)]
                          ELSE queue
              /\ UNCHANGED registered
    /\ UNCHANGED <<asked, page, pipe, reader, commands, events, heard, target>>

\* The browser ends, or what it writes cannot be read.
PipeEnds ==
    /\ pipe = "open" /\ pipe' = "ended" /\ wire' = <<>> /\ asked' = {}
    /\ Ended(Conn)
    /\ UNCHANGED <<page, reader, commands, events, heard, target>>

----------------------------------------------------------------------------
(* DevToolsConnection.                                                     *)

\* Mutant: each connection counts its own commands.
OwnId(conn) == Cardinality({i \in DOMAIN commands : commands[i].conn = conn}) + 1

\* "Connections sharing one transport share ids."
Id(conn) == Len(commands) + 1

\* command: on a connection whose reader is done, or a pipe that takes nothing, it fails
\* at once.
Command(conn, attach) ==
    /\ Len(commands) < MaxCommands /\ reader[conn] = "reading"
    /\ commands' = Append(commands, [conn |-> conn, id |-> Id(conn), got |-> 0,
                                     state |-> IF pipe = "open" THEN "pending" ELSE "failed"])
    /\ asked' = IF pipe = "open"
                THEN asked \cup {[conn |-> conn, id |-> Id(conn), n |-> Len(commands) + 1,
                                  attach |-> attach]}
                ELSE asked

\* target and who uses it send them.
Commands ==
    /\ target = "open"
    /\ \E conn \in Conn : Command(conn, FALSE)
    /\ UNCHANGED <<page, wire, pipe, registered, queue, reader, events, heard, target>>

TimesOut ==
    /\ \E i \in DOMAIN commands :
          /\ commands[i].state = "pending"
          /\ commands' = [commands EXCEPT ![i].state = "failed"]
    /\ UNCHANGED <<asked, page, wire, pipe, registered, queue, reader, events, heard, target>>

\* The `finally` of _receive: nobody waits any more, and the end is put where the events
\* are, in the place of one if there is no room.
ReaderEnds(c) ==
    /\ reader' = [reader EXCEPT ![c] = "done"]
    /\ commands' = [i \in DOMAIN commands |->
          IF commands[i].conn = c /\ commands[i].state = "pending"
          THEN [commands[i] EXCEPT !.state = "failed"] ELSE commands[i]]
    /\ events' = [events EXCEPT ![c] =
          Append(IF Len(@) = MaxEvents THEN Tail(@) ELSE @, End)]

Received(c) ==
    /\ reader[c] = "reading" /\ queue[c] # <<>>
    /\ queue' = [queue EXCEPT ![c] = Tail(@)]

Reads(c) ==
    /\ Received(c)
    /\ LET m == Head(queue[c])
           Mine(i) == m.kind = "reply" /\ commands[i].conn = c /\ commands[i].id = m.id
                      /\ commands[i].state = "pending"
       IN  IF m = End \/ (m.kind = "event" /\ Len(events[c]) = MaxEvents) THEN ReaderEnds(c)
           ELSE /\ commands' = [i \in DOMAIN commands |->
                      IF Mine(i) THEN [commands[i] EXCEPT !.state = "answered", !.got = m.of]
                      ELSE commands[i]]
                /\ events' = IF m.kind = "event" THEN [events EXCEPT ![c] = Append(@, m)]
                             ELSE events
                /\ UNCHANGED reader
    /\ UNCHANGED <<asked, page, wire, pipe, registered, heard, target>>

\* The capture, of the page, takes an event.
TakesEvent ==
    /\ events["page"] # <<>> /\ events' = [events EXCEPT !["page"] = Tail(@)]
    /\ heard' = (heard \/ Head(events["page"]) = End)
    /\ UNCHANGED <<asked, page, wire, pipe, registered, queue, reader, commands, target>>

----------------------------------------------------------------------------
(* DevToolsPipe.target.                                                    *)

Attach ==
    /\ target = "none" /\ target' = "attaching" /\ commands = <<>>
    /\ Command("browser", TRUE)
    /\ UNCHANGED <<page, wire, pipe, registered, queue, reader, events, heard>>

\* The first command is the attachment.
Attached ==
    /\ target = "attaching" /\ commands[1].state = "answered" /\ target' = "open"
    /\ registered' = registered \cup {"page"}
    /\ reader' = [reader EXCEPT !["page"] = "reading"]
    /\ UNCHANGED <<asked, page, wire, pipe, queue, commands, events, heard>>

\* The connection is closed, which cancels its reader, and then its session.
Detach ==
    /\ target = "open" /\ target' = "closed"
    /\ IF reader["page"] = "reading" THEN ReaderEnds("page")
       ELSE UNCHANGED <<reader, commands, events>>
    /\ Ended({"page"})
    /\ UNCHANGED <<asked, page, wire, pipe, heard>>

AttachFails ==
    /\ target = "attaching" /\ commands[1].state = "failed" /\ target' = "closed"
    /\ UNCHANGED <<asked, page, wire, pipe, registered, queue, reader, commands, events, heard>>

Next ==
    \/ Replies \/ PageEvent \/ PageGoes
    \/ PipeReads \/ PipeEnds
    \/ Commands \/ TimesOut
    \/ TakesEvent \/ \E c \in Conn : Reads(c)
    \/ Attach \/ Attached \/ Detach \/ AttachFails

Spec == Init /\ [][Next]_vars

----------------------------------------------------------------------------
(* Properties.                                                             *)

\* A command gets its own answer or none, also when its session is gone; and when a
\* connection ends, at whatever moment and however many events wait, none of its
\* commands waits on, and who reads its events comes to their end.
AnswersAreTheirOwn ==
    /\ \A i \in DOMAIN commands : commands[i].state = "answered" => commands[i].got = i
    /\ \A c \in Conn : reader[c] = "done" =>
          /\ (c = "page" /\ heard) \/ End \in {events[c][i] : i \in DOMAIN events[c]}
          /\ \A i \in DOMAIN commands : commands[i].conn = c => commands[i].state # "pending"

\* "End a page session as soon as its target goes away, failing its pending commands."
EndsWithItsTarget ==
    target = "open" /\ page = "gone" /\ wire = <<>> /\ queue["page"] = <<>>
        => reader["page"] = "done"
----------------------------------------------------------------------------
(* What the property rests on.                                             *)

\* Wherever an answer is, it is the one of the command whose id it names.
Messages ==
    {m \in [kind : {"reply"}, id : Nat, of : Nat, to : Conn] : m.id = m.of}
    \cup [kind : {"event", "detached"}, to : Conn] \cup {End}
Asked == {a \in [conn : Conn, id : Nat, n : Nat, attach : BOOLEAN] : a.id = a.n}
Sent == [conn : Conn, id : Nat, got : Nat, state : {"pending", "answered", "failed"}]

Types ==
    /\ asked \subseteq Asked /\ wire \in Seq(Messages)
    /\ queue \in [Conn -> Seq(Messages)] /\ events \in [Conn -> Seq(Messages)]
    /\ reader \in [Conn -> {"off", "reading", "done"}]
    /\ commands \in Seq(Sent) /\ \A i \in DOMAIN commands : commands[i].id = i

Inv == Types /\ AnswersAreTheirOwn
=============================================================================
