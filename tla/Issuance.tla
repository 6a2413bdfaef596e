------------------------------ MODULE Issuance ------------------------------
(***************************************************************************)
(* How a proof is issued in a browser of the miner's own: SDKAcquisition,  *)
(* which has a page fetch one, SDKExchange, which follows the requests of  *)
(* that page, and the DevToolsConnection between them and the browser,     *)
(* where replies and events travel together.                               *)
(***************************************************************************)
EXTENDS Naturals, Sequences, FiniteSets

CONSTANTS Calls,  \* the requests for /integrity the page may make
          NoCall,
          Limit     \* of the events nobody has handled yet

ConstantsOK ==
    {NoCall, "none", "events", "failed"} \cap Calls = {} /\ Limit \in Nat \ {0}

VARIABLES
    page,     \* each request, as the browser sees it: [stage, post, cached, good]
    shown,    \* is the document loaded?
    fetched,  \* the request whose answer the page's script returned
    wire,     \* what the browser has sent and the connection has not received
    requests, \* DevToolsConnection._requests
    events,   \* its queue
    open,     \* its reader runs
    exchange, \* SDKExchange: [at, posts, responses, cached, loaded, proof]
    acquire,  \* SDKAcquisition.acquire: [at, data]
    result    \* of run: a request, whose token it is, "failed", or "none"

vars == <<page, shown, fetched, wire, requests, events, open, exchange, acquire, result>>
browser == <<page, shown, fetched>>

Unsent == [stage |-> "none", post |-> FALSE, cached |-> FALSE, good |-> FALSE]

Init ==
    /\ page = [r \in Calls |-> Unsent]
    /\ shown = FALSE /\ fetched = NoCall
    /\ wire = <<>> /\ requests = {} /\ events = <<>> /\ open = TRUE
    /\ exchange = [at |-> "events", posts |-> {}, responses |-> {}, cached |-> {},
                   loaded |-> FALSE, proof |-> NoCall]
    /\ acquire = [at |-> "navigate", data |-> NoCall]
    /\ result = "none"

Event(method, r) == [method |-> method, request |-> r]
Emit(method, r) == wire' = Append(wire, Event(method, r))

----------------------------------------------------------------------------
(* The browser, external: its events arrive in the order of the network.   *)

\* The fulfilled document comes first.
Load ==
    /\ acquire.at = "load" /\ ~shown /\ open
    /\ shown' = TRUE /\ Emit("loaded", NoCall)
    /\ UNCHANGED <<page, fetched, requests, events, open, exchange, acquire, result>>

\* The script of the SDK, and the preflight requests of the browser.
Send(r) ==
    /\ acquire.at = "fetch" /\ page[r].stage = "none" /\ open
    /\ \E post, cached, good \in BOOLEAN :
        /\ page' = [page EXCEPT ![r] = [stage |-> "sent", post |-> post,
                                        cached |-> cached, good |-> good]]
        /\ LET sent == Append(wire, Event("sent", r)) IN
           wire' = IF cached THEN Append(sent, Event("cached", r)) ELSE sent
    /\ UNCHANGED <<shown, fetched, requests, events, open, exchange, acquire, result>>

Respond(r) ==
    /\ page[r].stage = "sent" /\ open
    /\ \/ /\ page' = [page EXCEPT ![r].stage = "responded"] /\ Emit("response", r)
       \/ /\ page' = [page EXCEPT ![r].stage = "failed"] /\ Emit("failed", r)
    /\ UNCHANGED <<shown, fetched, requests, events, open, exchange, acquire, result>>

Finish(r) ==
    /\ page[r].stage = "responded" /\ open
    /\ page' = [page EXCEPT ![r].stage = "finished"] /\ Emit("finished", r)
    /\ UNCHANGED <<shown, fetched, requests, events, open, exchange, acquire, result>>

\* The script returns what its own POST was answered, if that has status 200.
Fetch(r) ==
    /\ acquire.at = "fetch" /\ fetched = NoCall
    /\ page[r].stage = "finished" /\ page[r].post /\ page[r].good
    /\ fetched' = r
    /\ UNCHANGED <<page, shown, wire, requests, events, open, exchange, acquire, result>>

----------------------------------------------------------------------------
(* DevToolsConnection._receive.                                            *)

Relevant(e) ==
    \/ e.method \in {"loaded", "cached", "failed"} \* extra_events
    \/ e.method \in {"sent", "response"}
    \/ e.method = "finished" /\ e.request \in requests

\* The reader ends: a full queue loses its oldest event to the end mark.
Closes ==
    /\ open' = FALSE /\ wire' = <<>>
    /\ events' = Append(IF Len(events) >= Limit THEN Tail(events) ELSE events,
                        Event("end", NoCall))

Receive ==
    /\ open /\ wire # <<>>
    /\ LET e == Head(wire) IN
        /\ requests' = IF e.method \in {"sent", "response"} THEN requests \cup {e.request}
                       ELSE IF e.method = "finished" THEN requests \ {e.request}
                       ELSE requests
        /\ \/ /\ ~Relevant(e)
              /\ wire' = Tail(wire) /\ UNCHANGED <<events, open>>
           \/ /\ Relevant(e) /\ Len(events) < Limit
              /\ wire' = Tail(wire) /\ events' = Append(events, e) /\ UNCHANGED open
           \/ Relevant(e) /\ Len(events) >= Limit /\ Closes
    /\ UNCHANGED <<browser, exchange, acquire, result>>

\* The browser ends, the target is detached, or something unreadable arrives.
Disconnect ==
    /\ open /\ Closes
    /\ UNCHANGED <<browser, requests, exchange, acquire, result>>

----------------------------------------------------------------------------
(* SDKExchange.run: one event after the other.                             *)

\* Mutant: the response of any request counts, from wherever it came.
AnyResponse(r) == r \in exchange.responses

\* The issuance came over the network and was a success.
Issued(r) ==
    /\ r \in exchange.responses \ exchange.cached
    /\ page[r].good

Handled(e) ==
    CASE e.method = "loaded" -> [exchange EXCEPT !.loaded = TRUE]
      [] e.method = "sent" /\ page[e.request].post ->
            [exchange EXCEPT !.posts = @ \cup {e.request}]
      [] e.method = "cached" -> [exchange EXCEPT !.cached = @ \cup {e.request}]
      [] e.method = "response" /\ e.request \in exchange.posts ->
            [exchange EXCEPT !.responses = @ \cup {e.request}]
      [] e.method = "failed" /\ e.request \in exchange.posts ->
            [exchange EXCEPT !.at = "failed"]
      [] e.method = "finished" /\ e.request \in exchange.posts ->
            IF Issued(e.request) THEN [exchange EXCEPT !.at = e.request]
            ELSE [exchange EXCEPT !.at = "failed"]
      [] e.method = "end" -> [exchange EXCEPT !.at = "failed"]
      [] OTHER -> exchange

Handle ==
    /\ exchange.at = "events" /\ events # <<>> /\ result = "none"
    /\ exchange' = Handled(Head(events))
    /\ events' = Tail(events)
    /\ UNCHANGED <<browser, wire, requests, open, acquire, result>>

\* The body of the response is asked for, while events queue up; the first one is the proof.
Body ==
    /\ exchange.at \in Calls /\ result = "none"
    /\ \/ /\ open
          /\ exchange' = [exchange EXCEPT !.at = "events",
                             !.proof = IF @ = NoCall THEN exchange.at ELSE @]
       \/ exchange' = [exchange EXCEPT !.at = "failed"]
    /\ UNCHANGED <<browser, wire, requests, events, open, acquire, result>>

----------------------------------------------------------------------------
(* SDKAcquisition.acquire and run.                                         *)

Acquire(from, to) ==
    /\ acquire.at = from /\ result = "none"
    /\ acquire' = [acquire EXCEPT !.at = to]
    /\ UNCHANGED <<browser, wire, requests, events, open, exchange, result>>

Navigate == open /\ Acquire("navigate", "load")
Loaded == exchange.loaded /\ Acquire("load", "fetch")

Evaluated ==
    /\ acquire.at = "fetch" /\ open /\ fetched # NoCall /\ result = "none"
    /\ acquire' = [at |-> "proof", data |-> fetched]
    /\ UNCHANGED <<browser, wire, requests, events, open, exchange, result>>

\* What the script returned must be what the network showed.
Compared ==
    /\ exchange.proof # NoCall /\ exchange.proof = acquire.data
    /\ Acquire("proof", "cookies")

\* The cookie that goes with the proof is read, and run returns, unless the exchange
\* has ended meanwhile.
Returns ==
    /\ acquire.at = "cookies" /\ open /\ exchange.at # "failed" /\ result = "none"
    /\ result' = exchange.proof
    /\ UNCHANGED <<browser, wire, requests, events, open, exchange, acquire>>

\* run ends with the exchange, with a command that fails, or with its timeout.
Fails ==
    /\ result = "none"
    /\ result' = "failed"
    /\ UNCHANGED <<browser, wire, requests, events, open, exchange, acquire>>

Next ==
    \/ Load \/ Receive \/ Disconnect
    \/ Handle \/ Body
    \/ Navigate \/ Loaded \/ Evaluated \/ Compared \/ Returns \/ Fails
    \/ \E r \in Calls : Send(r) \/ Respond(r) \/ Finish(r) \/ Fetch(r)

Spec == Init /\ [][Next]_vars

----------------------------------------------------------------------------
(* Properties.                                                             *)

\* The proof that is returned is the answer of Twitch to a POST of this page that
\* finished over the network, the one its script was given, never one of a cache or of
\* another request, in whatever order events, replies and the body arrive.
ProofIsIssued ==
    result \in Calls =>
        /\ page[result].stage = "finished" /\ page[result].post
        /\ page[result].good /\ ~page[result].cached
        /\ result = fetched
----------------------------------------------------------------------------
(* What the property rests on.                                             *)

Methods == {"sent", "cached", "response", "failed", "finished"}
Events == [method : {"loaded", "end"}, request : {NoCall}]
          \cup [method : Methods, request : Calls]
Request == [stage : {"none", "sent", "responded", "failed", "finished"},
            post : BOOLEAN, cached : BOOLEAN, good : BOOLEAN]
Exchanges == [at : {"events", "failed"} \cup Calls,
              posts : SUBSET Calls, responses : SUBSET Calls, cached : SUBSET Calls,
              loaded : BOOLEAN, proof : Calls \cup {NoCall}]

Types ==
    /\ page \in [Calls -> Request] /\ shown \in BOOLEAN /\ open \in BOOLEAN
    /\ fetched \in Calls \cup {NoCall}
    /\ wire \in Seq(Events) /\ events \in Seq(Events)
    /\ exchange \in Exchanges
    /\ acquire \in [at : {"navigate", "load", "fetch", "proof", "cookies"},
                    data : Calls \cup {NoCall}]
    /\ result \in Calls \cup {"none", "failed"}

\* What the script was given finished; it is what run waits for, and then returns.
Fetching ==
    /\ fetched \in Calls =>
          page[fetched].stage = "finished" /\ page[fetched].post /\ page[fetched].good
    /\ acquire.at \in {"proof", "cookies"} => acquire.data = fetched /\ fetched # NoCall
    /\ acquire.at = "cookies" => exchange.proof = fetched
    /\ result \in Calls => result = fetched /\ result = exchange.proof

Sent(r) == page[r].stage # "none"
FromCache(r) == Sent(r) /\ page[r].cached
CachedAmong(r, seq, n) == \E i \in 1..n : seq[i] = Event("cached", r)

\* The exchange knows that r came from a cache, or will know when it has handled its
\* first n events.
Learns(r, n) == r \in exchange.cached \/ CachedAmong(r, events, n)

\* While the connection is open, that a request was answered by a cache reaches the
\* exchange before the response does.
InOrder ==
    /\ \A r \in exchange.responses : FromCache(r) => r \in exchange.cached
    /\ \A r \in Calls : FromCache(r) =>
          Learns(r, Len(events)) \/ CachedAmong(r, wire, Len(wire))
    /\ \A i \in 1..Len(events) : \A r \in Calls :
          events[i] = Event("response", r) /\ FromCache(r) => Learns(r, i)
    /\ \A i \in 1..Len(wire) : \A r \in Calls :
          wire[i] = Event("response", r) /\ FromCache(r) =>
             Learns(r, Len(events)) \/ CachedAmong(r, wire, i)

\* Whatever is on its way, known or taken as proof was sent: it does not change its kind.
AllSent ==
    /\ \A i \in 1..Len(wire) : wire[i].request \in Calls => Sent(wire[i].request)
    /\ \A i \in 1..Len(events) : events[i].request \in Calls => Sent(events[i].request)
    /\ \A r \in exchange.responses : Sent(r)

Proven ==
    /\ exchange.proof \in Calls => Sent(exchange.proof) /\ ~page[exchange.proof].cached
    /\ open /\ exchange.at \in Calls =>
          Sent(exchange.at) /\ ~page[exchange.at].cached

Inv == Types /\ Fetching /\ AllSent /\ (open => InOrder) /\ Proven
=============================================================================
