---------------------------- MODULE WatchRequest ----------------------------
(***************************************************************************)
(* How a minute is watched: the part of watch_loop before it asks for      *)
(* progress, and Channel.send_watch, which asks Twitch for the address of  *)
(* a playlist, for the playlist, and for the head of each media segment it *)
(* has not asked for yet.  Each is an await, over which the stream may be  *)
(* looked up again, begin anew or end, and the channel be left, banned or  *)
(* closed; a task that is cancelled leaves what it has done so far.        *)
(***************************************************************************)
EXTENDS Naturals, Sequences, FiniteSets, SequencesExt, FiniteSetsExt

CONSTANTS Addresses,     \* of playlists, which Twitch gives once and rejects later
          NoAddress,
          Segments,      \* of a playlist
          Kept,          \* how many segments are remembered, 256 in the code
          MaxBroadcasts  \* bound: broadcasts of the channel

ConstantsOK ==
    /\ NoAddress \notin Addresses /\ IsFiniteSet(Segments)
    /\ {Kept, MaxBroadcasts} \subseteq Nat \ {0}

VARIABLES
    stream,   \* Channel._stream: [broadcast, url], broadcast 0 when offline
    wanted,   \* the channel is watched, not banned, and mining is open
    held,     \* the stream the request began with: [broadcast, url, same], where same
              \* tells whether it still is the channel's Stream object
    pc,       \* where watch_loop is
    list,     \* the segments of the playlist
    todo,     \* those of them that the loop has not come to
    ok,       \* succeeded
    seen,     \* _watched_segments, the oldest first
    seenOf,   \* _watch_broadcast_id
    told,     \* the telemetry of this minute was sent
    loaded,   \* ghost: the segments served, each with its broadcast
    rejected, \* ghost: the addresses Twitch has rejected
    again     \* ghost: how often each of them was rejected again, as a playlist's

vars == <<stream, wanted, held, pc, list, todo, ok, seen, seenOf, told, loaded,
          rejected, again>>
request == <<list, todo, ok>>
memory == <<seen, seenOf, told>>
ghosts == <<loaded, rejected, again>>

Offline == [broadcast |-> 0, url |-> NoAddress]
Nothing == [broadcast |-> 0, url |-> NoAddress, same |-> FALSE]

Init ==
    /\ stream = [broadcast |-> 1, url |-> NoAddress] /\ wanted = TRUE
    /\ held = Nothing /\ pc = "idle"
    /\ list = <<>> /\ todo = <<>> /\ ok = TRUE
    /\ seen = <<>> /\ seenOf = 0 /\ told = FALSE
    /\ loaded = {} /\ rejected = {} /\ again = [a \in Addresses |-> 0]

----------------------------------------------------------------------------
(* The channel.                                                            *)

\* A broadcast that ended does not come back.
Latest == Max({1, stream.broadcast, held.broadcast, seenOf})

\* A lookup makes a new Stream object, which takes the address over unless the
\* broadcast is another one.
LookUp ==
    /\ \E b \in {Latest, Latest + 1} \cap (1..MaxBroadcasts) :
          stream' = [broadcast |-> b,
                     url |-> IF b = stream.broadcast THEN stream.url ELSE NoAddress]
    /\ held' = [held EXCEPT !.same = FALSE]
    /\ UNCHANGED <<wanted, pc, request, memory, ghosts>>

GoOffline ==
    /\ stream # Offline
    /\ stream' = Offline /\ held' = [held EXCEPT !.same = FALSE]
    /\ UNCHANGED <<wanted, pc, request, memory, ghosts>>

\* Another channel is watched, this one again, a ban, or the hours of mining.
WantedOrNot ==
    /\ wanted' = ~wanted
    /\ UNCHANGED <<stream, held, pc, request, memory, ghosts>>

Minute ==
    /\ told /\ told' = FALSE
    /\ UNCHANGED <<stream, wanted, held, pc, request, seen, seenOf, ghosts>>

----------------------------------------------------------------------------
(* Pieces.                                                                 *)

\* _watch_current.
Current == wanted /\ held.broadcast = stream.broadcast

\* The address of the request's Stream object, which may be the channel's.
HeldUrl(a) ==
    /\ held' = [held EXCEPT !.url = a]
    /\ stream' = IF held.same THEN [stream EXCEPT !.url = a] ELSE stream

\* Mutant: only the object the request began with forgets the address.
DropHeld == HeldUrl(NoAddress)

\* The playlist was rejected: so is its address, in whichever object it is.
DropUrl ==
    /\ held' = [held EXCEPT !.url = NoAddress]
    /\ stream' = IF stream.broadcast = held.broadcast
                 THEN [stream EXCEPT !.url = NoAddress] ELSE stream

Fail == pc' = "sleep" /\ ok' = FALSE /\ UNCHANGED <<list, todo>>

\* The segments the loop comes to next, past those it has seen.
Unseen(segments, known) ==
    LET new == {i \in 1..Len(segments) : segments[i] \notin Range(known)} IN
    IF new = {} THEN <<>> ELSE SubSeq(segments, Min(new), Len(segments))

\* The end of _watch_playlist; telemetry goes out once a minute.
Finished(good) ==
    IF ~good THEN pc' = "sleep" /\ UNCHANGED told
    ELSE pc' = (IF told THEN "sleep" ELSE "spade") /\ told' = TRUE

\* On to the next segment, or to the end.
Proceed(rest, known, good) ==
    LET next == Unseen(rest, known) IN
    /\ todo' = next /\ ok' = good
    /\ IF next = <<>> THEN Finished(good) ELSE pc' = "head" /\ UNCHANGED told

----------------------------------------------------------------------------
(* send_watch, from await to await.                                        *)

\* Another broadcast has other segments, and a minute of its own.
Known == IF seenOf = stream.broadcast THEN seen ELSE <<>>

Begin ==
    /\ pc = "idle" /\ wanted /\ stream # Offline
    /\ held' = [broadcast |-> stream.broadcast, url |-> stream.url, same |-> TRUE]
    /\ seen' = Known /\ seenOf' = stream.broadcast
    /\ told' = (told /\ seenOf = stream.broadcast)
    /\ IF stream.url = NoAddress
       THEN pc' = "address"
       ELSE pc' = "playlist"
    /\ list' = <<>> /\ todo' = <<>> /\ ok' = TRUE
    /\ UNCHANGED <<stream, wanted, ghosts>>

AddressArrives ==
    /\ pc = "address"
    /\ \E a \in Addresses \ (rejected \cup {stream.url}) :
          /\ HeldUrl(a)
          /\ IF Current THEN pc' = "playlist" /\ UNCHANGED request
                        ELSE Fail
    /\ UNCHANGED <<wanted, memory, ghosts>>

PlaylistArrives ==
    /\ pc = "playlist" /\ held.url \notin rejected
    /\ IF ~Current THEN Fail /\ UNCHANGED told
       ELSE \E segments \in SetToSeqs(Segments) \cup {<<s>> : s \in Segments} :
               list' = segments /\ Proceed(segments, seen, TRUE)
    /\ UNCHANGED <<stream, wanted, held, seen, seenOf, ghosts>>

PlaylistRejected ==
    /\ pc = "playlist"
    /\ DropUrl
    /\ rejected' = rejected \cup {held.url}
    /\ again' = IF held.url \in rejected THEN [again EXCEPT ![held.url] = @ + 1] ELSE again
    /\ Fail
    /\ UNCHANGED <<wanted, memory, loaded>>

\* A segment was served.
HeadArrives ==
    /\ pc = "head"
    /\ IF ~Current THEN Fail /\ UNCHANGED <<seen, told>>
       ELSE LET all == Append(seen, Head(todo))
                known == IF Len(all) > Kept THEN Tail(all) ELSE all IN
            /\ seen' = known
            /\ Proceed(Tail(todo), known, ok)
            /\ UNCHANGED list
    /\ loaded' = loaded \cup {<<held.broadcast, Head(todo)>>}
    /\ UNCHANGED <<stream, wanted, held, seenOf, rejected, again>>

\* It was not; the others are still asked for.  Only the request's own Stream object
\* forgets the address of the playlist.
HeadFails ==
    /\ pc = "head"
    /\ \/ UNCHANGED <<stream, held, rejected>>
       \/ HeldUrl(NoAddress) /\ rejected' = rejected \cup ({held.url} \ {NoAddress})
    /\ IF ~Current THEN Fail /\ UNCHANGED told
       ELSE Proceed(Tail(todo), seen, FALSE) /\ UNCHANGED list
    /\ UNCHANGED <<wanted, seen, seenOf, loaded, again>>

\* Telemetry was sent or not, nobody minds.
SpadeEnds ==
    /\ pc = "spade" /\ pc' = "sleep"
    /\ ok' = Current
    /\ UNCHANGED <<stream, wanted, held, list, todo, memory, ghosts>>

\* No address, no playlist, or ten seconds have passed.
GiveUp ==
    /\ pc \in {"address", "playlist", "head"}
    /\ Fail
    /\ UNCHANGED <<stream, wanted, held, memory, ghosts>>

\* watch_loop sleeps till the next poll; only then may it ask for progress.
SleepEnds ==
    /\ pc = "sleep"
    /\ pc' = IF Current /\ ok THEN "progress" ELSE "idle"
    /\ UNCHANGED <<stream, wanted, held, request, memory, ghosts>>

\* The progress was polled, or the task was cancelled and is begun again.
Ends ==
    /\ pc # "idle" /\ pc' = "idle"
    /\ UNCHANGED <<stream, wanted, held, request, memory, ghosts>>

Next ==
    \/ LookUp \/ GoOffline \/ WantedOrNot \/ Minute
    \/ Begin
    \/ AddressArrives
    \/ PlaylistArrives \/ PlaylistRejected
    \/ HeadArrives \/ HeadFails
    \/ SpadeEnds
    \/ GiveUp
    \/ SleepEnds \/ Ends

Spec == Init /\ [][Next]_vars

----------------------------------------------------------------------------
(* Properties.                                                             *)

\* A minute is counted, and progress asked for, only if Twitch served each segment of
\* the playlist during this broadcast, whatever was remembered or happened in between;
\* and an address that Twitch rejected is rejected at most once more, although a lookup
\* may have copied it into another Stream object meanwhile.
WatchingIsReal ==
    /\ pc = "sleep" /\ ok => \A s \in Range(list) : <<held.broadcast, s>> \in loaded
    /\ \A a \in Addresses : again[a] <= 1
----------------------------------------------------------------------------
(* What the property rests on.                                             *)

Urls == Addresses \cup {NoAddress}

Types ==
    /\ stream \in [broadcast : Nat, url : Urls]
    /\ held \in [broadcast : Nat, url : Urls, same : BOOLEAN]
    /\ {list, todo, seen} \subseteq Seq(Segments)
    /\ pc = "head" => todo # <<>>
    /\ again \in [Addresses -> Nat]

Served(s) == <<held.broadcast, s>> \in loaded

\* What is remembered was served during the broadcast of the request, and so was what
\* the loop has come past, while all went well.
Remembered ==
    /\ seenOf = held.broadcast
    /\ \A s \in Range(seen) : Served(s)
    /\ pc = "head" /\ ok => \A s \in Range(list) : s \in Range(todo) \/ Served(s)
    /\ pc = "spade" \/ (pc = "sleep" /\ ok) => \A s \in Range(list) : Served(s)

\* An address is in the request's Stream object and in the channel's; once it was
\* rejected again it is in neither.
Forgotten ==
    /\ held.same => held.broadcast = stream.broadcast
    /\ held.broadcast # stream.broadcast => stream.url = NoAddress
    /\ \A a \in Addresses : again[a] = 0
          \/ (again[a] = 1 /\ a \in rejected /\ held.url # a /\ stream.url # a)

Inv == Types /\ Remembered /\ Forgotten
=============================================================================
