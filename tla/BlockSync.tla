------------------------------- MODULE BlockSync -------------------------------
(***************************************************************************)
(* The block-sync component of one node (blocksync/src/blocksync.rs,       *)
(* state/src/blocksync.rs).  For itself it fetches ranges of blocks:       *)
(* first the headers, then the payloads they name, a few at a time, each   *)
(* from its own ledger or, when the ledger has it not, from a peer picked  *)
(* at random and picked again after a timeout.  For peers it answers from  *)
(* the block tree and the ledger.  Ledger answers, peer answers (asked     *)
(* for or not, valid or not, never), timer events, cancellations and the   *)
(* switch from state sync to consensus come in any order.                  *)
(*                                                                         *)
(* Blocks are the numbers of a chain; a range names its last block and how *)
(* many it has, and a block's payload has the block's number.              *)
(***************************************************************************)
EXTENDS Integers, Sequences, FiniteSets, FiniteSetsExt

CONSTANTS
    Ranges,        \* ranges [last, num] that the node or a peer asks for
    Peers,         \* peers that ask and that can be asked
    TreeBlocks,    \* blocks of the block tree, which serves peers' headers
    Cacheable,     \* payloads the block tree or buffer may come to hold
    MaxInFlight,   \* BLOCKSYNC_MAX_PAYLOAD_REQUESTS
    MaxAsks,       \* bound: self requests
    MaxPeerAsks    \* bound: requests from peers

None == "self"   \* SelfRequest::to is None: the request is to the own ledger

ASSUME BlockSyncAssumption ==
    /\ Ranges \subseteq [last : Nat, num : Nat \ {0}]
    /\ \A r \in Ranges : r.num <= r.last
    /\ TreeBlocks \cup Cacheable \subseteq Nat \ {0}
    /\ None \notin Peers
    /\ MaxInFlight \in Nat \ {0} /\ {MaxAsks, MaxPeerAsks} \subseteq Nat

Requesters == {"StateSync", "Consensus"}
Blocks(r) == r.last - r.num + 1 .. r.last
Chain(r) == [i \in 1..r.num |-> r.last - r.num + i]   \* its headers, in order
Bodies == UNION {Blocks(r) : r \in Ranges}

Headers(r) == [kind |-> "headers", range |-> r]
Payload(b) == [kind |-> "payload", body |-> b]

VARIABLES
    sync,     \* BlockSync for self requests, with the commands' effects
    served,   \* BlockSync for peers' requests: headers_requests and
              \* payload_requests; history, which no step reads: the answers
              \* of the last step, and all that was asked
    fetch,    \* ledger fetches in progress, counted per request
    armed,    \* requests whose timer runs
    expired,  \* requests whose timer event is not handled yet
    cache,    \* payloads the block tree or block buffer holds
    asks      \* bounds: self requests and peer requests so far

vars == <<sync, served, fetch, armed, expired, cache, asks>>

NoRequest == [requester |-> "none", to |-> "none"]
Queued == [requester |-> "none", to |-> "queued"]   \* not initiated
NoRange == [requester |-> "none", have |-> {}]
ToRequest(s, to) == [requester |-> s.mode, to |-> to]

Initiated(s, b) == s.payloads[b] \notin {NoRequest, Queued}
InFlight(s) == {b \in Bodies : Initiated(s, b)}

-----------------------------------------------------------------------------
(* Handlers of self requests.  A handler maps the state s, which carries   *)
(* the commands of the step, to the next: fetches to start, timers to      *)
(* schedule and to reset.                                                  *)

Quiet(s) == [s EXCEPT !.fetches = {}, !.schedule = {}, !.reset = {}]

\* clear_self_requests
Clear(s) ==
    [s EXCEPT !.headers = [r \in Ranges |-> NoRequest],
              !.payloads = [b \in Bodies |-> NoRequest],
              !.in_flight = 0,
              !.completed = [r \in Ranges |-> NoRange]]

\* Mutant: the requests of the other mode stay.
SelfRequest_NoClear(s, requester, r) ==
    LET t == IF requester # s.mode THEN [s EXCEPT !.mode = requester] ELSE s
    IN  IF t.headers[r] # NoRequest \/ t.completed[r] # NoRange THEN t
        ELSE [t EXCEPT !.headers[r] = ToRequest(t, None), !.fetches = {Headers(r)}]

\* handle_self_request
SelfRequest(s, requester, r) ==
    LET t == IF requester # s.mode THEN [Clear(s) EXCEPT !.mode = requester] ELSE s
    IN  IF t.headers[r] # NoRequest \/ t.completed[r] # NoRange THEN t
        ELSE [t EXCEPT !.headers[r] = ToRequest(t, None), !.fetches = {Headers(r)}]

\* Mutant: the payload requests go with the range.
SelfCancel_DropsPayloads(s, requester, r) ==
    [s EXCEPT !.headers[r] = IF @.requester = requester THEN NoRequest ELSE @,
              !.completed[r] = IF @.requester = requester THEN NoRange ELSE @,
              !.payloads = [b \in Bodies |-> IF b \in Blocks(r) THEN NoRequest ELSE @[b]],
              !.in_flight = Cardinality({b \in InFlight(s) : b \notin Blocks(r)})]

\* handle_self_cancel_request; payload requests stay, another range may need them.
SelfCancel(s, requester, r) ==
    [s EXCEPT !.headers[r] = IF @.requester = requester THEN NoRequest ELSE @,
              !.completed[r] = IF @.requester = requester THEN NoRange ELSE @]

\* The payloads in B arrive at every range that misses them.
Received(c, B) == [c EXCEPT !.have = @ \cup B]
Fill(s, B) ==
    [s EXCEPT !.completed = [r \in Ranges |->
        IF @[r] = NoRange THEN NoRange ELSE Received(@[r], Blocks(r) \cap B)]]

\* handle_completed_ranges: a range that has all payloads is handed over.
EmitCompleted(s) ==
    [s EXCEPT !.completed = [r \in Ranges |-> IF Blocks(r) \subseteq @[r].have THEN NoRange ELSE @[r]]]

\* get_cached_payload: the payload is in the block tree, or in the cache of a
\* range in progress.
Cached(s, b) == b \in cache \/ \E r \in Ranges : b \in s.completed[r].have

\* Mutant: a request that the cache answers keeps its slot.
HydrateFromCache_KeepsSlot(s) ==
    LET found == {b \in Bodies : s.payloads[b] # NoRequest /\ Cached(s, b)}
        timed == {Payload(b) : b \in {x \in found \cap InFlight(s) : s.payloads[x].to # None}}
    IN  Fill([s EXCEPT !.payloads = [b \in Bodies |-> IF b \in found THEN NoRequest ELSE @[b]],
                       !.schedule = @ \ timed,
                       !.reset = @ \cup timed],
             found)

\* The first half of try_initiate_payload_requests_for_self: requests that the
\* cache answers by now end, and so do their timers, one set in this step too.
HydrateFromCache(s) ==
    LET found == {b \in Bodies : s.payloads[b] # NoRequest /\ Cached(s, b)}
        timed == {Payload(b) : b \in {x \in found \cap InFlight(s) : s.payloads[x].to # None}}
    IN  Fill([s EXCEPT !.payloads = [b \in Bodies |-> IF b \in found THEN NoRequest ELSE @[b]],
                       !.in_flight = @ - Cardinality(found \cap InFlight(s)),
                       !.schedule = @ \ timed,
                       !.reset = @ \cup timed],
             found)

\* The payloads whose requests may be initiated next: as many as there are
\* free slots, in the order of a hash map.
Initiations(s) ==
    LET queued == {b \in Bodies : s.payloads[b] = Queued}
    IN  IF s.in_flight >= MaxInFlight THEN {{}}
        ELSE kSubset(Min({Cardinality(queued), MaxInFlight - s.in_flight}), queued)

\* try_initiate_payload_requests_for_self, initiating the requests in Q.
TryInitiate(s, Q) ==
    EmitCompleted([s EXCEPT !.payloads = [b \in Bodies |-> IF b \in Q THEN ToRequest(s, None) ELSE @[b]],
                            !.in_flight = @ + Cardinality(Q),
                            !.fetches = @ \cup {Payload(b) : b \in Q}])

\* Mutant: a payload asked of a peer gets no timer.
AskPeer_NoTimer(s, q, to) ==
    IF q.kind = "headers" THEN [s EXCEPT !.headers[q.range].to = to, !.schedule = @ \cup {q}]
    ELSE [s EXCEPT !.payloads[q.body].to = to]

\* A request of the ledger for q was not successful: ask the peer `to`, or no
\* one, and set the timer.
AskPeer(s, q, to) ==
    LET t == [s EXCEPT !.schedule = @ \cup {q}]
    IN  IF q.kind = "headers" THEN [t EXCEPT !.headers[q.range].to = to]
        ELSE [t EXCEPT !.payloads[q.body].to = to]

\* Valid headers of range r: their payloads are to be requested.
HeadersFound(s, r, sender) ==
    IF s.headers[r].requester # s.mode THEN [s EXCEPT !.panicked = TRUE]
    ELSE [s EXCEPT !.headers[r] = NoRequest,
                   !.reset = IF sender # None THEN {Headers(r)} ELSE {},
                   !.payloads = [b \in Bodies |-> IF b \in Blocks(r) /\ @[b] = NoRequest THEN Queued ELSE @[b]],
                   !.completed[r] = [requester |-> s.mode, have |-> {}]]

\* handle_headers_response_for_self up to its last statement.  The answer is
\* "found", "invalid" or "not_available"; to is the peer that pick_peer returns.
HeadersResponse(s, r, sender, answer, to) ==
    IF answer = "found" THEN HeadersFound(s, r, sender)
    ELSE IF answer = "not_available" /\ sender = None /\ s.headers[r].to = None
    THEN AskPeer(s, Headers(r), to)
    ELSE IF answer = "invalid" /\ sender = None THEN [s EXCEPT !.panicked = TRUE]
    ELSE s

\* A payload arrives for the request of b.
PayloadFound(s, b, sender) ==
    IF s.payloads[b].requester # s.mode THEN [s EXCEPT !.panicked = TRUE]
    ELSE Fill([s EXCEPT !.payloads[b] = NoRequest,
                        !.in_flight = @ - 1,
                        !.reset = IF sender # None THEN {Payload(b)} ELSE {}],
              {b})

\* handle_payload_response_for_self, to its call of handle_completed_ranges.
PayloadResponse(s, b, sender, answer, to) ==
    EmitCompleted(
        IF answer = "found" THEN PayloadFound(s, b, sender)
        ELSE IF sender = None /\ s.payloads[b].to = None THEN AskPeer(s, Payload(b), to)
        ELSE s)

\* The answer to request q, then the next payload requests.
Respond(s, q, sender, answer, to) ==
    LET known == IF q.kind = "headers" THEN s.headers[q.range] # NoRequest ELSE Initiated(s, q.body)
        t == HydrateFromCache(IF q.kind = "headers" THEN HeadersResponse(s, q.range, sender, answer, to)
                              ELSE PayloadResponse(s, q.body, sender, answer, to))
    IN  IF known THEN {TryInitiate(t, Q) : Q \in Initiations(t)} ELSE {s}

\* handle_timeout: ask a peer again, as long as the request is open.
Timeout(s, q, to) ==
    IF q.kind = "headers" /\ s.headers[q.range] # NoRequest THEN AskPeer(s, q, to)
    ELSE IF q.kind = "payload" /\ Initiated(s, q.body) THEN AskPeer(s, q, to)
    ELSE s

\* pick_peer: any peer; no one for a full node that knows no peers yet.  That the
\* current epoch has a validator set, and a validator another one to ask, is
\* assumed: the code panics otherwise.
PickPeer == Peers \cup {None}

-----------------------------------------------------------------------------
(* Peers' requests.                                                        *)

\* cached_blocks: the headers that end range r, as far back as the block tree
\* holds them when the peer asks, in the order of the chain; the block buffer of
\* a syncing node gives none.
CachedHeaders(r) ==
    {Chain([last |-> r.last, num |-> k]) : k \in {k \in 0..r.num : r.last - k + 1 .. r.last \subseteq TreeBlocks}}

\* ledger_fetch_range: what is left of range r, up to the parent of the first
\* header in cached.
LedgerPart(r, cached) ==
    [last |-> IF cached = <<>> THEN r.last ELSE Head(cached) - 1, num |-> r.num - Len(cached)]

\* Ranges that the ledger may be asked for, and all requests to it.
FetchRanges == Ranges \cup UNION {{LedgerPart(r, cached) : cached \in CachedHeaders(r)} : r \in Ranges}
Requests == {Headers(r) : r \in FetchRanges} \cup {Payload(b) : b \in Bodies}
SelfRequests == {Headers(r) : r \in Ranges} \cup {Payload(b) : b \in Bodies}

\* A peer waits for the ledger's answer to fetch; its entry replaces an earlier one
\* of the same peer for the same part of the ledger.
WaitFor(w, peer, part, cached) ==
    {x \in w : ~(x.peer = peer /\ x.fetch = part)} \cup {[peer |-> peer, fetch |-> part, cached |-> cached]}

\* Mutant: the blocks that were cached are not counted.
RequestedRange_LedgerPart(part, cached) ==
    [last |-> IF cached = <<>> THEN part.last ELSE cached[Len(cached)], num |-> part.num]

\* requested_block_range: what a peer must have asked for, recomputed from the part
\* fetched from the ledger and the headers kept for the peer.
RequestedRange(part, cached) ==
    [last |-> IF cached = <<>> THEN part.last ELSE cached[Len(cached)], num |-> part.num + Len(cached)]

\* What a peer is sent: the request it answers, and its headers if they were found.
Answer(peer, q, answer, headers) == [peer |-> peer, request |-> q, answer |-> answer, headers |-> headers]

\* The answer for a waiting peer: the ledger's part, then the cached headers.
AnswerTo(x, answer) ==
    LET part == x.fetch.range
    IN  IF x.fetch.kind = "payload" THEN Answer(x.peer, x.fetch, answer, <<>>)
        ELSE Answer(x.peer, Headers(RequestedRange(part, x.cached)), answer,
                    IF answer = "found" THEN Chain(part) \o x.cached ELSE <<>>)

-----------------------------------------------------------------------------
Init ==
    /\ sync = [mode |-> "StateSync", headers |-> [r \in Ranges |-> NoRequest], payloads |-> [b \in Bodies |-> NoRequest],
               in_flight |-> 0, completed |-> [r \in Ranges |-> NoRange], panicked |-> FALSE,
               fetches |-> {}, schedule |-> {}, reset |-> {}]
    /\ served = [waiting |-> {}, asked |-> {}, answers |-> {}]
    /\ fetch = [q \in Requests |-> 0]
    /\ armed = {} /\ expired = {}
    /\ cache = {}
    /\ asks = [self |-> 0, peer |-> 0]

\* The commands of a step are carried out; done is the ledger fetch that ends
\* with it, if any.
Step(t, done) ==
    /\ ~sync.panicked
    /\ sync' = Quiet(t)
    /\ fetch' = [q \in Requests |-> fetch[q] + (IF q \in t.fetches THEN 1 ELSE 0) - (IF q \in done THEN 1 ELSE 0)]
    /\ armed' = (armed \ t.reset) \cup t.schedule

\* Nothing is sent to peers in this step.
NoAnswer == served' = [served EXCEPT !.answers = {}]

\* KinetState asks for a range: while it syncs, then as live consensus.
HandleSelfRequest(requester, r) ==
    /\ asks.self < MaxAsks
    /\ requester = "StateSync" => sync.mode = "StateSync"
    /\ asks' = [asks EXCEPT !.self = @ + 1]
    /\ Step(SelfRequest(sync, requester, r), {})
    /\ NoAnswer
    /\ UNCHANGED <<expired, cache>>

\* Consensus gives up a range that it no longer needs.
HandleSelfCancel(r) ==
    /\ Step(SelfCancel(sync, "Consensus", r), {})
    /\ NoAnswer
    /\ UNCHANGED <<expired, cache, asks>>

\* handle_ledger_response: waiting peers are answered, then the node itself.
HandleLedgerResponse(q, answer, to) ==
    /\ fetch[q] > 0
    /\ IF q \in SelfRequests
       THEN \E t \in Respond(sync, q, None, answer, to) : Step(t, {q})
       ELSE Step(sync, {q})
    /\ LET ready == {x \in served.waiting : x.fetch = q}
       IN  served' = [served EXCEPT !.waiting = @ \ ready, !.answers = {AnswerTo(x, answer) : x \in ready}]
    /\ UNCHANGED <<expired, cache, asks>>

\* handle_peer_response; peers answer what they like, whenever they like.
HandlePeerResponse(peer, q, answer) ==
    /\ answer = "invalid" => q.kind = "headers"
    /\ \E t \in Respond(sync, q, peer, answer, None) : Step(t, {})
    /\ NoAnswer
    /\ UNCHANGED <<expired, cache, asks>>

\* The timer of q fires; its event is on its way.
TimerFires(q) ==
    /\ q \in armed
    /\ armed' = armed \ {q}
    /\ expired' = expired \cup {q}
    /\ NoAnswer
    /\ UNCHANGED <<sync, fetch, cache, asks>>

HandleTimeout(q, to) ==
    /\ q \in expired
    /\ expired' = expired \ {q}
    /\ Step(Timeout(sync, q, to), {})
    /\ NoAnswer
    /\ UNCHANGED <<cache, asks>>

\* handle_peer_request for headers, of which the node has those in cached: it
\* answers at once if that is all, and asks the ledger for the rest otherwise.
HandlePeerHeadersRequest(peer, r, cached) ==
    /\ asks.peer < MaxPeerAsks
    /\ asks' = [asks EXCEPT !.peer = @ + 1]
    /\ LET part == Headers(LedgerPart(r, cached))
           q == Headers(r)
       IN  IF Len(cached) = r.num
           THEN /\ Step(sync, {})
                /\ served' = [served EXCEPT !.answers = {Answer(peer, q, "found", cached)},
                                            !.asked = @ \cup {[peer |-> peer, request |-> q]}]
           ELSE /\ Step([sync EXCEPT !.fetches = {part}], {})
                /\ served' = [waiting |-> WaitFor(served.waiting, peer, part, cached), answers |-> {},
                              asked |-> served.asked \cup {[peer |-> peer, request |-> q]}]
    /\ UNCHANGED <<expired, cache>>

\* handle_peer_request for a payload.
HandlePeerPayloadRequest(peer, b) ==
    /\ asks.peer < MaxPeerAsks
    /\ asks' = [asks EXCEPT !.peer = @ + 1]
    /\ LET q == Payload(b)
       IN  IF Cached(sync, b)
           THEN /\ Step(sync, {})
                /\ served' = [served EXCEPT !.answers = {Answer(peer, q, "found", <<>>)},
                                            !.asked = @ \cup {[peer |-> peer, request |-> q]}]
           ELSE /\ Step([sync EXCEPT !.fetches = {q}], {})
                /\ served' = [waiting |-> WaitFor(served.waiting, peer, q, <<>>), answers |-> {},
                              asked |-> served.asked \cup {[peer |-> peer, request |-> q]}]
    /\ UNCHANGED <<expired, cache>>

\* The block tree or buffer gains or loses a payload.
CacheChanges(b) ==
    /\ cache' = IF b \in cache THEN cache \ {b} ELSE cache \cup {b}
    /\ NoAnswer
    /\ UNCHANGED <<sync, fetch, armed, expired, asks>>

Next ==
    \/ \E r \in Ranges :
         \/ \E requester \in Requesters : HandleSelfRequest(requester, r)
         \/ HandleSelfCancel(r)
         \/ \E peer \in Peers, cached \in CachedHeaders(r) : HandlePeerHeadersRequest(peer, r, cached)
    \/ \E q \in Requests, answer \in {"found", "not_available"}, to \in PickPeer : HandleLedgerResponse(q, answer, to)
    \/ \E q \in SelfRequests :
         \/ \E peer \in Peers, answer \in {"found", "not_available", "invalid"} : HandlePeerResponse(peer, q, answer)
         \/ TimerFires(q)
         \/ \E to \in PickPeer : HandleTimeout(q, to)
    \/ \E peer \in Peers, b \in Bodies : HandlePeerPayloadRequest(peer, b)
    \/ \E b \in Cacheable : CacheChanges(b)

Spec == Init /\ [][Next]_vars

-----------------------------------------------------------------------------
(* What must hold.                                                         *)

\* self_payload_requests_in_flight counts the initiated payload requests, never
\* exceeds its limit, and leaves no slot free while a payload waits.
InFlightExact ==
    /\ sync.in_flight = Cardinality(InFlight(sync))
    /\ sync.in_flight <= MaxInFlight
    /\ sync.in_flight < MaxInFlight => \A b \in Bodies : sync.payloads[b] # Queued

\* Every request belongs to the current mode, across switches and late answers
\* ("this will ALWAYS match BlockSync::self_request_mode"), so none of the
\* assertions on it fails.
ModeMatches ==
    /\ ~sync.panicked
    /\ \A r \in Ranges : sync.headers[r] # NoRequest => sync.headers[r].requester = sync.mode
    /\ \A r \in Ranges : sync.completed[r] # NoRange => sync.completed[r].requester = sync.mode
    /\ \A b \in InFlight(sync) : sync.payloads[b].requester = sync.mode

\* "If payload is None, the payload request is still in flight and should be in
\* self_payload_requests": every payload that a range misses is requested, also
\* after cancellations of ranges that share it.
MissingIsRequested ==
    \A r \in Ranges : sync.completed[r] # NoRange =>
        \A b \in Blocks(r) \ sync.completed[r].have : sync.payloads[b] # NoRequest

\* A request that is open is being looked up in the ledger or has a timer that
\* will bring it up again: no late or unexpected answer strands it.
NoRequestForgotten ==
    /\ \A r \in Ranges : sync.headers[r] # NoRequest => fetch[Headers(r)] > 0 \/ Headers(r) \in armed \cup expired
    /\ \A b \in InFlight(sync) : fetch[Payload(b)] > 0 \/ Payload(b) \in armed \cup expired

\* A peer is answered about a range or payload that it asked for, although only
\* the cached headers of its request are kept while the ledger is asked for the
\* rest, and the headers it gets are all of that range, in the order of the chain
\* (the assertion on requested_blocks).
AnswersWhatWasAsked ==
    \A a \in served.answers :
        /\ [peer |-> a.peer, request |-> a.request] \in served.asked
        /\ a.request.kind = "headers" /\ a.answer = "found" => a.headers = Chain(a.request.range)
=============================================================================
