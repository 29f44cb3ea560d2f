---------------------------- MODULE StateSyncClient ----------------------------
(***************************************************************************)
(* The client side of state sync (statesync-executor/src/client): a thread *)
(* that owns the database asks for the state of a target in pieces, one    *)
(* request per prefix; OutboundRequests sends a few at a time to trusted   *)
(* peers, sends them again after a timeout, puts the chunks of a response  *)
(* in order and hands them to the thread.  A prefix is bound to the first  *)
(* peer that answers for it.                                               *)
(*                                                                         *)
(* The thread and the executor talk over two channels and run at their own *)
(* pace.  Chunks are lost, repeated and reordered, come from a request     *)
(* that was given up, or after the target has moved; peers refuse a        *)
(* version, refuse to serve, or are silent, and new peers turn up.         *)
(***************************************************************************)
EXTENDS Integers, Sequences, FiniteSets, SequencesExt

CONSTANTS
    NumPrefixes,            \* pieces of the state
    Chunks,                 \* chunks of a response
    Peers,                  \* nodes that may become upstream peers
    InitPeers,              \* state_sync_init_peers
    Answering,              \* peers that keep answering, until they refuse
    Nonces,                 \* sessions of a peer are told apart by a nonce
    max_parallel_requests,
    MaxTarget,              \* bound: targets that KinetState sets
    MaxQueued               \* bound: nothing times out while so many messages wait for the thread

StatePrefixes == 1..NumPrefixes
SELF_STATESYNC_VERSION == 2
STATESYNC_VERSION_MIN == 2  \* STATESYNC_VERSION_1_2, as our own
Unset == 0
NoPeer == "none"
Requests == [prefix : StatePrefixes, target : 1..MaxTarget]

ASSUME StateSyncClientAssumption ==
    /\ {NumPrefixes, Chunks, max_parallel_requests, MaxTarget, MaxQueued} \subseteq Nat \ {0}
    /\ InitPeers \cup Answering \subseteq Peers
    /\ NoPeer \notin Peers

VARIABLES
    out,          \* OutboundRequests
    asked,        \* requests that were sent, which a peer may answer
    to_thread,    \* SyncResponse channel
    from_thread,  \* SyncRequest channel
    thread,       \* the thread's targets and the prefixes it has finished
    applied,      \* history: what the thread has applied for its target
    target,       \* StateSyncClient::current_target
    reported,     \* the last DoneSync that went to KinetState
    client_panicked

client_vars == <<out, asked, to_thread, from_thread, thread, applied, target, reported, client_panicked>>

UpdateTarget(t) == [kind |-> "UpdateTarget", target |-> t]
Response(peer, prefix, index) == [kind |-> "Response", peer |-> peer, prefix |-> prefix, index |-> index]
Request(r) == [kind |-> "Request", request |-> r]
DoneSyncRequest(t) == [kind |-> "DoneSync", target |-> t]

-----------------------------------------------------------------------------
(* OutboundRequests.                                                       *)

Trusted(o) == {p \in Peers : o.peers[p] # 0}

\* InFlightRequest::new
NewInFlight(o, peer) ==
    [peer |-> peer, version |-> o.peers[peer], response_index |-> 0, responses |-> {}, seen_nonces |-> {}]

\* choose_peer: the peer the prefix is bound to, or one of those that never
\* timed out, or the one that timed out the longest time ago.
ChoosePeer(o, prefix) ==
    LET fresh == Trusted(o) \ Range(o.timeouts)
    IN  IF o.prefix_peers[prefix] # NoPeer THEN {o.prefix_peers[prefix]}
        ELSE IF fresh # {} THEN fresh
        ELSE IF o.timeouts # <<>> THEN {Head(o.timeouts)}
        ELSE {}

Without(f, r) == [x \in DOMAIN f \ {r} |-> f[x]]
With(f, r, v) == [x \in DOMAIN f \cup {r} |-> IF x = r THEN v ELSE f[x]]

\* insert_request
InsertRequest(o, r, peer) == [o EXCEPT !.in_flight = With(@, r, NewInFlight(o, peer))]

\* The peer is no longer among the timed-out ones.
Forget(o, peer) == [o EXCEPT !.timeouts = SelectSeq(@, LAMBDA p : p # peer)]

\* Mutant: what was asked of a peer that refused is not asked again.
Requeue_Drops(o, R) == [o EXCEPT !.in_flight = [x \in DOMAIN @ \ R |-> @[x]]]

\* Requests go back from in flight to pending.
Requeue(o, R) == [o EXCEPT !.in_flight = [x \in DOMAIN @ \ R |-> @[x]], !.pending = @ \cup R]

\* peers.remove, pruned_peers.insert
PrunePeer(o, peer) == [Forget(o, peer) EXCEPT !.peers[peer] = 0, !.pruned = @ \cup {peer}]

\* handle_not_whitelisted
NotWhitelisted(o, peer) ==
    Requeue(PrunePeer(o, peer), {r \in DOMAIN o.in_flight : o.in_flight[r].peer = peer})

\* handle_bad_version: the peer speaks the versions from v.min to v.max.  It is
\* removed if none of them is ours, and asked in its newest otherwise, also when
\* that is newer than ours.
BadVersion(o, peer, v) ==
    Requeue(IF v.max < STATESYNC_VERSION_MIN \/ v.min > SELF_STATESYNC_VERSION THEN PrunePeer(o, peer)
            ELSE [Forget(o, peer) EXCEPT !.peers[peer] = v.max],
            {r \in DOMAIN o.in_flight : o.in_flight[r].peer = peer /\ o.in_flight[r].version > v.max})

\* What a peer may speak: older versions only, newer ones only, or ours too.
PeerVersions == {v \in [min : 1..3, max : 1..3] : v.min <= v.max}

\* expand_upstream_peers
ExpandUpstreamPeers(o, peer) ==
    IF peer \in Trusted(o) \cup o.pruned THEN o
    ELSE [o EXCEPT !.peers[peer] = SELF_STATESYNC_VERSION]

\* apply_response: the request after a chunk, and the chunks to hand over.  A
\* chunk of another session than those held is dropped, unless they are old
\* and it is the first of its session.
ApplyResponse(f, nonce, index, elapsed) ==
    LET other == \E x \in f.responses : x.nonce # nonce
        drop  == other /\ ~(elapsed /\ nonce \notin f.seen_nonces)
        held  == IF other THEN {} ELSE f.responses
        g     == [f EXCEPT !.seen_nonces = @ \cup {nonce}, !.responses = IF drop THEN @ ELSE held]
        run   == {i \in index..Chunks - 1 : index + 1 .. i \subseteq {x.index : x \in held}}
        next  == index + Cardinality(run)
    IN  IF drop \/ index < f.response_index THEN [request |-> g, chunks |-> <<>>]
        ELSE IF index > f.response_index
        THEN [request |-> [g EXCEPT !.responses = @ \cup {[index |-> index, nonce |-> nonce]}], chunks |-> <<>>]
        ELSE [request |-> [g EXCEPT !.response_index = next, !.responses = {x \in @ : x.index >= next}],
              chunks |-> [k \in 1..Cardinality(run) |-> index + k - 1]]

\* Mutant: any trusted peer's chunks are taken.
PeerMayAnswer_Any(o, peer, prefix) == peer \in Trusted(o)

\* handle_response accepts a peer's chunk for the prefix.
PeerMayAnswer(o, peer, prefix) ==
    peer \in Trusted(o) /\ o.prefix_peers[prefix] \in {NoPeer, peer}

-----------------------------------------------------------------------------
(* The executor's side.                                                    *)

ClientInit ==
    /\ out = [peers |-> [p \in Peers |-> IF p \in InitPeers THEN SELF_STATESYNC_VERSION ELSE 0],
              pruned |-> {}, timeouts |-> <<>>, pending |-> {}, in_flight |-> [r \in {} |-> 0],
              prefix_peers |-> [x \in StatePrefixes |-> NoPeer]]
    /\ asked = {}
    /\ to_thread = <<>> /\ from_thread = <<>>
    /\ thread = [current |-> Unset, next |-> Unset, finished |-> {}]
    /\ applied = [x \in StatePrefixes |-> {}]
    /\ target = Unset /\ reported = Unset
    /\ client_panicked = "no"

\* update_target; targets grow (SyncModes).
SetTarget ==
    /\ client_panicked = "no"
    /\ target < MaxTarget
    /\ target' = target + 1
    /\ to_thread' = Append(to_thread, UpdateTarget(target + 1))
    /\ UNCHANGED <<out, asked, from_thread, thread, applied, reported, client_panicked>>

\* poll_next takes a request from the thread: queue_request.
QueueRequest ==
    /\ client_panicked = "no"
    /\ from_thread # <<>> /\ Head(from_thread).kind = "Request"
    /\ LET r == Head(from_thread).request
       IN  /\ out' = [out EXCEPT !.pending = @ \cup {r}]
           /\ client_panicked' = IF \A x \in out.pending \cup DOMAIN out.in_flight : x.target = r.target
                                 THEN "no" ELSE "assertion"
    /\ from_thread' = Tail(from_thread)
    /\ UNCHANGED <<asked, to_thread, thread, applied, target, reported>>

\* clear_prefix_peers
ReleasePeers(o) == [o EXCEPT !.prefix_peers = [x \in StatePrefixes |-> NoPeer]]

\* poll_next takes DoneSync from the thread.
TakeDoneSync ==
    /\ client_panicked = "no"
    /\ from_thread # <<>> /\ Head(from_thread).kind = "DoneSync"
    /\ client_panicked' = IF out.pending = {} /\ DOMAIN out.in_flight = {} THEN "no" ELSE "assertion"
    /\ out' = ReleasePeers(out)
    /\ reported' = Head(from_thread).target
    /\ from_thread' = Tail(from_thread)
    /\ UNCHANGED <<asked, to_thread, thread, applied, target>>

\* Request r goes to the peer, unless the peer is bound to r's prefix and no
\* longer known: insert_request expects it to be.
SendTo(o, r, peer) ==
    IF peer \in Trusted(o)
    THEN /\ out' = InsertRequest(o, r, peer)
         /\ asked' = asked \cup {[peer |-> peer, request |-> r, version |-> o.peers[peer]]}
         /\ client_panicked' = "no"
    ELSE /\ client_panicked' = "peer not found"
         /\ UNCHANGED <<out, asked>>

CanSend == Cardinality(DOMAIN out.in_flight) < max_parallel_requests /\ out.pending # {}

\* OutboundRequests::poll sends a pending request.
SendRequest(r, peer) ==
    /\ client_panicked = "no" /\ from_thread = <<>>
    /\ CanSend /\ r \in out.pending
    /\ peer \in ChoosePeer(out, r.prefix)
    /\ SendTo([out EXCEPT !.pending = @ \ {r}], r, peer)
    /\ UNCHANGED <<to_thread, from_thread, thread, applied, target, reported>>

\* The request is given up, its peer is now the one that timed out last.
TimedOut(o, r) ==
    LET peer == o.in_flight[r].peer
        n == Forget(o, peer)
    IN  [n EXCEPT !.timeouts = IF peer \in Trusted(o) THEN Append(@, peer) ELSE @,
                  !.in_flight = Without(@, r)]

\* OutboundRequests::poll finds that request r timed out, and sends it again or
\* puts it back when there is no peer.
RetryRequest(r) ==
    /\ client_panicked = "no" /\ from_thread = <<>>
    /\ ~CanSend /\ r \in DOMAIN out.in_flight
    /\ Len(to_thread) < MaxQueued
    /\ LET o == TimedOut(out, r)
       IN  IF ChoosePeer(o, r.prefix) = {}
           THEN /\ out' = [o EXCEPT !.pending = @ \cup {r}]
                /\ UNCHANGED <<asked, client_panicked>>
           ELSE \E peer \in ChoosePeer(o, r.prefix) : SendTo(o, r, peer)
    /\ UNCHANGED <<to_thread, from_thread, thread, applied, target, reported>>

\* Mutant: only the first of the chunks handed over is looked at.
EndsResponse_First(chunks) == chunks # <<>> /\ Head(chunks) = Chunks - 1

\* The last chunk handed over says that the response is complete (response_n).
EndsResponse(chunks) == chunks # <<>> /\ Last(chunks) = Chunks - 1

\* handle_response: a chunk of any request the peer was ever sent.
HandleResponse(a, nonce, index, elapsed) ==
    /\ client_panicked = "no"
    /\ PeerMayAnswer(out, a.peer, a.request.prefix)
    /\ LET bound == [out EXCEPT !.prefix_peers[a.request.prefix] = a.peer]
           known == a.request \in DOMAIN out.in_flight /\ out.in_flight[a.request].version = a.version
           res == ApplyResponse(out.in_flight[a.request], nonce, index, elapsed)
       IN  IF known
           THEN /\ out' = [bound EXCEPT !.in_flight =
                                IF EndsResponse(res.chunks) THEN Without(@, a.request)
                                ELSE With(@, a.request, res.request)]
                /\ to_thread' = to_thread \o [k \in DOMAIN res.chunks |-> Response(a.peer, a.request.prefix, res.chunks[k])]
           ELSE /\ out' = bound
                /\ UNCHANGED to_thread
    /\ UNCHANGED <<asked, from_thread, thread, applied, target, reported, client_panicked>>

HandleNotWhitelisted(peer) ==
    /\ client_panicked = "no" /\ peer \in Trusted(out)
    /\ out' = NotWhitelisted(out, peer)
    /\ UNCHANGED <<asked, to_thread, from_thread, thread, applied, target, reported, client_panicked>>

\* A peer objects, and is removed; or it was asked in the version that is on record
\* for it and names an older one, or a newer one that it was not asked in before.
HandleBadVersion(peer, v) ==
    /\ client_panicked = "no" /\ peer \in Trusted(out)
    /\ LET tried == {a.version : a \in {x \in asked : x.peer = peer}}
       IN  \/ BadVersion(out, peer, v).peers[peer] = 0
           \/ out.peers[peer] \in tried /\ (v.max < out.peers[peer] \/ v.max \notin tried)
    /\ out' = BadVersion(out, peer, v)
    /\ UNCHANGED <<asked, to_thread, from_thread, thread, applied, target, reported, client_panicked>>

HandleExpandUpstreamPeers(peer) ==
    /\ client_panicked = "no"
    /\ out' = ExpandUpstreamPeers(out, peer)
    /\ UNCHANGED <<asked, to_thread, from_thread, thread, applied, target, reported, client_panicked>>

-----------------------------------------------------------------------------
(* The thread.                                                             *)

\* kinet_statesync_client_handle_target asks for every prefix.
AskForAll(t) == [i \in 1..NumPrefixes |-> Request([prefix |-> i, target |-> t])]

\* The thread has a new target, which becomes the current one or the next.
ThreadUpdateTarget ==
    /\ client_panicked = "no"
    /\ to_thread # <<>> /\ Head(to_thread).kind = "UpdateTarget"
    /\ LET t == Head(to_thread).target
       IN  IF thread.current = Unset
           THEN /\ thread' = [thread EXCEPT !.current = t, !.finished = {}]
                /\ applied' = [x \in StatePrefixes |-> {}]
                /\ from_thread' = from_thread \o AskForAll(t)
           ELSE /\ thread' = [thread EXCEPT !.next = t]
                /\ UNCHANGED <<applied, from_thread>>
    /\ to_thread' = Tail(to_thread)
    /\ UNCHANGED <<out, asked, target, reported, client_panicked>>

\* After the last chunk of the last prefix the target is reached: the next one
\* is taken up, or DoneSync is reported.
ThreadFinishes(t) ==
    IF t.finished # StatePrefixes
    THEN thread' = t /\ UNCHANGED from_thread
    ELSE /\ thread' = [current |-> t.next, next |-> Unset, finished |-> IF t.next = Unset THEN t.finished ELSE {}]
         /\ from_thread' = from_thread \o (IF t.next = Unset THEN <<DoneSyncRequest(t.current)>> ELSE AskForAll(t.next))

\* The thread applies a chunk; the last one of a response finishes its prefix.
ThreadApplies ==
    /\ client_panicked = "no"
    /\ to_thread # <<>> /\ Head(to_thread).kind = "Response"
    /\ LET m == Head(to_thread)
           t == [thread EXCEPT !.finished = IF m.index = Chunks - 1 THEN @ \cup {m.prefix} ELSE @]
           next == t.finished = StatePrefixes /\ t.next # Unset
       IN  /\ ThreadFinishes(t)
           /\ applied' = IF next THEN [x \in StatePrefixes |-> {}]
                         ELSE [applied EXCEPT ![m.prefix] = @ \cup {[peer |-> m.peer, index |-> m.index]}]
           /\ client_panicked' = IF thread.current = Unset THEN "assertion" ELSE "no"
    /\ to_thread' = Tail(to_thread)
    /\ UNCHANGED <<out, asked, target, reported>>

-----------------------------------------------------------------------------
ClientNext ==
    \/ SetTarget \/ QueueRequest \/ TakeDoneSync \/ ThreadUpdateTarget \/ ThreadApplies
    \/ \E r \in Requests : RetryRequest(r) \/ \E peer \in Peers : SendRequest(r, peer)
    \/ \E a \in asked, nonce \in Nonces, index \in 0..Chunks - 1, elapsed \in BOOLEAN :
         HandleResponse(a, nonce, index, elapsed)
    \/ \E peer \in Peers :
         \/ HandleNotWhitelisted(peer)
         \/ HandleExpandUpstreamPeers(peer)
         \/ \E v \in PeerVersions : HandleBadVersion(peer, v)

\* The request of a prefix waits for chunk index, and it comes.
NextChunk(prefix, index) ==
    \E a \in asked, nonce \in Nonces :
        /\ a.request.prefix = prefix /\ a.request \in DOMAIN out.in_flight /\ a.peer \in Answering
        /\ out.in_flight[a.request].peer = a.peer /\ out.in_flight[a.request].version = a.version
        /\ \A x \in out.in_flight[a.request].responses : x.nonce = nonce
        /\ out.in_flight[a.request].response_index = index
        /\ HandleResponse(a, nonce, index, FALSE)

\* The executor and the thread keep running, timeouts fire, and a peer that
\* answers gets each chunk through if it is asked often enough.
ClientFairness ==
    /\ WF_client_vars(QueueRequest) /\ WF_client_vars(TakeDoneSync)
    /\ WF_client_vars(ThreadUpdateTarget) /\ WF_client_vars(ThreadApplies)
    /\ WF_client_vars(\E r \in Requests, peer \in Peers : SendRequest(r, peer))
    /\ \A r \in Requests : WF_client_vars(RetryRequest(r))
    /\ \A prefix \in StatePrefixes, index \in 0..Chunks - 1 : SF_client_vars(NextChunk(prefix, index))

ClientSpec == ClientInit /\ [][ClientNext]_client_vars /\ ClientFairness

-----------------------------------------------------------------------------
(* What must hold.                                                         *)

\* The assertions of the client and its thread hold, whatever is late: a
\* request queued belongs to the target of those outstanding, nothing is
\* outstanding when DoneSync is taken, and no chunk reaches a thread that has
\* no target.
AssertionsHold == client_panicked # "assertion"

\* A prefix is finished with every chunk of it applied for the current target, all
\* from one peer: no chunk is skipped, and other peers' answers and the chunks of an
\* earlier target never fill in.  The chunks may be of two sessions of that peer:
\* apply_response compares a nonce only with those of the chunks it holds back.
FinishedIsComplete ==
    \A prefix \in thread.finished :
        \E peer \in Peers : applied[prefix] = [peer : {peer}, index : 0..Chunks - 1]

\* The last target set is reported, whichever peers time out, refuse or turn up.
\* The exceptions: no trusted peer keeps answering, a prefix is bound to a peer
\* that does not, or the client looks for a bound peer that it has removed.
SyncCompletes ==
    \A t \in 1..MaxTarget :
        target = t ~> \/ reported >= t \/ target > t
                      \/ Trusted(out) \cap Answering = {}
                      \/ \E prefix \in StatePrefixes : out.prefix_peers[prefix] \notin Answering \cup {NoPeer}
                      \/ client_panicked # "no"
=============================================================================
