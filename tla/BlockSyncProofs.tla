---------------------------- MODULE BlockSyncProofs ----------------------------
(***************************************************************************)
(* The block-sync component, proved for every set of ranges and peers and  *)
(* every limit of requests in flight: its bookkeeping is exact, and no     *)
(* request is forgotten, whatever answers and timer events come when.      *)
(*                                                                         *)
(* A handler is a function of the state; Good is what every intermediate   *)
(* state satisfies, Tracks what it owes to the requests that were open     *)
(* before the step.                                                        *)
(***************************************************************************)
EXTENDS BlockSync, FiniteSetTheorems, SequenceTheorems, TLAPS

\* An initiated request of mode m.
OpenRequest(m) == [requester : {m}, to : PickPeer]

\* A range in progress.
OpenRange(m) == [requester : {m}, have : SUBSET Bodies]

SyncState(m) ==
    [ mode      : {m},
      headers   : [Ranges -> {NoRequest} \cup OpenRequest(m)],
      payloads  : [Bodies -> {NoRequest, Queued} \cup OpenRequest(m)],
      in_flight : Nat,
      completed : [Ranges -> {NoRange} \cup OpenRange(m)],
      panicked  : {FALSE},
      fetches   : SUBSET Requests,
      schedule  : SUBSET SelfRequests,
      reset     : SUBSET SelfRequests ]

\* The payloads that are requested, initiated or not.
Wanted(s) == {b \in Bodies : s.payloads[b] # NoRequest}
Waiting(s) == {b \in Bodies : s.payloads[b] = Queued}

Counted(s) ==
    /\ IsFiniteSet(Wanted(s))
    /\ s.in_flight = Cardinality(InFlight(s))
    /\ s.in_flight <= MaxInFlight

MissingRequested(s) ==
    \A r \in Ranges : s.completed[r] # NoRange =>
        \A b \in Blocks(r) \ s.completed[r].have : s.payloads[b] # NoRequest

\* What holds in the middle of a handler.
Good(s, m) == m \in Requesters /\ s \in SyncState(m) /\ Counted(s) /\ MissingRequested(s)

\* And when it ends.
NoSlotFree(s) == s.in_flight < MaxInFlight => \A b \in Bodies : s.payloads[b] # Queued

\* A request that is open in t is looked up or timed by a command of the step, or
\* was open in s with the same addressee and keeps its timer; if a lookup ends with
\* the step (done), it is not the ledger that the request is addressed to.
Carried(x, y, q, t, done) ==
    \/ q \in t.schedule
    \/ q \in t.fetches /\ y.to = None
    \/ x = y /\ q \notin t.reset /\ (q \in done => y.to # None)

Tracks(s, t, done) ==
    /\ \A r \in Ranges : t.headers[r] # NoRequest => Carried(s.headers[r], t.headers[r], Headers(r), t, done)
    /\ \A b \in InFlight(t) : Carried(s.payloads[b], t.payloads[b], Payload(b), t, done)

-----------------------------------------------------------------------------
\* Requests of one kind are told apart by what they are for.
LEMMA RequestsDiffer ==
    /\ \A r \in Ranges : Headers(r) \in SelfRequests /\ Headers(r) \in Requests
    /\ \A b \in Bodies : Payload(b) \in SelfRequests /\ Payload(b) \in Requests
    /\ \A r, b : Headers(r) # Payload(b)
    /\ \A r, x : Headers(r) = Headers(x) => r = x
    /\ \A b, c : Payload(b) = Payload(c) => b = c
  <1>1. \A r, b : Headers(r) # Payload(b)
    <2> SUFFICES ASSUME NEW r, NEW b, Headers(r) = Payload(b) PROVE FALSE
      OBVIOUS
    <2>1. Headers(r).kind = "headers" /\ Payload(b).kind = "payload"
      BY DEF Headers, Payload
    <2> QED
      BY <2>1
  <1>2. \A r, x : Headers(r) = Headers(x) => r = x
    BY DEF Headers
  <1>3. \A b, c : Payload(b) = Payload(c) => b = c
    BY DEF Payload
  <1>4. \A r \in Ranges : Headers(r) \in SelfRequests /\ Headers(r) \in Requests
    BY DEF SelfRequests, Requests, FetchRanges
  <1>5. \A b \in Bodies : Payload(b) \in SelfRequests /\ Payload(b) \in Requests
    BY DEF SelfRequests, Requests
  <1> QED
    BY <1>1, <1>2, <1>3, <1>4, <1>5

\* The blocks of a range are finitely many and at least one.
LEMMA RangeBlocks ==
    ASSUME NEW r \in Ranges
    PROVE  IsFiniteSet(Blocks(r)) /\ Blocks(r) # {} /\ Blocks(r) \subseteq Bodies
  <1> DEFINE a == r.last - r.num + 1
  <1> DEFINE b == r.last
  <1>1. a \in Int /\ b \in Int /\ a <= b
    BY BlockSyncAssumption
  <1>2. Blocks(r) = a..b
    BY DEF Blocks
  <1> HIDE DEF a, b
  <1>3. IsFiniteSet(a..b) /\ b \in a..b
    BY <1>1, FS_Interval
  <1> QED
    BY <1>2, <1>3 DEF Bodies

\* An initiated request is neither absent nor queued.
LEMMA OpenIsInitiated ==
    ASSUME NEW m \in Requesters
    PROVE  /\ \A x \in OpenRequest(m) : x # NoRequest /\ x # Queued
           /\ \A to \in PickPeer : [requester |-> m, to |-> to] \in OpenRequest(m)
           /\ \A x \in OpenRequest(m), to \in PickPeer : [x EXCEPT !.to = to] = [requester |-> m, to |-> to]
           /\ NoRequest # Queued
           /\ None \in PickPeer
           /\ \A x \in OpenRange(m) : x # NoRange
           /\ \A h \in SUBSET Bodies : [requester |-> m, have |-> h] \in OpenRange(m)
           /\ NoRange.have = {}
  BY DEF OpenRequest, OpenRange, NoRequest, Queued, NoRange, Requesters, PickPeer, None

\* The initiated payload requests of a good state.
LEMMA InFlightIs ==
    ASSUME NEW m, NEW s, Good(s, m)
    PROVE  /\ InFlight(s) = {b \in Bodies : s.payloads[b] \in OpenRequest(m)}
           /\ InFlight(s) = Wanted(s) \ Waiting(s) /\ Waiting(s) \subseteq Wanted(s)
           /\ IsFiniteSet(Wanted(s)) /\ IsFiniteSet(InFlight(s)) /\ IsFiniteSet(Waiting(s))
  <1>1. \A b \in Bodies : s.payloads[b] \in {NoRequest, Queued} \cup OpenRequest(m)
    BY DEF Good, SyncState
  <1>2. InFlight(s) = {b \in Bodies : s.payloads[b] \in OpenRequest(m)}
    BY <1>1, OpenIsInitiated DEF InFlight, Initiated, Good
  <1>3. InFlight(s) = Wanted(s) \ Waiting(s) /\ Waiting(s) \subseteq Wanted(s)
    BY OpenIsInitiated DEF InFlight, Initiated, Wanted, Waiting, Good
  <1>4. IsFiniteSet(Wanted(s))
    BY DEF Good, Counted
  <1> QED
    BY <1>2, <1>3, <1>4, FS_Subset

-----------------------------------------------------------------------------
(* The steps handlers are made of.                                         *)

\* Ranges are dropped or gain payloads; requests stay as they are.
LEMMA RangesGood ==
    ASSUME NEW m, NEW s, Good(s, m), NEW C \in [Ranges -> {NoRange} \cup OpenRange(m)],
           \A r \in Ranges : C[r] # NoRange =>
               s.completed[r] # NoRange /\ s.completed[r].have \subseteq C[r].have
    PROVE  LET t == [s EXCEPT !.completed = C] IN
           /\ Good(t, m) /\ t.headers = s.headers /\ t.payloads = s.payloads
           /\ t.fetches = s.fetches /\ t.schedule = s.schedule /\ t.reset = s.reset
           /\ t.in_flight = s.in_flight /\ t.completed = C
  <1> DEFINE t == [s EXCEPT !.completed = C]
  <1>1. /\ t \in SyncState(m) /\ t.headers = s.headers /\ t.payloads = s.payloads
        /\ t.fetches = s.fetches /\ t.schedule = s.schedule /\ t.reset = s.reset
        /\ t.in_flight = s.in_flight /\ t.completed = C
    BY DEF Good, SyncState
  <1> HIDE DEF t
  <1>2. Counted(t)
    BY <1>1 DEF Good, Counted, Wanted, InFlight, Initiated
  <1>3. MissingRequested(t)
    BY <1>1 DEF Good, MissingRequested
  <1> QED
    BY <1>1, <1>2, <1>3 DEF Good, t

\* handle_completed_ranges
LEMMA EmitCompletedGood ==
    ASSUME NEW m, NEW s, Good(s, m)
    PROVE  LET t == EmitCompleted(s) IN
           /\ Good(t, m) /\ t.headers = s.headers /\ t.payloads = s.payloads
           /\ t.fetches = s.fetches /\ t.schedule = s.schedule /\ t.reset = s.reset
           /\ t.in_flight = s.in_flight
  <1> DEFINE C == [r \in Ranges |-> IF Blocks(r) \subseteq s.completed[r].have THEN NoRange ELSE s.completed[r]]
  <1>1. s \in SyncState(m)
    BY DEF Good
  <1>2. EmitCompleted(s) = [s EXCEPT !.completed = C]
    BY <1>1 DEF EmitCompleted, SyncState
  <1>3. C \in [Ranges -> {NoRange} \cup OpenRange(m)]
    BY <1>1 DEF SyncState
  <1>4. \A r \in Ranges : C[r] # NoRange => s.completed[r] # NoRange /\ s.completed[r].have \subseteq C[r].have
    OBVIOUS
  <1> HIDE DEF C
  <1> QED
    BY <1>2, <1>3, <1>4, RangesGood

\* Requests for the payloads in B end, and the payloads arrive at all ranges.
Without(s, B) == [b \in Bodies |-> IF b \in B THEN NoRequest ELSE s.payloads[b]]
EndPayloads(s, B, S, R) ==
    Fill([s EXCEPT !.payloads = Without(s, B),
                   !.in_flight = s.in_flight - Cardinality(B \cap InFlight(s)),
                   !.schedule = S,
                   !.reset = R], B)

\* The state after them is t.
Ended(t, m, s, B, S, R) ==
    /\ Good(t, m) /\ t.headers = s.headers /\ t.payloads = Without(s, B)
    /\ t.fetches = s.fetches /\ t.schedule = S /\ t.reset = R
    /\ InFlight(t) = InFlight(s) \ B

\* The requests that end leave their slots.
LEMMA EndPayloadsGood ==
    ASSUME NEW m, NEW s, Good(s, m), NEW B \in SUBSET Wanted(s),
           NEW S \in SUBSET SelfRequests, NEW R \in SUBSET SelfRequests
    PROVE  Ended(EndPayloads(s, B, S, R), m, s, B, S, R)
  <1> DEFINE P == Without(s, B)
  <1> DEFINE n == s.in_flight - Cardinality(B \cap InFlight(s))
  <1> DEFINE u == [s EXCEPT !.payloads = P, !.in_flight = n, !.schedule = S, !.reset = R]
  <1> DEFINE C == [r \in Ranges |->
                     IF s.completed[r] = NoRange THEN NoRange
                     ELSE Received(s.completed[r], Blocks(r) \cap B)]
  <1> DEFINE t == [u EXCEPT !.completed = C]
  <1>1. s \in SyncState(m) /\ m \in Requesters
    BY DEF Good
  <1>2. P \in [Bodies -> {NoRequest, Queued} \cup OpenRequest(m)]
    BY <1>1 DEF SyncState, Without
  <1>3. n \in Nat /\ n <= s.in_flight /\ n = Cardinality(InFlight(s) \ B)
    <2>1. IsFiniteSet(InFlight(s)) /\ s.in_flight = Cardinality(InFlight(s))
      BY InFlightIs DEF Good, Counted
    <2>2. B \cap InFlight(s) = InFlight(s) \cap B
      OBVIOUS
    <2>3. /\ IsFiniteSet(InFlight(s) \ B) /\ IsFiniteSet(InFlight(s) \cap B)
          /\ Cardinality(InFlight(s) \ B) = Cardinality(InFlight(s)) - Cardinality(InFlight(s) \cap B)
      BY <2>1, FS_Difference, FS_Intersection
    <2>4. Cardinality(InFlight(s) \ B) \in Nat /\ Cardinality(InFlight(s) \cap B) \in Nat /\ Cardinality(InFlight(s)) \in Nat
      BY <2>1, <2>3, FS_CardinalityType
    <2> QED
      BY <2>1, <2>2, <2>3, <2>4
  <1> HIDE DEF n
  <1>4. \A r \in Ranges : s.completed[r] \in {NoRange} \cup OpenRange(m)
    BY <1>1 DEF SyncState
  <1>5. ASSUME NEW r \in Ranges
        PROVE  /\ C[r] \in {NoRange} \cup OpenRange(m)
               /\ C[r] = NoRange <=> s.completed[r] = NoRange
               /\ C[r] # NoRange => C[r].have = s.completed[r].have \cup (Blocks(r) \cap B)
    <2>1. CASE s.completed[r] = NoRange
      BY <2>1
    <2>2. CASE s.completed[r] # NoRange
      <3>1. s.completed[r] \in OpenRange(m)
        BY <1>4, <2>2
      <3> DEFINE h == s.completed[r].have \cup (Blocks(r) \cap B)
      <3>2. h \in SUBSET Bodies
        BY <3>1, RangeBlocks DEF OpenRange
      <3>3. C[r] = [requester |-> m, have |-> h]
        BY <2>2, <3>1 DEF OpenRange, Received
      <3> HIDE DEF h
      <3>4. C[r] \in OpenRange(m) /\ C[r].have = h /\ C[r] # NoRange
        BY <1>1, <3>2, <3>3, OpenIsInitiated
      <3> QED
        BY <2>2, <3>4 DEF h
    <2> QED
      BY <2>1, <2>2
  <1>6. C \in [Ranges -> {NoRange} \cup OpenRange(m)]
    BY <1>5
  <1>7. /\ t \in SyncState(m) /\ t.headers = s.headers /\ t.payloads = P
        /\ t.fetches = s.fetches /\ t.schedule = S /\ t.reset = R
        /\ t.in_flight = n /\ t.completed = C
    <2> HIDE DEF P, C
    <2> QED BY <1>1, <1>2, <1>3, <1>6 DEF SyncState
  <1>8. Fill(u, B) = t
    <2>1. u.completed = s.completed
      <3> HIDE DEF P
      <3> QED BY <1>1 DEF SyncState
    <2> HIDE DEF u
    <2> QED
      BY <2>1 DEF Fill
  <1> HIDE DEF t, C
  <1>9. InFlight(t) = InFlight(s) \ B /\ Wanted(t) = Wanted(s) \ B
    <2>1. \A b \in Bodies : t.payloads[b] = IF b \in B THEN NoRequest ELSE s.payloads[b]
      BY <1>7 DEF Without
    <2> QED
      BY <2>1 DEF InFlight, Initiated, Wanted
  <1>10. Counted(t)
    <2>1. s.in_flight <= MaxInFlight /\ s.in_flight \in Nat /\ MaxInFlight \in Nat
      BY <1>1, BlockSyncAssumption DEF Good, Counted, SyncState
    <2>2. IsFiniteSet(Wanted(t))
      BY <1>9, FS_Difference DEF Good, Counted
    <2> QED
      BY <1>3, <1>7, <1>9, <2>1, <2>2 DEF Counted
  <1>11. MissingRequested(t)
    <2> SUFFICES ASSUME NEW r \in Ranges, C[r] # NoRange, NEW b \in Blocks(r), b \notin C[r].have
                 PROVE  P[b] # NoRequest
      BY <1>7 DEF MissingRequested
    <2>1. b \in Bodies /\ b \notin s.completed[r].have /\ b \notin B /\ s.completed[r] # NoRange
      BY <1>5, RangeBlocks
    <2>2. s.payloads[b] # NoRequest
      BY <2>1 DEF Good, MissingRequested
    <2> QED
      BY <2>1, <2>2 DEF Without
  <1>12. Good(t, m)
    BY <1>1, <1>7, <1>10, <1>11 DEF Good
  <1>13. EndPayloads(s, B, S, R) = t
    BY <1>8 DEF EndPayloads, n
  <1> QED
    BY <1>7, <1>9, <1>12, <1>13 DEF Ended

\* A step that leaves requests, commands and resets as they are keeps track of them.
LEMMA TracksSame ==
    ASSUME NEW s, NEW t, NEW u, NEW done, Tracks(s, t, done),
           u.headers = t.headers, u.payloads = t.payloads,
           u.fetches = t.fetches, u.schedule = t.schedule, u.reset = t.reset
    PROVE  Tracks(s, u, done)
  BY DEF Tracks, Carried, InFlight, Initiated

\* The first half of try_initiate_payload_requests_for_self.
LEMMA HydrateGood ==
    ASSUME NEW m, NEW s0, NEW s, Good(s, m), NEW done, Tracks(s0, s, done)
    PROVE  LET t == HydrateFromCache(s) IN Good(t, m) /\ Tracks(s0, t, done)
  <1> DEFINE B == {b \in Bodies : s.payloads[b] # NoRequest /\ Cached(s, b)}
  <1> DEFINE T == {Payload(b) : b \in {x \in B \cap InFlight(s) : s.payloads[x].to # None}}
  <1> DEFINE R == s.reset \cup T
  <1> DEFINE S == s.schedule \ T
  <1> DEFINE t == EndPayloads(s, B, S, R)
  <1>1. HydrateFromCache(s) = t
    BY DEF HydrateFromCache, EndPayloads, Without
  <1>2. B \in SUBSET Wanted(s)
    BY DEF Wanted
  <1>3. R \in SUBSET SelfRequests /\ S \in SUBSET SelfRequests
    BY RequestsDiffer DEF Good, SyncState
  <1>4. /\ \A q \in R : q \in s.reset \/ \E b \in B : q = Payload(b)
        /\ \A q \in s.schedule : q \in S \/ \E b \in B : q = Payload(b)
    OBVIOUS
  <1> HIDE DEF B, R, S, T
  <1>5. /\ Good(t, m) /\ t.headers = s.headers /\ t.payloads = Without(s, B)
        /\ t.fetches = s.fetches /\ t.schedule = S /\ t.reset = R
        /\ InFlight(t) = InFlight(s) \ B
    <2>1. Ended(t, m, s, B, S, R)
      BY <1>2, <1>3, EndPayloadsGood
    <2> HIDE DEF t
    <2> QED
      BY <2>1 DEF Ended
  <1> HIDE DEF t
  <1>6. ASSUME NEW r \in Ranges, t.headers[r] # NoRequest
        PROVE  Carried(s0.headers[r], t.headers[r], Headers(r), t, done)
    <2>1. Carried(s0.headers[r], s.headers[r], Headers(r), s, done)
      BY <1>5, <1>6 DEF Tracks
    <2>2. (Headers(r) \in R => Headers(r) \in s.reset) /\ (Headers(r) \in s.schedule => Headers(r) \in S)
      BY <1>4, RequestsDiffer
    <2> QED
      BY <1>5, <2>1, <2>2 DEF Carried
  <1>7. ASSUME NEW b \in InFlight(t)
        PROVE  Carried(s0.payloads[b], t.payloads[b], Payload(b), t, done)
    <2>1. b \in InFlight(s) /\ b \notin B /\ b \in Bodies
      BY <1>5 DEF InFlight
    <2>2. Carried(s0.payloads[b], s.payloads[b], Payload(b), s, done)
      BY <2>1 DEF Tracks
    <2>3. (Payload(b) \in R => Payload(b) \in s.reset) /\ (Payload(b) \in s.schedule => Payload(b) \in S)
      BY <1>4, <2>1, RequestsDiffer
    <2>4. t.payloads[b] = s.payloads[b]
      BY <1>5, <2>1 DEF Without
    <2> QED
      BY <1>5, <2>2, <2>3, <2>4 DEF Carried
  <1> QED
    BY <1>1, <1>5, <1>6, <1>7 DEF Tracks

\* The number of requests that are initiated.
LEMMA InitiationsCount ==
    ASSUME NEW m, NEW s, Good(s, m), NEW Q \in Initiations(s)
    PROVE  /\ Q \in SUBSET Waiting(s) /\ IsFiniteSet(Q) /\ Cardinality(Q) \in Nat
           /\ s.in_flight + Cardinality(Q) <= MaxInFlight
           /\ s.in_flight + Cardinality(Q) < MaxInFlight => Q = Waiting(s)
  <1> DEFINE w == Cardinality(Waiting(s))
  <1> DEFINE f == MaxInFlight - s.in_flight
  <1> DEFINE k == Min({w, f})
  <1>1. IsFiniteSet(Waiting(s)) /\ w \in Nat
    BY InFlightIs, FS_CardinalityType
  <1>2. s.in_flight \in Nat /\ MaxInFlight \in Nat /\ s.in_flight <= MaxInFlight
    BY BlockSyncAssumption DEF Good, SyncState, Counted
  <1>3. CASE s.in_flight >= MaxInFlight
    <2>1. Q = {}
      BY <1>3 DEF Initiations
    <2> QED
      BY <1>2, <1>3, <2>1, FS_EmptySet
  <1>4. CASE ~(s.in_flight >= MaxInFlight)
    <2>1. Q \in SUBSET Waiting(s) /\ Cardinality(Q) = k
      BY <1>4 DEF Initiations, kSubset, Waiting
    <2>2. k \in {w, f} /\ k <= w /\ k <= f
      <3> HIDE DEF w, f
      <3>1. f \in Nat
        BY <1>2, <1>4 DEF f
      <3>2. \E x \in {w, f} : \A y \in {w, f} : x <= y
        BY <1>1, <3>1
      <3>3. k \in {w, f} /\ \A y \in {w, f} : k <= y
        BY <3>2, Zenon DEF Min
      <3> QED
        BY <3>3
    <2>3. IsFiniteSet(Q) /\ Cardinality(Q) \in Nat /\ (Cardinality(Q) = w => Q = Waiting(s))
      BY <1>1, <2>1, FS_Subset, FS_CardinalityType
    <2> HIDE DEF k
    <2> QED
      BY <1>2, <2>1, <2>2, <2>3
  <1> QED
    BY <1>3, <1>4

\* The rest of try_initiate_payload_requests_for_self.
LEMMA TryInitiateGood ==
    ASSUME NEW m, NEW s0, NEW s, Good(s, m), NEW done, Tracks(s0, s, done), NEW Q \in Initiations(s)
    PROVE  LET t == TryInitiate(s, Q) IN Good(t, m) /\ Tracks(s0, t, done) /\ NoSlotFree(t)
  <1> DEFINE P == [b \in Bodies |-> IF b \in Q THEN ToRequest(s, None) ELSE s.payloads[b]]
  <1> DEFINE n == s.in_flight + Cardinality(Q)
  <1> DEFINE F == s.fetches \cup {Payload(b) : b \in Q}
  <1> DEFINE u == [s EXCEPT !.payloads = P, !.in_flight = n, !.fetches = F]
  <1> DEFINE t == EmitCompleted(u)
  <1>1. TryInitiate(s, Q) = t
    BY DEF TryInitiate
  <1>2. /\ Q \in SUBSET Waiting(s) /\ IsFiniteSet(Q) /\ Cardinality(Q) \in Nat
        /\ n <= MaxInFlight /\ (n < MaxInFlight => Q = Waiting(s))
    BY InitiationsCount
  <1>3. s \in SyncState(m) /\ m \in Requesters /\ Waiting(s) \subseteq Bodies
    BY DEF Good, Waiting
  <1>4. ToRequest(s, None) \in OpenRequest(m) /\ ToRequest(s, None).to = None
    BY <1>3, OpenIsInitiated DEF ToRequest, SyncState
  <1>5. P \in [Bodies -> {NoRequest, Queued} \cup OpenRequest(m)]
    <2>1. s.payloads \in [Bodies -> {NoRequest, Queued} \cup OpenRequest(m)]
      BY <1>3 DEF SyncState
    <2> QED
      BY <1>4, <2>1
  <1>6. F \in SUBSET Requests
    BY <1>2, <1>3, RequestsDiffer DEF SyncState
  <1>7. n \in Nat
    BY <1>2, <1>3 DEF SyncState
  <1>8. /\ u \in SyncState(m) /\ u.headers = s.headers /\ u.payloads = P /\ u.in_flight = n
        /\ u.fetches = F /\ u.schedule = s.schedule /\ u.reset = s.reset /\ u.completed = s.completed
    <2> HIDE DEF P, n, F
    <2> QED BY <1>3, <1>5, <1>6, <1>7 DEF SyncState
  <1> HIDE DEF u
  <1>9. /\ InFlight(u) = InFlight(s) \cup Q /\ InFlight(s) \cap Q = {}
        /\ Wanted(u) = Wanted(s) /\ Waiting(u) = Waiting(s) \ Q
    <2>1. \A b \in Bodies : u.payloads[b] = IF b \in Q THEN ToRequest(s, None) ELSE s.payloads[b]
      BY <1>8
    <2>2. ToRequest(s, None) # NoRequest /\ ToRequest(s, None) # Queued /\ NoRequest # Queued
      BY <1>3, <1>4, OpenIsInitiated
    <2> QED
      BY <1>2, <1>3, <2>1, <2>2 DEF InFlight, Initiated, Wanted, Waiting
  <1>10. Counted(u)
    <2>1. IsFiniteSet(InFlight(s)) /\ s.in_flight = Cardinality(InFlight(s))
      BY InFlightIs DEF Good, Counted
    <2>2. Cardinality(InFlight(s) \cup Q) = Cardinality(InFlight(s)) + Cardinality(Q) - Cardinality(InFlight(s) \cap Q)
      BY <1>2, <2>1, FS_Union
    <2>3. Cardinality({}) = 0 /\ Cardinality(InFlight(s)) \in Nat
      BY <2>1, FS_EmptySet, FS_CardinalityType
    <2>4. Cardinality(InFlight(u)) = n
      <3>1. Cardinality(InFlight(u)) = Cardinality(InFlight(s)) + Cardinality(Q) - 0
        BY <1>9, <2>2, <2>3, Zenon
      <3> QED
        BY <1>2, <2>1, <2>3, <3>1
    <2> QED
      BY <1>2, <1>8, <1>9, <2>4 DEF Good, Counted
  <1>11. MissingRequested(u)
    <2> SUFFICES ASSUME NEW r \in Ranges, s.completed[r] # NoRange, NEW b \in Blocks(r), b \notin s.completed[r].have
                 PROVE  u.payloads[b] # NoRequest
      BY <1>8 DEF MissingRequested
    <2>1. b \in Wanted(s)
      BY RangeBlocks DEF Good, MissingRequested, Wanted
    <2> QED
      BY <1>9, <2>1 DEF Wanted
  <1>12. Good(u, m)
    BY <1>3, <1>8, <1>10, <1>11 DEF Good
  <1>13. /\ Good(t, m) /\ t.headers = u.headers /\ t.payloads = u.payloads
         /\ t.fetches = u.fetches /\ t.schedule = u.schedule /\ t.reset = u.reset
         /\ t.in_flight = u.in_flight
    BY <1>12, EmitCompletedGood
  <1> HIDE DEF t
  <1>14. NoSlotFree(t)
    BY <1>2, <1>8, <1>9, <1>13 DEF NoSlotFree, Waiting
  <1>15. ASSUME NEW r \in Ranges, u.headers[r] # NoRequest
         PROVE  Carried(s0.headers[r], u.headers[r], Headers(r), u, done)
    <2>1. Carried(s0.headers[r], s.headers[r], Headers(r), s, done)
      BY <1>8, <1>15 DEF Tracks
    <2> QED
      BY <1>8, <2>1 DEF Carried
  <1>16. ASSUME NEW b \in InFlight(u)
         PROVE  Carried(s0.payloads[b], u.payloads[b], Payload(b), u, done)
    <2>1. b \in Bodies
      BY DEF InFlight
    <2>2. CASE b \in Q
      BY <1>4, <1>8, <2>1, <2>2 DEF Carried
    <2>3. CASE b \notin Q
      <3>1. Carried(s0.payloads[b], s.payloads[b], Payload(b), s, done)
        BY <1>9, <2>3 DEF Tracks
      <3>2. u.payloads[b] = s.payloads[b]
        BY <1>8, <2>1, <2>3
      <3> QED
        BY <1>8, <3>1, <3>2 DEF Carried
    <2> QED
      BY <2>2, <2>3
  <1>17. Tracks(s0, u, done)
    BY <1>15, <1>16 DEF Tracks
  <1>18. Tracks(s0, t, done)
    BY <1>13, <1>17, TracksSame
  <1> QED
    BY <1>1, <1>13, <1>14, <1>18

\* A request is not addressed to the ledger when a lookup of it ends.
NotAwaited(s, done) ==
    /\ \A r \in Ranges : s.headers[r] # NoRequest /\ Headers(r) \in done => s.headers[r].to # None
    /\ \A b \in InFlight(s) : Payload(b) \in done => s.payloads[b].to # None

\* Nothing happens.
LEMMA TracksSelf ==
    ASSUME NEW s, NEW done, s.reset = {}, NotAwaited(s, done)
    PROVE  Tracks(s, s, done)
  BY DEF Tracks, Carried, NotAwaited

\* Headers are asked of a peer.
LEMMA AskPeerHeaders ==
    ASSUME NEW m, NEW s, Good(s, m), s.reset = {}, NEW r \in Ranges, s.headers[r] # NoRequest,
           NEW to \in PickPeer, NEW done \in SUBSET {Headers(r)}
    PROVE  LET t == AskPeer(s, Headers(r), to) IN
           /\ Good(t, m) /\ Tracks(s, t, done) /\ t.in_flight = s.in_flight /\ t.payloads = s.payloads
  <1> DEFINE q == Headers(r)
  <1> DEFINE H == [s.headers EXCEPT ![r] = [s.headers[r] EXCEPT !.to = to]]
  <1> DEFINE t == [s EXCEPT !.schedule = s.schedule \cup {q}, !.headers = H]
  <1>1. s \in SyncState(m) /\ m \in Requesters /\ s.headers \in [Ranges -> {NoRequest} \cup OpenRequest(m)]
    BY DEF Good, SyncState
  <1>2. AskPeer(s, q, to) = t
    <2>1. q.kind = "headers" /\ q.range = r
      BY DEF Headers
    <2> HIDE DEF q
    <2> QED
      BY <1>1, <2>1 DEF AskPeer, SyncState
  <1>3. H \in [Ranges -> {NoRequest} \cup OpenRequest(m)] /\ \A x \in Ranges : x # r => H[x] = s.headers[x]
    <2> DEFINE x == s.headers[r]
    <2>1. x \in OpenRequest(m)
      BY <1>1
    <2> HIDE DEF x
    <2>2. [x EXCEPT !.to = to] \in OpenRequest(m)
      BY <2>1 DEF OpenRequest
    <2> QED
      BY <1>1, <2>2 DEF x
  <1>4. q \in SelfRequests
    BY RequestsDiffer
  <1> HIDE DEF q, H
  <1>5. /\ t \in SyncState(m) /\ t.headers = H /\ t.payloads = s.payloads
        /\ t.fetches = s.fetches /\ t.schedule = s.schedule \cup {q} /\ t.reset = s.reset
        /\ t.in_flight = s.in_flight /\ t.completed = s.completed
    BY <1>1, <1>3, <1>4 DEF SyncState
  <1> HIDE DEF t
  <1>6. Good(t, m)
    BY <1>5 DEF Good, Counted, MissingRequested, Wanted, InFlight, Initiated
  <1>7. \A x \in Ranges : t.headers[x] # NoRequest => Carried(s.headers[x], t.headers[x], Headers(x), t, done)
    BY <1>3, <1>5, RequestsDiffer DEF Carried, q
  <1>8. \A b \in InFlight(t) : Carried(s.payloads[b], t.payloads[b], Payload(b), t, done)
    BY <1>5, RequestsDiffer DEF Carried
  <1> QED
    BY <1>2, <1>5, <1>6, <1>7, <1>8 DEF Tracks, q

\* A payload is asked of a peer.
LEMMA AskPeerPayload ==
    ASSUME NEW m, NEW s, Good(s, m), s.reset = {}, NEW b \in InFlight(s),
           NEW to \in PickPeer, NEW done \in SUBSET {Payload(b)}
    PROVE  LET t == AskPeer(s, Payload(b), to) IN
           /\ Good(t, m) /\ Tracks(s, t, done) /\ (NoSlotFree(s) => NoSlotFree(t))
  <1> DEFINE q == Payload(b)
  <1> DEFINE P == [s.payloads EXCEPT ![b] = [s.payloads[b] EXCEPT !.to = to]]
  <1> DEFINE t == [s EXCEPT !.schedule = s.schedule \cup {q}, !.payloads = P]
  <1>1. s \in SyncState(m) /\ m \in Requesters /\ s.payloads \in [Bodies -> {NoRequest, Queued} \cup OpenRequest(m)]
    BY DEF Good, SyncState
  <1>2. AskPeer(s, q, to) = t
    <2>1. q.kind = "payload" /\ q.body = b
      BY DEF Payload
    <2> HIDE DEF q
    <2> QED
      BY <1>1, <2>1 DEF AskPeer, SyncState
  <1>3. b \in Bodies /\ s.payloads[b] \in OpenRequest(m)
    BY InFlightIs
  <1>4. /\ P \in [Bodies -> {NoRequest, Queued} \cup OpenRequest(m)] /\ P[b] \in OpenRequest(m)
        /\ \A x \in Bodies : x # b => P[x] = s.payloads[x]
    <2> DEFINE x == s.payloads[b]
    <2>1. x \in OpenRequest(m)
      BY <1>3
    <2> HIDE DEF x
    <2>2. [x EXCEPT !.to = to] \in OpenRequest(m)
      BY <2>1 DEF OpenRequest
    <2> QED
      BY <1>1, <1>3, <2>2 DEF x
  <1>5. q \in SelfRequests
    BY <1>3, RequestsDiffer
  <1> HIDE DEF q, P
  <1>6. /\ t \in SyncState(m) /\ t.headers = s.headers /\ t.payloads = P
        /\ t.fetches = s.fetches /\ t.schedule = s.schedule \cup {q} /\ t.reset = s.reset
        /\ t.in_flight = s.in_flight /\ t.completed = s.completed
    BY <1>1, <1>4, <1>5 DEF SyncState
  <1> HIDE DEF t
  <1>7. \A x \in Bodies : /\ P[x] = NoRequest <=> s.payloads[x] = NoRequest
                          /\ P[x] = Queued <=> s.payloads[x] = Queued
    BY <1>1, <1>3, <1>4, OpenIsInitiated
  <1>8. Wanted(t) = Wanted(s) /\ InFlight(t) = InFlight(s)
    BY <1>6, <1>7 DEF Wanted, InFlight, Initiated
  <1>9. MissingRequested(t)
    BY <1>6, <1>7, RangeBlocks DEF Good, MissingRequested
  <1>10. Good(t, m)
    BY <1>6, <1>8, <1>9 DEF Good, Counted
  <1>11. \A x \in Ranges : t.headers[x] # NoRequest => Carried(s.headers[x], t.headers[x], Headers(x), t, done)
    BY <1>6, RequestsDiffer DEF Carried
  <1>12. \A x \in InFlight(t) : Carried(s.payloads[x], t.payloads[x], Payload(x), t, done)
    <2> SUFFICES ASSUME NEW x \in InFlight(t) PROVE Carried(s.payloads[x], t.payloads[x], Payload(x), t, done)
      OBVIOUS
    <2>1. x \in Bodies
      BY DEF InFlight
    <2>2. CASE x = b
      BY <1>6, <2>2 DEF Carried, q
    <2>3. CASE x # b
      BY <1>4, <1>6, <2>1, <2>3, RequestsDiffer DEF Carried
    <2> QED
      BY <2>2, <2>3
  <1>13. NoSlotFree(s) => NoSlotFree(t)
    BY <1>6, <1>7 DEF NoSlotFree
  <1> QED
    BY <1>2, <1>10, <1>11, <1>12, <1>13 DEF Tracks, q

\* Valid headers arrive for a request that is open.
LEMMA HeadersFoundGood ==
    ASSUME NEW m, NEW s, Good(s, m), NEW r \in Ranges, s.headers[r] # NoRequest,
           NEW sender, NEW done \in SUBSET {Headers(r)}, s.reset = {}
    PROVE  LET t == HeadersFound(s, r, sender) IN Good(t, m) /\ Tracks(s, t, done)
  <1> DEFINE H == [s.headers EXCEPT ![r] = NoRequest]
  <1> DEFINE R == IF sender # None THEN {Headers(r)} ELSE {}
  <1> DEFINE P == [b \in Bodies |-> IF b \in Blocks(r) /\ s.payloads[b] = NoRequest THEN Queued ELSE s.payloads[b]]
  <1> DEFINE C == [s.completed EXCEPT ![r] = [requester |-> m, have |-> {}]]
  <1> DEFINE t == [s EXCEPT !.headers = H, !.reset = R, !.payloads = P, !.completed = C]
  <1>1. /\ s \in SyncState(m) /\ m \in Requesters /\ s.mode = m
        /\ s.headers \in [Ranges -> {NoRequest} \cup OpenRequest(m)]
        /\ s.payloads \in [Bodies -> {NoRequest, Queued} \cup OpenRequest(m)]
        /\ s.completed \in [Ranges -> {NoRange} \cup OpenRange(m)]
    BY DEF Good, SyncState
  <1>2. s.headers[r].requester = m
    BY <1>1 DEF OpenRequest
  <1>3. HeadersFound(s, r, sender) = t
    BY <1>1, <1>2 DEF HeadersFound, SyncState
  <1>4. H \in [Ranges -> {NoRequest} \cup OpenRequest(m)] /\ P \in [Bodies -> {NoRequest, Queued} \cup OpenRequest(m)]
    BY <1>1
  <1>5. C \in [Ranges -> {NoRange} \cup OpenRange(m)] /\ C[r].have = {} /\ \A x \in Ranges : x # r => C[x] = s.completed[x]
    <2>1. [requester |-> m, have |-> {}] \in OpenRange(m)
      BY <1>1, OpenIsInitiated
    <2> QED
      BY <1>1, <2>1
  <1>6. R \in SUBSET SelfRequests
    BY RequestsDiffer
  <1>7. H[r] = NoRequest /\ \A x \in Ranges : x # r => H[x] = s.headers[x]
    BY <1>1
  <1>8. \A b \in Bodies : /\ P[b] = NoRequest <=> s.payloads[b] = NoRequest /\ b \notin Blocks(r)
                          /\ s.payloads[b] # NoRequest => P[b] = s.payloads[b]
                          /\ P[b] \notin {NoRequest, Queued} <=> s.payloads[b] \notin {NoRequest, Queued}
    BY <1>1, OpenIsInitiated
  <1>9. \A q \in R : q = Headers(r)
    OBVIOUS
  <1> HIDE DEF H, R, P, C
  <1>10. /\ t \in SyncState(m) /\ t.headers = H /\ t.payloads = P
         /\ t.fetches = s.fetches /\ t.schedule = s.schedule /\ t.reset = R
         /\ t.in_flight = s.in_flight /\ t.completed = C
    BY <1>1, <1>4, <1>5, <1>6 DEF SyncState
  <1> HIDE DEF t
  <1>11. Wanted(t) = Wanted(s) \cup Blocks(r) /\ InFlight(t) = InFlight(s)
    BY <1>8, <1>10, RangeBlocks DEF Wanted, InFlight, Initiated
  <1>12. Counted(t)
    <2>1. IsFiniteSet(Wanted(s) \cup Blocks(r))
      BY RangeBlocks, FS_Union DEF Good, Counted
    <2> QED
      BY <1>10, <1>11, <2>1 DEF Good, Counted
  <1>13. MissingRequested(t)
    <2> SUFFICES ASSUME NEW x \in Ranges, C[x] # NoRange, NEW b \in Blocks(x), b \notin C[x].have
                 PROVE  P[b] # NoRequest
      BY <1>10 DEF MissingRequested
    <2>1. b \in Bodies
      BY RangeBlocks
    <2>2. CASE x = r
      BY <1>8, <2>1, <2>2
    <2>3. CASE x # r
      BY <1>5, <1>8, <2>1, <2>3 DEF Good, MissingRequested
    <2> QED
      BY <2>2, <2>3
  <1>14. Good(t, m)
    BY <1>1, <1>10, <1>12, <1>13 DEF Good
  <1>15. \A x \in Ranges : t.headers[x] # NoRequest => Carried(s.headers[x], t.headers[x], Headers(x), t, done)
    BY <1>7, <1>9, <1>10, RequestsDiffer DEF Carried
  <1>16. \A b \in InFlight(t) : Carried(s.payloads[b], t.payloads[b], Payload(b), t, done)
    <2> SUFFICES ASSUME NEW b \in InFlight(t) PROVE Carried(s.payloads[b], t.payloads[b], Payload(b), t, done)
      OBVIOUS
    <2>1. b \in Bodies /\ s.payloads[b] # NoRequest
      BY <1>11 DEF InFlight, Initiated
    <2>2. t.payloads[b] = s.payloads[b] /\ Payload(b) \notin R /\ Payload(b) \notin done
      BY <1>8, <1>9, <1>10, <2>1, RequestsDiffer
    <2> QED
      BY <1>10, <2>2 DEF Carried
  <1> QED
    BY <1>3, <1>14, <1>15, <1>16 DEF Tracks

\* A payload arrives for a request that is open.
LEMMA PayloadFoundGood ==
    ASSUME NEW m, NEW s, Good(s, m), NEW b \in InFlight(s),
           NEW sender, NEW done \in SUBSET {Payload(b)}, s.reset = {}
    PROVE  LET t == PayloadFound(s, b, sender) IN Good(t, m) /\ Tracks(s, t, done)
  <1> DEFINE R == IF sender # None THEN {Payload(b)} ELSE {}
  <1> DEFINE t == EndPayloads(s, {b}, s.schedule, R)
  <1>1. /\ s \in SyncState(m) /\ m \in Requesters /\ s.mode = m
        /\ s.payloads \in [Bodies -> {NoRequest, Queued} \cup OpenRequest(m)]
    BY DEF Good, SyncState
  <1>2. b \in Bodies /\ s.payloads[b] \in OpenRequest(m) /\ s.payloads[b].requester = m
    BY InFlightIs DEF OpenRequest
  <1>3. PayloadFound(s, b, sender) = t
    <2>1. [s.payloads EXCEPT ![b] = NoRequest] = Without(s, {b})
      BY <1>1, <1>2 DEF Without
    <2>2. {b} \cap InFlight(s) = {b} /\ Cardinality({b}) = 1
      BY FS_Singleton
    <2>3. PayloadFound(s, b, sender) =
            Fill([s EXCEPT !.payloads = [s.payloads EXCEPT ![b] = NoRequest],
                           !.in_flight = s.in_flight - 1, !.reset = R], {b})
      BY <1>1, <1>2 DEF PayloadFound
    <2> HIDE DEF R
    <2> DEFINE P == Without(s, {b})
    <2> DEFINE n == s.in_flight - 1
    <2> HIDE DEF P, n
    <2>4. [s EXCEPT !.payloads = P, !.in_flight = n, !.reset = R]
            = [s EXCEPT !.payloads = P, !.in_flight = n, !.schedule = s.schedule, !.reset = R]
      BY <1>1 DEF SyncState
    <2> QED
      BY <2>1, <2>2, <2>3, <2>4 DEF EndPayloads, P, n
  <1>4. {b} \in SUBSET Wanted(s) /\ R \in SUBSET SelfRequests /\ s.schedule \in SUBSET SelfRequests
    BY <1>1, <1>2, RequestsDiffer, OpenIsInitiated DEF Wanted, SyncState
  <1>5. \A q \in R : q = Payload(b)
    OBVIOUS
  <1> HIDE DEF R
  <1>6. /\ Good(t, m) /\ t.headers = s.headers /\ t.payloads = Without(s, {b})
        /\ t.fetches = s.fetches /\ t.schedule = s.schedule /\ t.reset = R
        /\ InFlight(t) = InFlight(s) \ {b}
    <2> DEFINE B == {b}
    <2>1. B \in SUBSET Wanted(s)
      BY <1>4
    <2> HIDE DEF B
    <2>2. PICK S : S = s.schedule
      OBVIOUS
    <2>3. PICK u : u = EndPayloads(s, B, S, R)
      OBVIOUS
    <2>4. Ended(u, m, s, B, S, R)
      BY <1>4, <2>1, <2>2, <2>3, EndPayloadsGood
    <2> QED
      BY <2>2, <2>3, <2>4 DEF B, Ended
  <1> HIDE DEF t
  <1>7. \A x \in Ranges : t.headers[x] # NoRequest => Carried(s.headers[x], t.headers[x], Headers(x), t, done)
    BY <1>5, <1>6, RequestsDiffer DEF Carried
  <1>8. \A x \in InFlight(t) : Carried(s.payloads[x], t.payloads[x], Payload(x), t, done)
    <2> SUFFICES ASSUME NEW x \in InFlight(t) PROVE Carried(s.payloads[x], t.payloads[x], Payload(x), t, done)
      OBVIOUS
    <2>1. x \in Bodies /\ x # b
      BY <1>6 DEF InFlight
    <2>2. t.payloads[x] = s.payloads[x] /\ Payload(x) \notin R /\ Payload(x) \notin done
      BY <1>5, <1>6, <2>1, RequestsDiffer DEF Without
    <2> QED
      BY <1>6, <2>2 DEF Carried
  <1> QED
    BY <1>3, <1>6, <1>7, <1>8 DEF Tracks

\* An answer that a handler can be given: a lookup ends with an answer of the ledger,
\* and the ledger gives no invalid answers.
Answered(q, sender, answer, done) ==
    /\ done \in SUBSET {q}
    /\ done # {} => sender = None
    /\ answer \in {"found", "not_available", "invalid"}
    /\ sender = None => answer # "invalid"

\* handle_headers_response_for_self, for a request that is open.
LEMMA HeadersResponseGood ==
    ASSUME NEW m, NEW s, Good(s, m), s.reset = {}, NEW r \in Ranges, s.headers[r] # NoRequest,
           NEW sender, NEW answer, NEW done, Answered(Headers(r), sender, answer, done), NEW to \in PickPeer
    PROVE  LET t == HeadersResponse(s, r, sender, answer, to) IN Good(t, m) /\ Tracks(s, t, done)
  <1>1. done \in SUBSET {Headers(r)}
    BY DEF Answered
  <1>2. CASE answer = "found"
    <2>1. HeadersResponse(s, r, sender, answer, to) = HeadersFound(s, r, sender)
      BY <1>2 DEF HeadersResponse
    <2> QED
      BY <1>1, <2>1, HeadersFoundGood
  <1>3. CASE answer = "not_available" /\ sender = None /\ s.headers[r].to = None
    <2>1. HeadersResponse(s, r, sender, answer, to) = AskPeer(s, Headers(r), to)
      BY <1>3 DEF HeadersResponse
    <2> QED
      BY <1>1, <2>1, AskPeerHeaders
  <1>4. CASE answer # "found" /\ ~(answer = "not_available" /\ sender = None /\ s.headers[r].to = None)
    <2>1. HeadersResponse(s, r, sender, answer, to) = s
      BY <1>4 DEF HeadersResponse, Answered
    <2>2. done # {} => s.headers[r].to # None
      BY <1>4 DEF Answered
    <2>3. NotAwaited(s, done)
      BY <1>1, <2>2, RequestsDiffer DEF NotAwaited
    <2> QED
      BY <2>1, <2>3, TracksSelf
  <1> QED
    BY <1>2, <1>3, <1>4

\* handle_payload_response_for_self, for a request that is open.
LEMMA PayloadResponseGood ==
    ASSUME NEW m, NEW s, Good(s, m), s.reset = {}, NEW b \in InFlight(s),
           NEW sender, NEW answer, NEW done, Answered(Payload(b), sender, answer, done), NEW to \in PickPeer
    PROVE  LET t == PayloadResponse(s, b, sender, answer, to) IN Good(t, m) /\ Tracks(s, t, done)
  <1> DEFINE u == IF answer = "found" THEN PayloadFound(s, b, sender)
                  ELSE IF sender = None /\ s.payloads[b].to = None THEN AskPeer(s, Payload(b), to)
                  ELSE s
  <1>1. done \in SUBSET {Payload(b)}
    BY DEF Answered
  <1>2. Good(u, m) /\ Tracks(s, u, done)
    <2>1. CASE answer = "found"
      BY <1>1, <2>1, PayloadFoundGood
    <2>2. CASE answer # "found" /\ sender = None /\ s.payloads[b].to = None
      BY <1>1, <2>2, AskPeerPayload
    <2>3. CASE answer # "found" /\ ~(sender = None /\ s.payloads[b].to = None)
      <3>1. done # {} => s.payloads[b].to # None
        BY <2>3 DEF Answered
      <3>2. NotAwaited(s, done)
        BY <1>1, <3>1, RequestsDiffer DEF NotAwaited
      <3> QED
        BY <2>3, <3>2, TracksSelf
    <2> QED
      BY <2>1, <2>2, <2>3
  <1>3. PayloadResponse(s, b, sender, answer, to) = EmitCompleted(u)
    BY DEF PayloadResponse
  <1> HIDE DEF u
  <1> DEFINE t == EmitCompleted(u)
  <1>4. /\ Good(t, m) /\ t.headers = u.headers /\ t.payloads = u.payloads
        /\ t.fetches = u.fetches /\ t.schedule = u.schedule /\ t.reset = u.reset
    BY <1>2, EmitCompletedGood
  <1> HIDE DEF t
  <1>5. Tracks(s, t, done)
    BY <1>2, <1>4, TracksSame
  <1> QED
    BY <1>3, <1>4, <1>5 DEF t

\* A response, from its first lookup to the requests that it initiates.
LEMMA RespondGood ==
    ASSUME NEW m, NEW s, Good(s, m), NoSlotFree(s), s.reset = {}, NEW q \in SelfRequests,
           NEW sender, NEW answer, NEW done, Answered(q, sender, answer, done), NEW to \in PickPeer,
           NEW t \in Respond(s, q, sender, answer, to)
    PROVE  Good(t, m) /\ NoSlotFree(t) /\ Tracks(s, t, done)
  <1> DEFINE known == IF q.kind = "headers" THEN s.headers[q.range] # NoRequest ELSE Initiated(s, q.body)
  <1> DEFINE u == IF q.kind = "headers" THEN HeadersResponse(s, q.range, sender, answer, to)
                  ELSE PayloadResponse(s, q.body, sender, answer, to)
  <1>1. \/ \E r \in Ranges : q = Headers(r)
        \/ \E b \in Bodies : q = Payload(b)
    BY DEF SelfRequests
  <1>2. CASE known
    <2>1. Good(u, m) /\ Tracks(s, u, done)
      <3>1. ASSUME NEW r \in Ranges, q = Headers(r) PROVE Good(u, m) /\ Tracks(s, u, done)
        <4>1. q.kind = "headers" /\ q.range = r
          BY <3>1 DEF Headers
        <4>2. u = HeadersResponse(s, r, sender, answer, to) /\ s.headers[r] # NoRequest
          BY <1>2, <4>1
        <4>3. Answered(Headers(r), sender, answer, done)
          BY <3>1
        <4> QED
          BY <4>2, <4>3, HeadersResponseGood
      <3>2. ASSUME NEW b \in Bodies, q = Payload(b) PROVE Good(u, m) /\ Tracks(s, u, done)
        <4>1. q.kind = "payload" /\ q.body = b
          BY <3>2 DEF Payload
        <4>2. u = PayloadResponse(s, b, sender, answer, to) /\ b \in InFlight(s)
          BY <1>2, <4>1 DEF InFlight
        <4>3. Answered(Payload(b), sender, answer, done)
          BY <3>2
        <4> QED
          BY <4>2, <4>3, PayloadResponseGood
      <3> QED
        BY <1>1, <3>1, <3>2
    <2> DEFINE v == HydrateFromCache(u)
    <2>2. \E Q \in Initiations(v) : t = TryInitiate(v, Q)
      BY <1>2 DEF Respond
    <2> HIDE DEF u
    <2>3. Good(v, m) /\ Tracks(s, v, done)
      BY <2>1, HydrateGood
    <2> HIDE DEF v
    <2>4. PICK Q \in Initiations(v) : t = TryInitiate(v, Q)
      BY <2>2
    <2> QED
      BY <2>3, <2>4, TryInitiateGood
  <1>3. CASE ~known
    <2>1. t = s
      BY <1>3 DEF Respond
    <2>2. NotAwaited(s, done)
      <3>1. ASSUME NEW r \in Ranges, s.headers[r] # NoRequest, Headers(r) \in done PROVE FALSE
        <4>1. q = Headers(r)
          BY <3>1 DEF Answered
        <4>2. q.kind = "headers" /\ q.range = r
          BY <4>1 DEF Headers
        <4> QED
          BY <1>3, <3>1, <4>2
      <3>2. ASSUME NEW b \in InFlight(s), Payload(b) \in done PROVE FALSE
        <4>1. q = Payload(b)
          BY <3>2 DEF Answered
        <4>2. q.kind = "payload" /\ q.body = b
          BY <4>1 DEF Payload
        <4> QED
          BY <1>3, <3>2, <4>2 DEF InFlight
      <3> QED
        BY <3>1, <3>2 DEF NotAwaited
    <2> QED
      BY <2>1, <2>2, TracksSelf
  <1> QED
    BY <1>2, <1>3

\* handle_timeout: an open request is asked again and has a timer again.
LEMMA TimeoutGood ==
    ASSUME NEW m, NEW s, Good(s, m), NoSlotFree(s), s.reset = {}, NEW q \in SelfRequests, NEW to \in PickPeer
    PROVE  LET t == Timeout(s, q, to) IN
           /\ Good(t, m) /\ NoSlotFree(t) /\ Tracks(s, t, {})
           /\ \A r \in Ranges : t.headers[r] # NoRequest /\ Headers(r) = q => q \in t.schedule
           /\ \A b \in InFlight(t) : Payload(b) = q => q \in t.schedule
  <1> DEFINE t == Timeout(s, q, to)
  <1>1. s \in SyncState(m)
    BY DEF Good
  <1>2. NotAwaited(s, {})
    BY DEF NotAwaited
  <1>3. ASSUME NEW r \in Ranges, q = Headers(r)
        PROVE  /\ Good(t, m) /\ NoSlotFree(t) /\ Tracks(s, t, {})
               /\ t.headers[r] # NoRequest => q \in t.schedule
    <2>1. q.kind = "headers" /\ q.range = r
      BY <1>3 DEF Headers
    <2>2. CASE s.headers[r] # NoRequest
      <3> DEFINE u == AskPeer(s, Headers(r), to)
      <3>1. t = u
        BY <1>3, <2>1, <2>2 DEF Timeout
      <3>2. q \in u.schedule
        BY <1>1, <1>3, <2>1 DEF AskPeer, SyncState
      <3>3. Good(u, m) /\ Tracks(s, u, {}) /\ u.in_flight = s.in_flight /\ u.payloads = s.payloads
        BY <2>2, AskPeerHeaders
      <3> HIDE DEF u, t
      <3>4. NoSlotFree(u)
        BY <3>3 DEF NoSlotFree
      <3> QED
        BY <3>1, <3>2, <3>3, <3>4
    <2>3. CASE s.headers[r] = NoRequest
      <3>1. t = s
        BY <2>1, <2>3 DEF Timeout
      <3> HIDE DEF t
      <3> QED
        BY <1>2, <2>3, <3>1, TracksSelf
    <2> QED
      BY <2>2, <2>3
  <1>4. ASSUME NEW b \in Bodies, q = Payload(b)
        PROVE  /\ Good(t, m) /\ NoSlotFree(t) /\ Tracks(s, t, {})
               /\ b \in InFlight(t) => q \in t.schedule
    <2>1. q.kind = "payload" /\ q.body = b
      BY <1>4 DEF Payload
    <2>2. CASE b \in InFlight(s)
      <3> DEFINE u == AskPeer(s, Payload(b), to)
      <3>1. t = u
        BY <1>4, <2>1, <2>2 DEF Timeout, InFlight
      <3>2. q \in u.schedule
        BY <1>1, <1>4, <2>1 DEF AskPeer, SyncState
      <3>3. Good(u, m) /\ Tracks(s, u, {}) /\ NoSlotFree(u)
        BY <2>2, AskPeerPayload
      <3> HIDE DEF u, t
      <3> QED
        BY <3>1, <3>2, <3>3
    <2>3. CASE b \notin InFlight(s)
      <3>1. t = s
        BY <2>1, <2>3 DEF Timeout, InFlight
      <3> HIDE DEF t
      <3> QED
        BY <1>2, <2>3, <3>1, TracksSelf
    <2> QED
      BY <2>2, <2>3
  <1> HIDE DEF t
  <1>5. \A b \in InFlight(t) : b \in Bodies
    BY DEF InFlight
  <1>6. \/ \E r \in Ranges : q = Headers(r)
        \/ \E b \in Bodies : q = Payload(b)
    BY DEF SelfRequests
  <1> QED
    BY <1>3, <1>4, <1>5, <1>6, RequestsDiffer DEF t

\* A range is asked for whose headers are not requested yet.
OpenHeaders(s, r) == [s EXCEPT !.headers[r] = ToRequest(s, None), !.fetches = {Headers(r)}]

\* The new request is to the own ledger, where it is looked up.
LEMMA OpenHeadersGood ==
    ASSUME NEW m, NEW s, Good(s, m), NEW r \in Ranges
    PROVE  LET t == OpenHeaders(s, r) IN
           /\ Good(t, m) /\ t.in_flight = s.in_flight /\ t.payloads = s.payloads /\ t.reset = s.reset
           /\ t.headers[r].to = None /\ Headers(r) \in t.fetches
           /\ \A x \in Ranges : x # r => t.headers[x] = s.headers[x]
  <1> DEFINE H == [s.headers EXCEPT ![r] = ToRequest(s, None)]
  <1> DEFINE F == {Headers(r)}
  <1> DEFINE t == [s EXCEPT !.headers = H, !.fetches = F]
  <1>1. /\ s \in SyncState(m) /\ m \in Requesters /\ s.headers \in [Ranges -> {NoRequest} \cup OpenRequest(m)]
    BY DEF Good, SyncState
  <1>2. ToRequest(s, None) \in OpenRequest(m) /\ ToRequest(s, None).to = None
    BY <1>1, OpenIsInitiated DEF ToRequest, SyncState
  <1>3. /\ H \in [Ranges -> {NoRequest} \cup OpenRequest(m)] /\ H[r].to = None
        /\ \A x \in Ranges : x # r => H[x] = s.headers[x]
    BY <1>1, <1>2
  <1>4. F \in SUBSET Requests /\ Headers(r) \in F
    BY RequestsDiffer
  <1> HIDE DEF H, F
  <1>5. /\ t \in SyncState(m) /\ t.headers = H /\ t.payloads = s.payloads
        /\ t.fetches = F /\ t.schedule = s.schedule /\ t.reset = s.reset
        /\ t.in_flight = s.in_flight /\ t.completed = s.completed
    BY <1>1, <1>3, <1>4 DEF SyncState
  <1> HIDE DEF t
  <1>6. Good(t, m)
    BY <1>5 DEF Good, Counted, MissingRequested, Wanted, InFlight, Initiated
  <1> QED
    BY <1>3, <1>4, <1>5, <1>6 DEF t, H, F, OpenHeaders

\* clear_self_requests, and the switch to mode n.
LEMMA ClearGood ==
    ASSUME NEW m, NEW s, Good(s, m), NEW n \in Requesters
    PROVE  LET t == [Clear(s) EXCEPT !.mode = n] IN
           /\ Good(t, n) /\ t.reset = s.reset
           /\ \A r \in Ranges : t.headers[r] = NoRequest
           /\ \A b \in Bodies : t.payloads[b] = NoRequest
  <1> DEFINE H == [r \in Ranges |-> NoRequest]
  <1> DEFINE P == [b \in Bodies |-> NoRequest]
  <1> DEFINE C == [r \in Ranges |-> NoRange]
  <1> DEFINE t == [Clear(s) EXCEPT !.mode = n]
  <1>1. s \in SyncState(m)
    BY DEF Good
  <1>2. /\ H \in [Ranges -> {NoRequest} \cup OpenRequest(n)] /\ \A r \in Ranges : H[r] = NoRequest
        /\ P \in [Bodies -> {NoRequest, Queued} \cup OpenRequest(n)] /\ \A b \in Bodies : P[b] = NoRequest
        /\ C \in [Ranges -> {NoRange} \cup OpenRange(n)] /\ \A r \in Ranges : C[r] = NoRange
    OBVIOUS
  <1>3. t = [s EXCEPT !.headers = H, !.payloads = P, !.in_flight = 0, !.completed = C, !.mode = n]
    BY <1>1 DEF Clear, SyncState
  <1> HIDE DEF H, P, C, t
  <1>4. /\ t \in SyncState(n) /\ t.headers = H /\ t.payloads = P /\ t.in_flight = 0 /\ t.completed = C
        /\ t.reset = s.reset
    BY <1>1, <1>2, <1>3 DEF SyncState
  <1>5. Wanted(t) = {} /\ InFlight(t) = {}
    BY <1>2, <1>4 DEF Wanted, InFlight, Initiated
  <1>6. Counted(t)
    <2>1. MaxInFlight \in Nat /\ IsFiniteSet({}) /\ Cardinality({}) = 0
      BY FS_EmptySet, BlockSyncAssumption
    <2> QED
      BY <1>4, <1>5, <2>1 DEF Counted
  <1>7. MissingRequested(t)
    BY <1>2, <1>4 DEF MissingRequested
  <1> QED
    BY <1>2, <1>4, <1>6, <1>7 DEF Good, t

\* handle_self_request
LEMMA SelfRequestGood ==
    ASSUME NEW m, NEW s, Good(s, m), NoSlotFree(s), s.reset = {}, NEW n \in Requesters, NEW r \in Ranges
    PROVE  LET t == SelfRequest(s, n, r) IN Good(t, n) /\ NoSlotFree(t) /\ Tracks(s, t, {})
  <1> DEFINE u == IF n # s.mode THEN [Clear(s) EXCEPT !.mode = n] ELSE s
  <1> DEFINE v == OpenHeaders(u, r)
  <1>1. s.mode = m
    BY DEF Good, SyncState
  <1>2. /\ Good(u, n) /\ NoSlotFree(u) /\ u.reset = {}
        /\ \A x \in Ranges : u.headers[x] # NoRequest => u.headers[x] = s.headers[x]
        /\ \A b \in InFlight(u) : u.payloads[b] = s.payloads[b]
    <2>1. CASE n # s.mode
      <3> DEFINE w == [Clear(s) EXCEPT !.mode = n]
      <3>1. /\ Good(w, n) /\ w.reset = s.reset
            /\ \A x \in Ranges : w.headers[x] = NoRequest
            /\ \A b \in Bodies : w.payloads[b] = NoRequest
        BY ClearGood
      <3>2. u = w
        BY <2>1
      <3> HIDE DEF u, w
      <3>3. NoRequest # Queued
        BY DEF NoRequest, Queued
      <3> QED
        BY <3>1, <3>2, <3>3 DEF NoSlotFree, InFlight, Initiated
    <2>2. CASE n = s.mode
      BY <1>1, <2>2
    <2> QED
      BY <2>1, <2>2
  <1>3. SelfRequest(s, n, r) = u \/ SelfRequest(s, n, r) = v
    BY DEF SelfRequest, OpenHeaders
  <1> HIDE DEF u
  <1>4. Tracks(s, u, {})
    BY <1>2 DEF Tracks, Carried
  <1>5. /\ Good(v, n) /\ v.in_flight = u.in_flight /\ v.payloads = u.payloads /\ v.reset = u.reset
        /\ v.headers[r].to = None /\ Headers(r) \in v.fetches
        /\ \A x \in Ranges : x # r => v.headers[x] = u.headers[x]
    BY <1>2, OpenHeadersGood
  <1> HIDE DEF v
  <1>6. NoSlotFree(v)
    BY <1>2, <1>5 DEF NoSlotFree
  <1>7. \A x \in Ranges : v.headers[x] # NoRequest => Carried(s.headers[x], v.headers[x], Headers(x), v, {})
    BY <1>2, <1>5 DEF Carried
  <1>8. \A b \in InFlight(v) : Carried(s.payloads[b], v.payloads[b], Payload(b), v, {})
    BY <1>2, <1>5 DEF Carried, InFlight, Initiated
  <1>9. Tracks(s, v, {})
    BY <1>7, <1>8 DEF Tracks
  <1> QED
    BY <1>2, <1>3, <1>4, <1>5, <1>6, <1>9

\* handle_self_cancel_request
LEMMA SelfCancelGood ==
    ASSUME NEW m, NEW s, Good(s, m), NoSlotFree(s), s.reset = {}, NEW n, NEW r \in Ranges
    PROVE  LET t == SelfCancel(s, n, r) IN Good(t, m) /\ NoSlotFree(t) /\ Tracks(s, t, {})
  <1> DEFINE H == [s.headers EXCEPT ![r] = IF s.headers[r].requester = n THEN NoRequest ELSE s.headers[r]]
  <1> DEFINE C == [s.completed EXCEPT ![r] = IF s.completed[r].requester = n THEN NoRange ELSE s.completed[r]]
  <1> DEFINE t == [s EXCEPT !.headers = H, !.completed = C]
  <1>1. /\ s \in SyncState(m) /\ m \in Requesters
        /\ s.headers \in [Ranges -> {NoRequest} \cup OpenRequest(m)]
        /\ s.completed \in [Ranges -> {NoRange} \cup OpenRange(m)]
    BY DEF Good, SyncState
  <1>2. SelfCancel(s, n, r) = t
    BY <1>1 DEF SelfCancel, SyncState
  <1>3. /\ H \in [Ranges -> {NoRequest} \cup OpenRequest(m)]
        /\ \A x \in Ranges : H[x] # NoRequest => H[x] = s.headers[x]
    BY <1>1
  <1>4. /\ C \in [Ranges -> {NoRange} \cup OpenRange(m)]
        /\ \A x \in Ranges : C[x] # NoRange => C[x] = s.completed[x]
    BY <1>1
  <1> HIDE DEF H, C
  <1>5. /\ t \in SyncState(m) /\ t.headers = H /\ t.payloads = s.payloads /\ t.completed = C
        /\ t.fetches = s.fetches /\ t.schedule = s.schedule /\ t.reset = s.reset /\ t.in_flight = s.in_flight
    BY <1>1, <1>3, <1>4 DEF SyncState
  <1> HIDE DEF t
  <1>6. Good(t, m)
    BY <1>4, <1>5 DEF Good, Counted, MissingRequested, Wanted, InFlight, Initiated
  <1>7. NoSlotFree(t)
    BY <1>5 DEF NoSlotFree
  <1>8. Tracks(s, t, {})
    BY <1>3, <1>5 DEF Tracks, Carried
  <1> QED
    BY <1>2, <1>6, <1>7, <1>8

-----------------------------------------------------------------------------
(* The inductive invariant.                                                *)

\* A request is timed, or it is to the own ledger and looked up there.
Held(x, q) == q \in armed \cup expired \/ (x.to = None /\ fetch[q] > 0)

AllHeld ==
    /\ \A r \in Ranges : sync.headers[r] # NoRequest => Held(sync.headers[r], Headers(r))
    /\ \A b \in InFlight(sync) : Held(sync.payloads[b], Payload(b))

\* Between two steps no command is left to carry out.
SyncOK ==
    /\ Good(sync, sync.mode) /\ NoSlotFree(sync)
    /\ sync.fetches = {} /\ sync.schedule = {} /\ sync.reset = {}

\* A waiting peer asked for the range that its entry will be taken for, and the
\* ledger's part completes the cached headers to all of that range.
Completes(part, cached, r) == RequestedRange(part, cached) = r /\ Chain(part) \o cached = Chain(r)

EntryOK(x, asked) ==
    \/ x.fetch.kind = "payload" /\ [peer |-> x.peer, request |-> x.fetch] \in asked
    \/ /\ x.fetch.kind = "headers"
       /\ \E r : [peer |-> x.peer, request |-> Headers(r)] \in asked /\ Completes(x.fetch.range, x.cached, r)

AnswerOK(a, asked) ==
    /\ [peer |-> a.peer, request |-> a.request] \in asked
    /\ a.request.kind = "headers" /\ a.answer = "found" => a.headers = Chain(a.request.range)

ServedOK ==
    /\ served = [waiting |-> served.waiting, asked |-> served.asked, answers |-> served.answers]
    /\ \A x \in served.waiting : EntryOK(x, served.asked)
    /\ \A a \in served.answers : AnswerOK(a, served.asked)

IInv == SyncOK /\ fetch \in [Requests -> Nat] /\ AllHeld /\ ServedOK

\* When a step is over its commands are carried out.
LEMMA QuietGood ==
    ASSUME NEW m, NEW t, Good(t, m), NoSlotFree(t)
    PROVE  LET u == Quiet(t) IN
           /\ Good(u, u.mode) /\ NoSlotFree(u) /\ u.fetches = {} /\ u.schedule = {} /\ u.reset = {}
           /\ u.headers = t.headers /\ u.payloads = t.payloads
  <1> DEFINE u == Quiet(t)
  <1>1. /\ u \in SyncState(m) /\ u.headers = t.headers /\ u.payloads = t.payloads /\ u.in_flight = t.in_flight
        /\ u.completed = t.completed /\ u.fetches = {} /\ u.schedule = {} /\ u.reset = {} /\ u.mode = m
    BY DEF Good, SyncState, Quiet
  <1> HIDE DEF u
  <1>2. Good(u, m)
    BY <1>1 DEF Good, Counted, MissingRequested, Wanted, InFlight, Initiated
  <1>3. NoSlotFree(u)
    BY <1>1 DEF NoSlotFree
  <1> QED
    BY <1>1, <1>2, <1>3 DEF u

\* A step whose handler keeps track of all requests forgets none.
LEMMA StepHolds ==
    ASSUME NEW m, NEW t, Good(t, m), NoSlotFree(t), NEW done, Tracks(sync, t, done), Step(t, done),
           fetch \in [Requests -> Nat], AllHeld, \A q \in done : q \in Requests /\ fetch[q] > 0,
           \A r \in Ranges : t.headers[r] # NoRequest /\ Headers(r) \in expired \ expired' => Headers(r) \in t.schedule,
           \A b \in InFlight(t) : Payload(b) \in expired \ expired' => Payload(b) \in t.schedule
    PROVE  SyncOK' /\ (fetch \in [Requests -> Nat])' /\ AllHeld'
  <1>1. sync' = Quiet(t)
    BY DEF Step
  <1>2. \A q \in Requests : fetch'[q] = fetch[q] + (IF q \in t.fetches THEN 1 ELSE 0) - (IF q \in done THEN 1 ELSE 0)
    BY DEF Step
  <1>3. armed' = (armed \ t.reset) \cup t.schedule
    BY DEF Step
  <1>4. SyncOK' /\ sync'.headers = t.headers /\ sync'.payloads = t.payloads
    <2> DEFINE u == Quiet(t)
    <2>1. /\ Good(u, u.mode) /\ NoSlotFree(u) /\ u.fetches = {} /\ u.schedule = {} /\ u.reset = {}
          /\ u.headers = t.headers /\ u.payloads = t.payloads
      BY QuietGood
    <2>2. sync' = u
      BY <1>1
    <2> HIDE DEF u
    <2> QED
      BY <2>1, <2>2 DEF SyncOK
  <1>5. \A q \in Requests : /\ fetch'[q] \in Nat
                            /\ q \in t.fetches => fetch'[q] > 0
                            /\ q \notin done /\ fetch[q] > 0 => fetch'[q] > 0
    BY <1>2
  <1>6. (fetch \in [Requests -> Nat])'
    BY <1>5 DEF Step
  <1>7. ASSUME NEW x, NEW y, NEW q \in Requests, Carried(x, y, q, t, done), x = y => Held(x, q),
               q \in expired \ expired' => q \in t.schedule
        PROVE  Held(y, q)'
    <2>1. CASE q \in t.schedule
      BY <1>3, <2>1 DEF Held
    <2>2. CASE q \in t.fetches /\ y.to = None
      BY <1>5, <2>2 DEF Held
    <2>3. CASE x = y /\ q \notin t.reset /\ (q \in done => y.to # None)
      <3>1. CASE q \in armed \cup expired
        BY <1>3, <1>7, <2>3, <3>1 DEF Held
      <3>2. CASE q \notin armed \cup expired
        BY <1>5, <1>7, <2>3, <3>2 DEF Held
      <3> QED
        BY <3>1, <3>2
    <2> QED
      BY <1>7, <2>1, <2>2, <2>3 DEF Carried
  <1>8. ASSUME NEW r \in Ranges, sync'.headers[r] # NoRequest
        PROVE  Held(sync.headers[r], Headers(r))'
    <2> DEFINE x == sync.headers[r]
    <2> DEFINE y == t.headers[r]
    <2> DEFINE q == Headers(r)
    <2>1. y = sync'.headers[r] /\ Carried(x, y, q, t, done)
      BY <1>4, <1>8 DEF Tracks
    <2>2. x = y => Held(x, q)
      BY <1>8, <2>1 DEF AllHeld
    <2>3. q \in Requests /\ (q \in expired \ expired' => q \in t.schedule)
      BY <1>8, <2>1, RequestsDiffer
    <2> HIDE DEF x, q
    <2>4. Held(y, q)'
      BY <1>7, <2>1, <2>2, <2>3
    <2> QED
      BY <2>1, <2>4 DEF q, Held
  <1>9. ASSUME NEW b \in InFlight(sync')
        PROVE  Held(sync.payloads[b], Payload(b))'
    <2> DEFINE x == sync.payloads[b]
    <2> DEFINE y == t.payloads[b]
    <2> DEFINE q == Payload(b)
    <2>1. b \in Bodies /\ b \in InFlight(t) /\ y = sync'.payloads[b]
      BY <1>4 DEF InFlight, Initiated
    <2>2. Carried(x, y, q, t, done)
      BY <2>1 DEF Tracks
    <2>3. x = y => Held(x, q)
      BY <2>1 DEF AllHeld, InFlight, Initiated
    <2>4. q \in Requests /\ (q \in expired \ expired' => q \in t.schedule)
      BY <2>1, RequestsDiffer
    <2> HIDE DEF x, q
    <2>5. Held(y, q)'
      BY <1>7, <2>2, <2>3, <2>4
    <2> QED
      BY <2>1, <2>5 DEF q, Held
  <1>10. AllHeld'
    BY <1>8, <1>9 DEF AllHeld, InFlight, Initiated
  <1> QED
    BY <1>4, <1>6, <1>10

\* A step that asks the ledger for a peer, or that only ends such a lookup.
LEMMA OthersLookup ==
    ASSUME IInv, NEW F \in SUBSET Requests, NEW done, NotAwaited(sync, done),
           \A q \in done : q \in Requests /\ fetch[q] > 0,
           NEW t, t = [sync EXCEPT !.fetches = F], Step(t, done), expired' = expired
    PROVE  SyncOK' /\ (fetch \in [Requests -> Nat])' /\ AllHeld'
  <1> DEFINE m == sync.mode
  <1>1. /\ t \in SyncState(m) /\ t.headers = sync.headers /\ t.payloads = sync.payloads
        /\ t.in_flight = sync.in_flight /\ t.completed = sync.completed /\ t.reset = {}
    BY DEF IInv, SyncOK, Good, SyncState
  <1>2. Good(t, m)
    BY <1>1 DEF IInv, SyncOK, Good, Counted, MissingRequested, Wanted, InFlight, Initiated
  <1>3. NoSlotFree(t)
    BY <1>1 DEF IInv, SyncOK, NoSlotFree
  <1>4. Tracks(sync, t, done)
    BY <1>1 DEF Tracks, Carried, NotAwaited, InFlight, Initiated
  <1> HIDE DEF m
  <1> QED
    BY <1>2, <1>3, <1>4, StepHolds DEF IInv

\* What the cache holds of a range and what is left to the ledger are the range.
LEMMA CachedCompletes ==
    ASSUME NEW r \in Ranges, NEW cached \in CachedHeaders(r)
    PROVE  /\ Completes(LedgerPart(r, cached), cached, r)
           /\ Len(cached) = r.num => cached = Chain(r)
  <1>1. PICK k \in 0..r.num : cached = Chain([last |-> r.last, num |-> k])
    BY DEF CachedHeaders
  <1>2. r \in [last : Nat, num : Nat \ {0}] /\ r.num <= r.last
    BY BlockSyncAssumption
  <1>3. PICK a \in Nat, n \in Nat : a = r.last /\ n = r.num /\ n > 0 /\ n <= a
    BY <1>2
  <1>4. r = [last |-> a, num |-> n]
    BY <1>2, <1>3
  <1>5. k \in Nat /\ k <= n
    BY <1>1, <1>3
  <1>6. cached = [i \in 1..k |-> a - k + i] /\ cached \in Seq(Int) /\ Len(cached) = k
    BY <1>1, <1>3, <1>5 DEF Chain
  <1>7. \A i \in 1..k : cached[i] = a - k + i
    BY <1>6
  <1>8. k > 0 => cached # <<>> /\ Head(cached) = a - k + 1 /\ cached[k] = a
    <2>1. k > 0 => cached # <<>> /\ Head(cached) = cached[1]
      BY <1>5, <1>6
    <2>2. k > 0 => cached[1] = a - k + 1 /\ cached[k] = a
      <3>1. k > 0 => 1 \in 1..k /\ k \in 1..k
        BY <1>5
      <3>2. k > 0 => cached[1] = a - k + 1 /\ cached[k] = a - k + k
        BY <1>7, <3>1
      <3>3. a - k + k = a
        BY <1>3, <1>5
      <3> QED
        BY <3>2, <3>3
    <2> QED
      BY <2>1, <2>2
  <1>9. PICK p : p = [last |-> a - k, num |-> n - k]
    OBVIOUS
  <1>10. p.last = a - k /\ p.num = n - k
    BY <1>9
  <1>11. LedgerPart(r, cached) = p
    <2>1. r.num - Len(cached) = n - k
      BY <1>3, <1>6
    <2>2. (IF cached = <<>> THEN r.last ELSE Head(cached) - 1) = a - k
      <3>1. CASE k = 0
        <4>1. cached = <<>>
          BY <1>6, <3>1
        <4> QED
          BY <1>3, <3>1, <4>1
      <3>2. CASE k > 0
        <4>1. (a - k + 1) - 1 = a - k
          BY <1>3, <1>5
        <4> QED
          BY <1>8, <3>2, <4>1
      <3> QED
        BY <1>5, <3>1, <3>2
    <2> QED
      BY <1>9, <2>1, <2>2 DEF LedgerPart
  <1>12. RequestedRange(p, cached) = r
    <2>1. p.num + Len(cached) = n
      BY <1>3, <1>5, <1>6, <1>10
    <2>2. (IF cached = <<>> THEN p.last ELSE cached[Len(cached)]) = a
      <3>1. CASE k = 0
        <4>1. cached = <<>> /\ a - k = a
          BY <1>3, <1>6, <3>1
        <4> QED
          BY <1>10, <4>1
      <3>2. CASE k > 0
        <4>1. Len(cached) = k
          BY <1>6
        <4> QED
          BY <1>8, <3>2, <4>1
      <3> QED
        BY <1>5, <3>1, <3>2
    <2> QED
      BY <1>4, <2>1, <2>2 DEF RequestedRange
  <1>13. PICK u : u = Chain(p)
    OBVIOUS
  <1>14. u \in Seq(Int) /\ Len(u) = n - k /\ \A i \in 1..n - k : u[i] = a - n + i
    <2>1. u = [i \in 1..n - k |-> (a - k) - (n - k) + i]
      BY <1>10, <1>13 DEF Chain
    <2>2. n - k \in Nat /\ \A i \in Int : (a - k) - (n - k) + i = a - n + i /\ a - n + i \in Int
      BY <1>3, <1>5
    <2>3. PICK l \in Nat : l = n - k
      BY <2>2
    <2>4. u = [i \in 1..l |-> a - n + i] /\ \A i \in 1..l : a - n + i \in Int
      BY <2>1, <2>2, <2>3
    <2>5. u \in Seq(Int) /\ Len(u) = l /\ \A i \in 1..l : u[i] = a - n + i
      BY <2>4
    <2> QED
      BY <2>3, <2>5
  <1>15. PICK v : v = Chain(r)
    OBVIOUS
  <1>16. v \in Seq(Int) /\ Len(v) = n /\ \A i \in 1..n : v[i] = a - n + i
    BY <1>3, <1>15 DEF Chain
  <1>17. PICK c \in Seq(Int) : c = cached /\ Len(c) = k /\ \A i \in 1..k : c[i] = a - k + i
    BY <1>6, <1>7
  <1>18. u \o c = v
    <2>1. PICK w : w = u \o c
      OBVIOUS
    <2>2. w \in Seq(Int) /\ Len(w) = Len(u) + Len(c)
          /\ \A i \in 1..Len(u) + Len(c) : w[i] = IF i <= Len(u) THEN u[i] ELSE c[i - Len(u)]
      BY <1>14, <2>1, ConcatProperties
    <2>3. Len(u) + Len(c) = n
      BY <1>3, <1>5, <1>14, <1>17
    <2>4. \A i \in 1..n : w[i] = IF i <= n - k THEN u[i] ELSE c[i - (n - k)]
      BY <1>14, <2>2, <2>3
    <2>5. ASSUME NEW i \in 1..n PROVE w[i] = v[i]
      <3>1. CASE i <= n - k
        <4>1. i \in 1..n - k
          BY <1>3, <1>5, <3>1
        <4>2. w[i] = u[i]
          BY <2>4, <3>1
        <4>3. u[i] = a - n + i
          BY <1>14, <4>1
        <4> QED
          BY <1>16, <4>2, <4>3
      <3>2. CASE ~(i <= n - k)
        <4>1. PICK d : d = i - (n - k)
          OBVIOUS
        <4>2. d \in 1..k /\ a - k + d = a - n + i
          <5>1. a \in Int /\ n \in Int /\ k \in Int /\ i \in Int /\ i <= n /\ n - k < i
            BY <1>3, <1>5, <3>2
          <5>2. a - k + (i - (n - k)) = a - n + i
            BY <5>1
          <5>3. i - (n - k) \in 1..k
            BY <5>1
          <5> QED
            BY <4>1, <5>2, <5>3
        <4>3. w[i] = c[d]
          BY <2>4, <3>2, <4>1
        <4> QED
          BY <1>16, <1>17, <4>2, <4>3
      <3> QED
        BY <3>1, <3>2
    <2>6. Len(w) = Len(v) /\ Len(w) = n
      BY <1>16, <2>2, <2>3
    <2> QED
      BY <1>16, <2>1, <2>2, <2>5, <2>6, SeqEqual
  <1>19. Len(cached) = r.num => cached = Chain(r)
    <2>1. Len(c) = n => \A i \in 1..Len(c) : c[i] = v[i]
      BY <1>3, <1>5, <1>16, <1>17
    <2>2. Len(c) = n => c = v
      BY <1>16, <2>1, SeqEqual
    <2> QED
      BY <1>3, <1>15, <1>17, <2>2
  <1> QED
    BY <1>11, <1>12, <1>13, <1>15, <1>17, <1>18, <1>19 DEF Completes

\* What was asked stays on record.
LEMMA EntryStays ==
    ASSUME NEW x, NEW A, NEW B, A \subseteq B, EntryOK(x, A) PROVE EntryOK(x, B)
  BY DEF EntryOK

\* The answer made of a waiting peer's entry is the one it asked for.
LEMMA AnswerGood ==
    ASSUME NEW x, NEW A, NEW answer, EntryOK(x, A) PROVE AnswerOK(AnswerTo(x, answer), A)
  <1>1. CASE x.fetch.kind = "payload" /\ [peer |-> x.peer, request |-> x.fetch] \in A
    <2>1. AnswerTo(x, answer) = [peer |-> x.peer, request |-> x.fetch, answer |-> answer, headers |-> <<>>]
      BY <1>1 DEF AnswerTo, Answer
    <2> QED
      BY <1>1, <2>1 DEF AnswerOK
  <1>2. CASE x.fetch.kind = "headers" /\ \E r : /\ [peer |-> x.peer, request |-> Headers(r)] \in A
                                                /\ Completes(x.fetch.range, x.cached, r)
    <2>1. PICK r : [peer |-> x.peer, request |-> Headers(r)] \in A /\ Completes(x.fetch.range, x.cached, r)
      BY <1>2
    <2>2. PICK h : h = IF answer = "found" THEN Chain(r) ELSE <<>>
      OBVIOUS
    <2>3. AnswerTo(x, answer) = [peer |-> x.peer, request |-> Headers(r), answer |-> answer, headers |-> h]
      BY <1>2, <2>1, <2>2 DEF AnswerTo, Answer, Completes
    <2>4. Headers(r).range = r
      BY DEF Headers
    <2> QED
      BY <2>1, <2>2, <2>3, <2>4 DEF AnswerOK
  <1> QED
    BY <1>1, <1>2 DEF EntryOK

\* Nothing is sent to peers: those that wait keep waiting.
LEMMA NoAnswerServed ==
    ASSUME ServedOK, NoAnswer PROVE ServedOK'
  <1>1. served'.waiting = served.waiting /\ served'.asked = served.asked /\ served'.answers = {}
    BY DEF ServedOK, NoAnswer
  <1>2. served' = [waiting |-> served'.waiting, asked |-> served'.asked, answers |-> served'.answers]
    BY DEF ServedOK, NoAnswer
  <1> QED
    BY <1>1, <1>2 DEF ServedOK

\* A peer is answered from the cache, with the headers h.
LEMMA AnswerAtOnce ==
    ASSUME ServedOK, NEW peer, NEW q, NEW h, q.kind = "headers" => h = Chain(q.range),
           served' = [served EXCEPT !.answers = {Answer(peer, q, "found", h)},
                                    !.asked = @ \cup {[peer |-> peer, request |-> q]}]
    PROVE  ServedOK'
  <1>1. PICK a : a = Answer(peer, q, "found", h)
    OBVIOUS
  <1>2. PICK D : D = served.asked \cup {[peer |-> peer, request |-> q]}
    OBVIOUS
  <1>3. served' = [served EXCEPT !.answers = {a}, !.asked = D]
    BY <1>1, <1>2
  <1>4. /\ served' = [waiting |-> served.waiting, asked |-> D, answers |-> {a}]
        /\ served'.waiting = served.waiting /\ served'.asked = D /\ served'.answers = {a}
    BY <1>3 DEF ServedOK
  <1>5. AnswerOK(a, D)
    BY <1>1, <1>2 DEF AnswerOK, Answer
  <1>6. \A x \in served.waiting : EntryOK(x, D)
    BY <1>2, EntryStays DEF ServedOK
  <1> QED
    BY <1>4, <1>5, <1>6 DEF ServedOK

\* A peer waits for the ledger.
LEMMA WaitServed ==
    ASSUME ServedOK, NEW peer, NEW q, NEW part, NEW h, NEW D,
           D = served.asked \cup {[peer |-> peer, request |-> q]},
           EntryOK([peer |-> peer, fetch |-> part, cached |-> h], D),
           served' = [waiting |-> WaitFor(served.waiting, peer, part, h), answers |-> {}, asked |-> D]
    PROVE  ServedOK'
  <1>1. PICK w : w = [peer |-> peer, fetch |-> part, cached |-> h]
    OBVIOUS
  <1>2. \A x \in WaitFor(served.waiting, peer, part, h) : x \in served.waiting \/ x = w
    BY <1>1 DEF WaitFor
  <1>3. \A x \in served.waiting : EntryOK(x, D)
    BY EntryStays DEF ServedOK
  <1>4. \A x \in WaitFor(served.waiting, peer, part, h) : EntryOK(x, D)
    BY <1>1, <1>2, <1>3
  <1>5. /\ served'.waiting = WaitFor(served.waiting, peer, part, h) /\ served'.asked = D /\ served'.answers = {}
        /\ served' = [waiting |-> served'.waiting, asked |-> served'.asked, answers |-> served'.answers]
    OBVIOUS
  <1> QED
    BY <1>4, <1>5 DEF ServedOK

\* The ledger's answer goes to those that wait for it.
AnswerReady(q, answer) ==
    LET ready == {x \in served.waiting : x.fetch = q}
    IN  served' = [served EXCEPT !.waiting = @ \ ready, !.answers = {AnswerTo(x, answer) : x \in ready}]

\* They are told what they asked for.
LEMMA LedgerServed ==
    ASSUME ServedOK, NEW q, NEW answer \in {"found", "not_available"}, AnswerReady(q, answer)
    PROVE  ServedOK'
  <1> DEFINE ready == {x \in served.waiting : x.fetch = q}
  <1> DEFINE A == {AnswerTo(x, answer) : x \in ready}
  <1>1. \A a \in A : AnswerOK(a, served.asked)
    BY AnswerGood DEF ServedOK
  <1>2. served' = [served EXCEPT !.waiting = served.waiting \ ready, !.answers = A]
    BY DEF AnswerReady
  <1> HIDE DEF ready, A
  <1>3. /\ served' = [waiting |-> served.waiting \ ready, asked |-> served.asked, answers |-> A]
        /\ served'.waiting = served.waiting \ ready /\ served'.asked = served.asked /\ served'.answers = A
    BY <1>2 DEF ServedOK
  <1> QED
    BY <1>1, <1>3 DEF ServedOK

-----------------------------------------------------------------------------
(* Each action keeps the invariant.                                        *)

\* In a good state before the step.
LEMMA BeforeStep ==
    ASSUME IInv
    PROVE  /\ Good(sync, sync.mode) /\ NoSlotFree(sync) /\ sync.reset = {} /\ sync.fetches = {}
           /\ fetch \in [Requests -> Nat] /\ AllHeld /\ ServedOK /\ sync.mode \in Requesters
           /\ NotAwaited(sync, {}) /\ sync = [sync EXCEPT !.fetches = {}]
  <1>1. sync \in SyncState(sync.mode) /\ sync.fetches = {}
    BY DEF IInv, SyncOK, Good
  <1>2. sync = [sync EXCEPT !.fetches = {}]
    BY <1>1 DEF SyncState
  <1> QED
    BY <1>2 DEF IInv, SyncOK, Good, NotAwaited

\* KinetState asks for a range, in its mode or in the next.
LEMMA SelfRequestKeeps ==
    ASSUME IInv, NEW n \in Requesters, NEW r \in Ranges, HandleSelfRequest(n, r)
    PROVE  IInv'
  <1>1. PICK t : t = SelfRequest(sync, n, r)
    OBVIOUS
  <1>2. Step(t, {}) /\ NoAnswer /\ expired' = expired
    BY <1>1 DEF HandleSelfRequest
  <1>3. Good(t, n) /\ NoSlotFree(t) /\ Tracks(sync, t, {})
    BY <1>1, BeforeStep, SelfRequestGood
  <1>4. SyncOK' /\ (fetch \in [Requests -> Nat])' /\ AllHeld'
    BY <1>2, <1>3, BeforeStep, StepHolds
  <1> QED
    BY <1>2, <1>4, BeforeStep, NoAnswerServed DEF IInv

\* Consensus gives up a range.
LEMMA SelfCancelKeeps ==
    ASSUME IInv, NEW r \in Ranges, HandleSelfCancel(r)
    PROVE  IInv'
  <1>1. PICK t : t = SelfCancel(sync, "Consensus", r)
    OBVIOUS
  <1>2. Step(t, {}) /\ NoAnswer /\ expired' = expired
    BY <1>1 DEF HandleSelfCancel
  <1>3. Good(t, sync.mode) /\ NoSlotFree(t) /\ Tracks(sync, t, {})
    BY <1>1, BeforeStep, SelfCancelGood
  <1>4. SyncOK' /\ (fetch \in [Requests -> Nat])' /\ AllHeld'
    BY <1>2, <1>3, BeforeStep, StepHolds
  <1> QED
    BY <1>2, <1>4, BeforeStep, NoAnswerServed DEF IInv

\* The ledger answers, for the node itself and for the peers that wait.
LEMMA LedgerResponseKeeps ==
    ASSUME IInv, NEW q \in Requests, NEW answer \in {"found", "not_available"}, NEW to \in PickPeer,
           HandleLedgerResponse(q, answer, to)
    PROVE  IInv'
  <1>1. expired' = expired /\ fetch[q] > 0
    BY DEF HandleLedgerResponse
  <1>2. ServedOK'
    <2>1. AnswerReady(q, answer)
      BY DEF HandleLedgerResponse, AnswerReady
    <2> QED
      BY <2>1, BeforeStep, LedgerServed
  <1>3. CASE q \in SelfRequests
    <2>1. PICK t \in Respond(sync, q, None, answer, to) : Step(t, {q})
      BY <1>3 DEF HandleLedgerResponse
    <2>2. Answered(q, None, answer, {q})
      BY DEF Answered
    <2>3. Good(t, sync.mode) /\ NoSlotFree(t) /\ Tracks(sync, t, {q})
      BY <1>3, <2>2, BeforeStep, RespondGood
    <2>4. SyncOK' /\ (fetch \in [Requests -> Nat])' /\ AllHeld'
      BY <1>1, <2>1, <2>3, BeforeStep, StepHolds
    <2> QED
      BY <1>2, <2>4 DEF IInv
  <1>4. CASE q \notin SelfRequests
    <2>1. Step(sync, {q})
      BY <1>4 DEF HandleLedgerResponse
    <2>2. NotAwaited(sync, {q})
      <3>1. /\ \A r \in Ranges : Headers(r) \notin {q}
            /\ \A b \in InFlight(sync) : Payload(b) \notin {q}
        BY <1>4, RequestsDiffer DEF InFlight
      <3> QED
        BY <3>1 DEF NotAwaited
    <2>3. PICK t : t = sync
      OBVIOUS
    <2>4. Step(t, {q})
      BY <2>1, <2>3
    <2>5. t = [sync EXCEPT !.fetches = {}]
      BY <2>3, BeforeStep
    <2>6. SyncOK' /\ (fetch \in [Requests -> Nat])' /\ AllHeld'
      <3>1. {} \in SUBSET Requests /\ \A x \in {q} : x \in Requests /\ fetch[x] > 0
        BY <1>1
      <3> QED
        BY <1>1, <2>2, <2>4, <2>5, <3>1, OthersLookup
    <2> QED
      BY <1>2, <2>6 DEF IInv
  <1> QED
    BY <1>3, <1>4

\* A peer answers, asked or not.
LEMMA PeerResponseKeeps ==
    ASSUME IInv, NEW q \in SelfRequests, NEW peer \in Peers, NEW answer \in {"found", "not_available", "invalid"},
           HandlePeerResponse(peer, q, answer)
    PROVE  IInv'
  <1>1. PICK t \in Respond(sync, q, peer, answer, None) : Step(t, {})
    BY DEF HandlePeerResponse
  <1>2. NoAnswer /\ expired' = expired
    BY DEF HandlePeerResponse
  <1>3. Answered(q, peer, answer, {}) /\ None \in PickPeer
    BY BlockSyncAssumption DEF Answered, PickPeer
  <1>4. Good(t, sync.mode) /\ NoSlotFree(t) /\ Tracks(sync, t, {})
    BY <1>3, BeforeStep, RespondGood
  <1>5. SyncOK' /\ (fetch \in [Requests -> Nat])' /\ AllHeld'
    BY <1>1, <1>2, <1>4, BeforeStep, StepHolds
  <1> QED
    BY <1>2, <1>5, BeforeStep, NoAnswerServed DEF IInv

\* A timer fires: its event takes its place.
LEMMA TimerFiresKeeps ==
    ASSUME IInv, NEW q, TimerFires(q)
    PROVE  IInv'
  <1>1. armed' \cup expired' = armed \cup expired /\ sync' = sync /\ fetch' = fetch /\ NoAnswer
    BY DEF TimerFires
  <1>2. AllHeld'
    BY <1>1 DEF IInv, AllHeld, Held
  <1>3. SyncOK' /\ (fetch \in [Requests -> Nat])'
    BY <1>1 DEF IInv, SyncOK
  <1> QED
    BY <1>1, <1>2, <1>3, BeforeStep, NoAnswerServed DEF IInv

\* A timer event is handled, also when its request has ended by then.
LEMMA TimeoutKeeps ==
    ASSUME IInv, NEW q \in SelfRequests, NEW to \in PickPeer, HandleTimeout(q, to)
    PROVE  IInv'
  <1>1. PICK t : t = Timeout(sync, q, to)
    OBVIOUS
  <1>2. Step(t, {}) /\ NoAnswer /\ \A x \in expired \ expired' : x = q
    BY <1>1 DEF HandleTimeout
  <1>3. /\ Good(t, sync.mode) /\ NoSlotFree(t) /\ Tracks(sync, t, {})
        /\ \A r \in Ranges : t.headers[r] # NoRequest /\ Headers(r) = q => q \in t.schedule
        /\ \A b \in InFlight(t) : Payload(b) = q => q \in t.schedule
    BY <1>1, BeforeStep, TimeoutGood
  <1>4. SyncOK' /\ (fetch \in [Requests -> Nat])' /\ AllHeld'
    BY <1>2, <1>3, BeforeStep, StepHolds
  <1> QED
    BY <1>2, <1>4, BeforeStep, NoAnswerServed DEF IInv

\* A peer asks for headers.
LEMMA PeerHeadersKeeps ==
    ASSUME IInv, NEW r \in Ranges, NEW peer \in Peers, NEW cached \in CachedHeaders(r),
           HandlePeerHeadersRequest(peer, r, cached)
    PROVE  IInv'
  <1> DEFINE part == Headers(LedgerPart(r, cached))
  <1> DEFINE q == Headers(r)
  <1>1. q \in Requests /\ expired' = expired
    BY RequestsDiffer DEF HandlePeerHeadersRequest
  <1>2. part \in Requests
    BY DEF Requests, FetchRanges
  <1>3. CASE Len(cached) = r.num
    <2>1. PICK t : t = sync
      OBVIOUS
    <2>2. /\ Step(t, {})
          /\ served' = [served EXCEPT !.answers = {Answer(peer, q, "found", cached)},
                                      !.asked = @ \cup {[peer |-> peer, request |-> q]}]
      BY <1>3, <2>1 DEF HandlePeerHeadersRequest
    <2> HIDE DEF q
    <2>3. t = [sync EXCEPT !.fetches = {}] /\ {} \in SUBSET Requests
      BY <2>1, BeforeStep
    <2>4. SyncOK' /\ (fetch \in [Requests -> Nat])' /\ AllHeld'
      BY <1>1, <2>2, <2>3, BeforeStep, OthersLookup
    <2>5. ServedOK'
      <3>1. q.kind = "headers" => cached = Chain(q.range)
        BY <1>3, CachedCompletes DEF q, Headers
      <3> QED
        BY <2>2, <3>1, BeforeStep, AnswerAtOnce
    <2> QED
      BY <2>4, <2>5 DEF IInv
  <1>4. CASE Len(cached) # r.num
    <2>1. PICK t : t = [sync EXCEPT !.fetches = {part}]
      OBVIOUS
    <2>2. /\ Step(t, {})
          /\ served' = [waiting |-> WaitFor(served.waiting, peer, part, cached), answers |-> {},
                        asked |-> served.asked \cup {[peer |-> peer, request |-> q]}]
      BY <1>4, <2>1 DEF HandlePeerHeadersRequest
    <2> HIDE DEF q, part
    <2> DEFINE F == {part}
    <2>3. t = [sync EXCEPT !.fetches = F] /\ F \in SUBSET Requests
      BY <1>2, <2>1
    <2> HIDE DEF F
    <2>4. SyncOK' /\ (fetch \in [Requests -> Nat])' /\ AllHeld'
      BY <1>1, <2>2, <2>3, BeforeStep, OthersLookup
    <2>5. ServedOK'
      <3>1. PICK D : D = served.asked \cup {[peer |-> peer, request |-> q]}
        OBVIOUS
      <3>2. EntryOK([peer |-> peer, fetch |-> part, cached |-> cached], D)
        <4>1. part.kind = "headers" /\ part.range = LedgerPart(r, cached)
          BY DEF part, Headers
        <4>2. [peer |-> peer, request |-> Headers(r)] \in D
          BY <3>1 DEF q
        <4>3. Completes(part.range, cached, r)
          BY <4>1, CachedCompletes
        <4> QED
          BY <4>1, <4>2, <4>3 DEF EntryOK
      <3> QED
        BY <2>2, <3>1, <3>2, BeforeStep, WaitServed
    <2> QED
      BY <2>4, <2>5 DEF IInv
  <1> QED
    BY <1>3, <1>4

\* A peer asks for a payload.
LEMMA PeerPayloadKeeps ==
    ASSUME IInv, NEW peer \in Peers, NEW b \in Bodies, HandlePeerPayloadRequest(peer, b)
    PROVE  IInv'
  <1> DEFINE q == Payload(b)
  <1>1. q \in Requests /\ expired' = expired
    BY RequestsDiffer DEF HandlePeerPayloadRequest
  <1>2. CASE Cached(sync, b)
    <2>1. PICK t : t = sync
      OBVIOUS
    <2>2. /\ Step(t, {})
          /\ served' = [served EXCEPT !.answers = {Answer(peer, q, "found", <<>>)},
                                      !.asked = @ \cup {[peer |-> peer, request |-> q]}]
      BY <1>2, <2>1 DEF HandlePeerPayloadRequest
    <2> HIDE DEF q
    <2>3. t = [sync EXCEPT !.fetches = {}] /\ {} \in SUBSET Requests
      BY <2>1, BeforeStep
    <2>4. SyncOK' /\ (fetch \in [Requests -> Nat])' /\ AllHeld'
      BY <1>1, <2>2, <2>3, BeforeStep, OthersLookup
    <2>5. ServedOK'
      <3>1. PICK h : h = <<>>
        OBVIOUS
      <3>2. q.kind = "headers" => h = Chain(q.range)
        BY DEF q, Payload
      <3> QED
        BY <2>2, <3>1, <3>2, BeforeStep, AnswerAtOnce
    <2> QED
      BY <2>4, <2>5 DEF IInv
  <1>3. CASE ~Cached(sync, b)
    <2>1. PICK t : t = [sync EXCEPT !.fetches = {q}]
      OBVIOUS
    <2>2. /\ Step(t, {})
          /\ served' = [waiting |-> WaitFor(served.waiting, peer, q, <<>>), answers |-> {},
                        asked |-> served.asked \cup {[peer |-> peer, request |-> q]}]
      BY <1>3, <2>1 DEF HandlePeerPayloadRequest
    <2> HIDE DEF q
    <2> DEFINE F == {q}
    <2>3. t = [sync EXCEPT !.fetches = F] /\ F \in SUBSET Requests
      BY <1>1, <2>1
    <2> HIDE DEF F
    <2>4. SyncOK' /\ (fetch \in [Requests -> Nat])' /\ AllHeld'
      BY <1>1, <2>2, <2>3, BeforeStep, OthersLookup
    <2>5. ServedOK'
      <3>1. PICK D : D = served.asked \cup {[peer |-> peer, request |-> q]}
        OBVIOUS
      <3>2. PICK h : h = <<>>
        OBVIOUS
      <3>3. EntryOK([peer |-> peer, fetch |-> q, cached |-> h], D)
        BY <3>1 DEF EntryOK, q, Payload
      <3> QED
        BY <2>2, <3>1, <3>2, <3>3, BeforeStep, WaitServed
    <2> QED
      BY <2>4, <2>5 DEF IInv
  <1> QED
    BY <1>2, <1>3

\* The cache changes under the component.
LEMMA CacheKeeps ==
    ASSUME IInv, NEW b, CacheChanges(b)
    PROVE  IInv'
  <1>1. armed' = armed /\ expired' = expired /\ sync' = sync /\ fetch' = fetch /\ NoAnswer
    BY DEF CacheChanges
  <1>2. AllHeld' /\ SyncOK' /\ (fetch \in [Requests -> Nat])'
    BY <1>1 DEF IInv, AllHeld, Held, SyncOK
  <1> QED
    BY <1>1, <1>2, BeforeStep, NoAnswerServed DEF IInv

\* Nothing happens.
LEMMA StutterKeeps ==
    ASSUME IInv, UNCHANGED vars
    PROVE  IInv'
  BY DEF IInv, AllHeld, Held, SyncOK, ServedOK, vars

\* Nothing is asked for at the start.
LEMMA InitHolds == Init => IInv
  <1> SUFFICES ASSUME Init PROVE IInv
    OBVIOUS
  <1> DEFINE m == "StateSync"
  <1>1. /\ \A r \in Ranges : sync.headers[r] = NoRequest /\ sync.completed[r] = NoRange
        /\ \A b \in Bodies : sync.payloads[b] = NoRequest
        /\ sync.mode = m /\ sync.in_flight = 0 /\ sync.fetches = {} /\ sync.schedule = {} /\ sync.reset = {}
    BY DEF Init
  <1>2. sync \in SyncState(m) /\ m \in Requesters
    BY DEF Init, SyncState, Requesters
  <1>3. Wanted(sync) = {} /\ InFlight(sync) = {}
    BY <1>1 DEF Wanted, InFlight, Initiated
  <1>4. Counted(sync)
    <2>1. MaxInFlight \in Nat /\ IsFiniteSet({}) /\ Cardinality({}) = 0
      BY FS_EmptySet, BlockSyncAssumption
    <2> QED
      BY <1>1, <1>3, <2>1 DEF Counted
  <1>5. MissingRequested(sync)
    BY <1>1 DEF MissingRequested
  <1>6. NoRequest # Queued
    BY DEF NoRequest, Queued
  <1>7. SyncOK
    BY <1>1, <1>2, <1>4, <1>5, <1>6 DEF SyncOK, Good, NoSlotFree
  <1>8. fetch \in [Requests -> Nat]
    BY DEF Init
  <1>9. AllHeld
    BY <1>1, <1>3 DEF AllHeld
  <1>10. ServedOK
    BY DEF Init, ServedOK
  <1> QED
    BY <1>7, <1>8, <1>9, <1>10 DEF IInv

\* THEOREM.  The bookkeeping of block sync is inductive: between two events every
\* request is counted, belongs to the mode, and is timed or looked up, and every
\* waiting peer is on record with what it asked for.
THEOREM InductiveInvariant == Spec => []IInv
  <1>1. Init => IInv
    BY InitHolds
  <1>2. IInv /\ [Next]_vars => IInv'
    <2> SUFFICES ASSUME IInv, [Next]_vars PROVE IInv'
      OBVIOUS
    <2>1. ASSUME NEW r \in Ranges, NEW n \in Requesters, HandleSelfRequest(n, r) PROVE IInv'
      BY <2>1, SelfRequestKeeps
    <2>2. ASSUME NEW r \in Ranges, HandleSelfCancel(r) PROVE IInv'
      BY <2>2, SelfCancelKeeps
    <2>3. ASSUME NEW r \in Ranges, NEW peer \in Peers, NEW cached \in CachedHeaders(r),
                 HandlePeerHeadersRequest(peer, r, cached) PROVE IInv'
      BY <2>3, PeerHeadersKeeps
    <2>4. ASSUME NEW q \in Requests, NEW answer \in {"found", "not_available"}, NEW to \in PickPeer,
                 HandleLedgerResponse(q, answer, to) PROVE IInv'
      BY <2>4, LedgerResponseKeeps
    <2>5. ASSUME NEW q \in SelfRequests, NEW peer \in Peers, NEW answer \in {"found", "not_available", "invalid"},
                 HandlePeerResponse(peer, q, answer) PROVE IInv'
      BY <2>5, PeerResponseKeeps
    <2>6. ASSUME NEW q \in SelfRequests, TimerFires(q) PROVE IInv'
      BY <2>6, TimerFiresKeeps
    <2>7. ASSUME NEW q \in SelfRequests, NEW to \in PickPeer, HandleTimeout(q, to) PROVE IInv'
      BY <2>7, TimeoutKeeps
    <2>8. ASSUME NEW peer \in Peers, NEW b \in Bodies, HandlePeerPayloadRequest(peer, b) PROVE IInv'
      BY <2>8, PeerPayloadKeeps
    <2>9. ASSUME NEW b \in Cacheable, CacheChanges(b) PROVE IInv'
      BY <2>9, CacheKeeps
    <2>10. CASE UNCHANGED vars
      BY <2>10, StutterKeeps
    <2> QED
      BY <2>1, <2>2, <2>3, <2>4, <2>5, <2>6, <2>7, <2>8, <2>9, <2>10 DEF Next
  <1> QED
    BY <1>1, <1>2, PTL DEF Spec

\* THEOREM.  self_payload_requests_in_flight is the number of initiated payload
\* requests, stays within BLOCKSYNC_MAX_PAYLOAD_REQUESTS, and no slot is free while
\* a payload waits, for every limit and all ranges.
THEOREM InFlightIsExact == Spec => []InFlightExact
  <1>1. IInv => InFlightExact
    BY DEF IInv, SyncOK, Good, Counted, NoSlotFree, InFlightExact
  <1> QED
    BY <1>1, InductiveInvariant, PTL

\* THEOREM.  Every request and every range in progress belongs to the current mode,
\* so the assertions on the requester in the response handlers never fail.
THEOREM RequestsMatchMode == Spec => []ModeMatches
  <1>1. IInv => ModeMatches
    <2> SUFFICES ASSUME IInv PROVE ModeMatches
      OBVIOUS
    <2>1. Good(sync, sync.mode) /\ sync \in SyncState(sync.mode)
      BY DEF IInv, SyncOK, Good
    <2>2. \A b \in InFlight(sync) : sync.payloads[b].requester = sync.mode
      BY <2>1, InFlightIs DEF OpenRequest
    <2> QED
      BY <2>1, <2>2 DEF ModeMatches, SyncState, OpenRequest, OpenRange
  <1> QED
    BY <1>1, InductiveInvariant, PTL

\* THEOREM.  A payload that a range in progress misses is requested, also after
\* cancellations, cache hits and completions of ranges that share it.
THEOREM MissingAreRequested == Spec => []MissingIsRequested
  <1>1. IInv => MissingIsRequested
    BY DEF IInv, SyncOK, Good, MissingRequested, MissingIsRequested
  <1> QED
    BY <1>1, InductiveInvariant, PTL

\* THEOREM.  No request is forgotten: one that is open is looked up in the ledger or
\* has a timer that runs or whose event is to be handled, whatever answers came.
THEOREM NothingForgotten == Spec => []NoRequestForgotten
  <1>1. IInv => NoRequestForgotten
    BY DEF IInv, AllHeld, Held, NoRequestForgotten
  <1> QED
    BY <1>1, InductiveInvariant, PTL

\* THEOREM.  The range that handle_ledger_response recomputes from the ledger's part
\* and the cached headers is one the peer asked for, and the headers sent are that
\* range's, whole and in order, for all ranges and whatever part was cached.
THEOREM AnswersMatchRequests == Spec => []AnswersWhatWasAsked
  <1>1. IInv => AnswersWhatWasAsked
    BY DEF IInv, ServedOK, AnswerOK, AnswersWhatWasAsked
  <1> QED
    BY <1>1, InductiveInvariant, PTL
=============================================================================
