--------------------------- MODULE PacemakerProofs ---------------------------
(***************************************************************************)
(* The safety of Pacemaker, for any validator set and any number of        *)
(* rounds: its assertion holds, its TCs are backed by timeouts, it never   *)
(* sits on a quorum and its timer runs.  Then vote pacing: votes leave a   *)
(* node once each, in the order of their rounds, and try_vote never        *)
(* panics.                                                                 *)
(***************************************************************************)
EXTENDS Pacemaker, VotePacing, TLAPS

\* TCExists, when the timeouts T have been signed.
Backed(T, round) == {n \in Nodes : <<n, round>> \in T} \cup Faulty \in Supermajority

\* The timeouts that s has collected were signed for its round.
PendingSigned(s, T) ==
    \A t \in s.pending_timeouts : t[1] \in Nodes => <<t[1], s.round>> \in T

\* A node's state between two events.
GoodState(s, T) ==
    /\ s \in NodeState
    /\ s.timer = s.round
    /\ PendingSigned(s, T)
    /\ Authors(s.pending_timeouts) \notin Supermajority
    /\ s.by_tc => Backed(T, s.round - 1)

\* A message of a node: its timeout was signed and its certificate proves its round.
GoodMessage(m, T) ==
    /\ m \in Message /\ m.src \in Nodes
    /\ m.cert_round + 1 = m.round
    /\ <<m.src, m.round>> \in T
    /\ m.cert_tc => Backed(T, m.cert_round)

PacemakerInv ==
    /\ timed_out \subseteq Nodes \X Rounds
    /\ node \in [Nodes -> NodeState]
    /\ \A n \in Nodes : GoodState(node[n], timed_out)
    /\ \A m \in net : GoodMessage(m, timed_out)
    /\ panicked = FALSE

-----------------------------------------------------------------------------
\* More timeouts never take a certificate away.
LEMMA BackedMono ==
    ASSUME NEW T, NEW T2, T \subseteq T2, NEW round, Backed(T, round)
    PROVE  Backed(T2, round)
<1> DEFINE S1 == {n \in Nodes : <<n, round>> \in T} \cup Faulty
           S2 == {n \in Nodes : <<n, round>> \in T2} \cup Faulty
<1>1. S1 \in Supermajority /\ S1 \subseteq S2 /\ S2 \in SUBSET Validators
  BY PacemakerAssumption DEF Backed, Faulty
<1>2. QED  BY <1>1, PacemakerAssumption DEF Backed

LEMMA StateMono ==
    ASSUME NEW T, NEW T2, T \subseteq T2, NEW s, GoodState(s, T)
    PROVE  GoodState(s, T2)
BY BackedMono DEF GoodState, PendingSigned

LEMMA MessageMono ==
    ASSUME NEW T, NEW T2, T \subseteq T2, NEW m, GoodMessage(m, T)
    PROVE  GoodMessage(m, T2)
BY BackedMono DEF GoodMessage

\* No node means no supermajority.
LEMMA NoEmptyQuorum == Authors({}) \notin Supermajority
BY PacemakerAssumption DEF Authors

\* Processing a certificate leaves a good state, past the certificate's round.
LEMMA CertOK ==
    ASSUME NEW T, NEW s, GoodState(s, T), NEW round \in 0..MaxRound - 1, NEW tc \in BOOLEAN,
           tc => Backed(T, round)
    PROVE  LET t == ProcessCertificate(s, round, tc)
           IN  /\ GoodState(t, T)
               /\ t.round >= round + 1 /\ t.round >= s.round
<1> DEFINE t == ProcessCertificate(s, round, tc)
<1>0. s \in NodeState /\ s.round \in Rounds /\ MaxRound \in Nat /\ round \in Int
  BY PacemakerAssumption DEF GoodState, NodeState
<1>1. CASE round < s.round
  <2>1. t = s
    BY <1>1 DEF ProcessCertificate
  <2>2. QED  BY <1>0, <1>1, <2>1 DEF Rounds
<1>2. CASE ~(round < s.round)
  <2>1. t = [ s EXCEPT !.round = round + 1, !.by_tc = tc, !.phase = "Zero",
                       !.pending_timeouts = {}, !.invalid_timeout_senders = {},
                       !.timer = round + 1 ]
    BY <1>2 DEF ProcessCertificate
  <2>2. /\ t.round = round + 1 /\ t.by_tc = tc /\ t.pending_timeouts = {}
        /\ t.timer = round + 1
    BY <1>0, <2>1 DEF NodeState
  <2>3. round + 1 \in Rounds /\ round + 1 \in 0..MaxRound /\ round + 1 - 1 = round
    BY <1>0 DEF Rounds
  <2>4. t \in NodeState
    BY <1>0, <2>1, <2>3 DEF NodeState
  <2> HIDE DEF t
  <2>5. GoodState(t, T)
    BY <2>2, <2>3, <2>4, NoEmptyQuorum DEF GoodState, PendingSigned
  <2>6. QED  BY <1>0, <1>2, <2>2, <2>5 DEF Rounds, t
<1>3. QED  BY <1>1, <1>2

\* The broadcast of a node in a good state.
LEMMA MessagesOK ==
    ASSUME NEW T, NEW n \in Nodes, NEW s \in NodeState, s.by_tc => Backed(T, s.round - 1),
           <<n, s.round>> \in T
    PROVE  \A m \in TimeoutMessages(n, s) : GoodMessage(m, T)
<1> SUFFICES ASSUME NEW d \in Nodes
             PROVE  GoodMessage([src |-> n, dst |-> d, good |-> TRUE, round |-> s.round,
                                 cert_round |-> s.round - 1, cert_tc |-> s.by_tc], T)
  BY DEF TimeoutMessages
<1>1. s.round \in Rounds /\ s.by_tc \in BOOLEAN /\ MaxRound \in Nat
  BY PacemakerAssumption DEF NodeState
<1>2. s.round - 1 \in 0..MaxRound - 1 /\ s.round - 1 + 1 = s.round
  BY <1>1 DEF Rounds
<1>3. QED  BY <1>1, <1>2, PacemakerAssumption DEF GoodMessage, Message

\* What the loop of process_remote_timeout leaves behind.
LEMMA CollectOK ==
    ASSUME NEW T, NEW s \in NodeState, s.timer = s.round, PendingSigned(s, T),
           s.by_tc => Backed(T, s.round - 1),
           NEW g \in WithoutInvalid(s), Collected(s, g).round <= MaxRound
    PROVE  GoodState(Collected(s, g), T)
<1> DEFINE c == Collected(s, g)
<1>0. s.round \in Rounds /\ MaxRound \in Nat /\ s.pending_timeouts \in SUBSET (Validators \X BOOLEAN)
      /\ s.invalid_timeout_senders \in SUBSET Validators
  BY PacemakerAssumption DEF NodeState
<1>1. BadSenders(s.pending_timeouts) \in SUBSET Validators
  BY <1>0 DEF BadSenders
<1>2. /\ g \in NodeState /\ g.round = s.round /\ g.timer = s.timer /\ g.by_tc = s.by_tc
      /\ g.pending_timeouts \subseteq s.pending_timeouts
  <2>1. PICK R \in SUBSET BadSenders(s.pending_timeouts) :
          g = [ s EXCEPT !.pending_timeouts = {t \in s.pending_timeouts : t[1] \notin R},
                         !.invalid_timeout_senders = s.invalid_timeout_senders \cup R ]
    BY DEF WithoutInvalid
  <2>2. {t \in s.pending_timeouts : t[1] \notin R} \in SUBSET (Validators \X BOOLEAN)
    BY <1>0
  <2>3. s.invalid_timeout_senders \cup R \in SUBSET Validators
    BY <1>0, <1>1
  <2>4. QED  BY <2>1, <2>2, <2>3 DEF NodeState
<1>3. CASE Authors(g.pending_timeouts) \in Supermajority
  <2>1. c = ProcessCertificate(s, s.round, TRUE) /\ ~(s.round < s.round)
    BY <1>0, <1>3 DEF Collected, Rounds
  <2>2. c = [ s EXCEPT !.round = s.round + 1, !.by_tc = TRUE, !.phase = "Zero",
                       !.pending_timeouts = {}, !.invalid_timeout_senders = {},
                       !.timer = s.round + 1 ]
    BY <2>1 DEF ProcessCertificate
  <2>3. /\ c.round = s.round + 1 /\ c.by_tc = TRUE /\ c.pending_timeouts = {}
        /\ c.timer = s.round + 1
    BY <2>2 DEF NodeState
  <2>4. c.round <= MaxRound
    OBVIOUS
  <2>5. s.round + 1 \in Rounds /\ s.round + 1 \in 0..MaxRound /\ s.round + 1 - 1 = s.round
    BY <1>0, <2>3, <2>4 DEF Rounds
  <2>6. c \in NodeState
    BY <2>2, <2>5 DEF NodeState
  <2>7. Backed(T, s.round)
    <3> DEFINE S == {n \in Nodes : <<n, s.round>> \in T} \cup Faulty
    <3>1. Authors(g.pending_timeouts) \subseteq S
      BY <1>0, <1>2 DEF Authors, PendingSigned, Faulty
    <3>2. S \in SUBSET Validators
      BY PacemakerAssumption DEF Faulty
    <3>3. QED  BY <1>3, <3>1, <3>2, PacemakerAssumption DEF Backed
  <2> HIDE DEF c
  <2>8. GoodState(c, T)
    <3>1. c.timer = c.round /\ Authors(c.pending_timeouts) \notin Supermajority
      BY <2>3, NoEmptyQuorum
    <3>2. PendingSigned(c, T)
      BY <2>3 DEF PendingSigned
    <3>3. Backed(T, c.round - 1)
      <4>1. c.round - 1 = s.round
        BY <1>0, <2>3 DEF Rounds
      <4>2. QED  BY <2>7, <4>1
    <3>4. QED  BY <2>6, <3>1, <3>2, <3>3 DEF GoodState
  <2>9. QED  BY <2>8 DEF c
<1>4. CASE Authors(g.pending_timeouts) \notin Supermajority
  <2>1. c = g
    BY <1>4 DEF Collected
  <2>2. PendingSigned(g, T)
    BY <1>2 DEF PendingSigned
  <2>3. GoodState(g, T)
    BY <1>2, <1>4, <2>2 DEF GoodState
  <2>4. QED  BY <2>1, <2>3
<1>5. QED  BY <1>3, <1>4

\* A step of one node that signs at most the timeouts it broadcasts keeps the
\* invariant.
LEMMA NodeStep ==
    ASSUME PacemakerInv, NEW n \in Nodes, NEW s,
           node' = [node EXCEPT ![n] = s],
           timed_out \subseteq timed_out', timed_out' \subseteq Nodes \X Rounds,
           GoodState(s, timed_out'),
           \A m \in net' : m \in net \/ GoodMessage(m, timed_out'),
           panicked' = FALSE
    PROVE  PacemakerInv'
<1>1. s \in NodeState /\ node' \in [Nodes -> NodeState]
  BY DEF PacemakerInv, GoodState
<1>2. ASSUME NEW k \in Nodes PROVE GoodState(node'[k], timed_out')
  <2>1. CASE k = n
    BY <2>1 DEF PacemakerInv
  <2>2. CASE k # n
    BY <2>2, StateMono DEF PacemakerInv
  <2>3. QED  BY <2>1, <2>2
<1>3. \A m \in net' : GoodMessage(m, timed_out')
  BY MessageMono DEF PacemakerInv
<1>4. QED  BY <1>1, <1>2, <1>3 DEF PacemakerInv

\* handle_timeout_message keeps the invariant, for every message that verifies.
LEMMA MessageStep ==
    ASSUME PacemakerInv, NEW n \in Nodes, NEW m \in Message, NEW q \in 0..MaxRound - 1,
           m.src \in Nodes => <<m.src, m.round>> \in timed_out,
           m.cert_round + 1 = m.round,
           m.round > node[n].round /\ m.cert_tc => Backed(timed_out, m.cert_round),
           HandleTimeoutMessage(n, m, q)
    PROVE  PacemakerInv'
<1> DEFINE s0 == ProcessCertificate(node[n], q, FALSE)
           s1 == Caught(node[n], m, q)
           counted == m.round = s1.round /\ m.src \notin s1.invalid_timeout_senders
           s2 == IF counted
                 THEN [ s1 EXCEPT !.pending_timeouts =
                          {t \in @ : t[1] # m.src} \cup {<<m.src, m.good>>} ]
                 ELSE s1
           joins == /\ counted /\ s1.phase = "Zero"
                    /\ Authors(s2.pending_timeouts) \in HonestVote
           s3 == IF joins THEN LocalTimeoutRound(s2) ELSE s2
           ends == IF counted /\ s3.phase = "One"
                   THEN {Collected(s3, good) : good \in WithoutInvalid(s3)} ELSE {s3}
           old == IF JoinsOldRound(node[n], m, q) THEN {s0} ELSE {}
           new == IF joins THEN {s2} ELSE {}
<1>0. PICK s4 \in ends :
      /\ node' = [node EXCEPT ![n] = s4] /\ s4.round <= MaxRound
      /\ timed_out' = timed_out \cup {<<n, s.round>> : s \in old \cup new}
      /\ net' \subseteq (net \ {m}) \cup UNION {TimeoutMessages(n, s) : s \in old \cup new}
      /\ m.round > s1.round \/ panicked' = panicked
  BY DEF HandleTimeoutMessage, InFlight
<1>1. /\ m.src \in Validators /\ m.good \in BOOLEAN /\ m.cert_tc \in BOOLEAN
      /\ m.round \in Rounds /\ m.cert_round \in 0..MaxRound - 1 /\ MaxRound \in Nat
      /\ node[n].round \in Rounds
  BY PacemakerAssumption DEF Message, PacemakerInv, NodeState
<1>2. GoodState(s0, timed_out) /\ s0.round >= node[n].round
  BY CertOK DEF PacemakerInv
<1>3. (GoodState(s1, timed_out) /\ s1.round >= m.round) \/ ~(m.round > node[n].round)
  <2>1. CASE m.round > node[n].round
    <3>1. s1 = ProcessCertificate(s0, m.cert_round, m.cert_tc)
      BY <2>1 DEF Caught
    <3> HIDE DEF s0, s1
    <3>2. QED  BY <1>1, <1>2, <2>1, <3>1, CertOK DEF Rounds
  <2>2. QED  BY <2>1
<1>4. GoodState(s1, timed_out) /\ s1.round >= m.round
  <2>1. CASE ~(m.round > node[n].round)
    <3>1. s1 = s0
      BY <2>1 DEF Caught
    <3>2. s0.round \in Rounds
      BY <1>2 DEF GoodState, NodeState
    <3> HIDE DEF s0, s1
    <3>3. QED  BY <1>1, <1>2, <2>1, <3>1, <3>2 DEF Rounds
  <2>2. QED  BY <1>3, <2>1
<1> HIDE DEF s0, s1
<1>5. s1 \in NodeState /\ s1.round \in Rounds /\ s1.phase \in {"Zero", "One"}
  BY <1>4 DEF GoodState, NodeState
<1>6. /\ s2 \in NodeState /\ s2.round = s1.round /\ s2.timer = s1.timer /\ s2.by_tc = s1.by_tc
      /\ s2.phase = s1.phase /\ PendingSigned(s2, timed_out)
      /\ counted \/ s2 = s1
  <2>1. CASE counted
    <3> DEFINE P == {t \in s1.pending_timeouts : t[1] # m.src} \cup {<<m.src, m.good>>}
    <3>1. s2 = [s1 EXCEPT !.pending_timeouts = P]
      BY <2>1
    <3>2. P \in SUBSET (Validators \X BOOLEAN)
      BY <1>1, <1>5 DEF NodeState
    <3>3. \A t \in P : t[1] \in Nodes => <<t[1], s1.round>> \in timed_out
      BY <1>4, <2>1 DEF GoodState, PendingSigned
    <3> HIDE DEF P
    <3>4. s2.pending_timeouts = P /\ s2.round = s1.round
      BY <1>5, <3>1 DEF NodeState
    <3>5. s2 \in NodeState /\ s2.timer = s1.timer /\ s2.by_tc = s1.by_tc /\ s2.phase = s1.phase
      BY <1>5, <3>1, <3>2 DEF NodeState
    <3>6. QED  BY <2>1, <3>3, <3>4, <3>5 DEF PendingSigned
  <2>2. CASE ~counted
    BY <1>4, <1>5, <2>2 DEF GoodState
  <2>3. QED  BY <2>1, <2>2
<1>7. Backed(timed_out, s1.round - 1) \/ ~s1.by_tc
  BY <1>4 DEF GoodState
<1> HIDE DEF s2
<1>8. /\ s3 \in NodeState /\ s3.timer = s3.round /\ s3.round = s2.round /\ s3.by_tc = s2.by_tc
      /\ PendingSigned(s3, timed_out) /\ s3.pending_timeouts = s2.pending_timeouts
      /\ joins \/ s3 = s2
  <2>1. CASE joins
    <3>1. s3 = [s2 EXCEPT !.timer = s2.round, !.phase = "One"]
      BY <2>1 DEF LocalTimeoutRound
    <3>2. s2.round \in 0..MaxRound
      BY <1>1, <1>5, <1>6 DEF Rounds
    <3>3. s3 \in NodeState
      BY <1>6, <3>1, <3>2 DEF NodeState
    <3>4. QED  BY <1>6, <2>1, <3>1, <3>3 DEF NodeState, PendingSigned
  <2>2. CASE ~joins
    BY <1>4, <1>6, <2>2 DEF GoodState
  <2>3. QED  BY <2>1, <2>2
<1> HIDE DEF s3
<1>9. GoodState(s4, timed_out)
  <2>1. CASE counted /\ s3.phase = "One"
    <3>1. PICK good \in WithoutInvalid(s3) : s4 = Collected(s3, good)
      BY <2>1
    <3>2. QED  BY <1>0, <1>6, <1>7, <1>8, <3>1, CollectOK
  <2>2. CASE ~(counted /\ s3.phase = "One")
    <3>1. s4 = s3
      BY <2>2
    <3>2. Authors(s3.pending_timeouts) \notin Supermajority
      <4>1. CASE ~counted
        BY <1>4, <1>6, <1>8, <4>1 DEF GoodState
      <4>2. CASE counted
        <5>1. s3.phase # "One"
          BY <2>2, <4>2
        <5>2. ~joins
          BY <5>1, <1>6, <1>8 DEF s3, LocalTimeoutRound, NodeState
        <5>3. s3 = s2 /\ s1.phase = "Zero"
          BY <1>5, <1>6, <1>8, <5>1, <5>2
        <5>4. Authors(s2.pending_timeouts) \notin HonestVote
          BY <4>2, <5>2, <5>3
        <5>5. QED  BY <5>3, <5>4, PacemakerAssumption
      <4>3. QED  BY <4>1, <4>2
    <3>3. QED  BY <1>6, <1>7, <1>8, <3>1, <3>2 DEF GoodState
  <2>3. QED  BY <2>1, <2>2
<1> HIDE DEF ends, counted, joins
<1>10. ASSUME NEW s \in old \cup new
       PROVE  s \in NodeState /\ s.round \in Rounds /\ (s.by_tc => Backed(timed_out, s.round - 1))
  <2>1. CASE s = s0
    BY <1>2, <2>1 DEF GoodState, NodeState
  <2>2. CASE s = s2
    BY <1>5, <1>6, <1>7, <2>2
  <2>3. QED  BY <1>10, <2>1, <2>2
<1> HIDE DEF old, new
<1>11. timed_out \subseteq timed_out' /\ timed_out' \subseteq Nodes \X Rounds
  BY <1>0, <1>10 DEF PacemakerInv
<1>12. ASSUME NEW k \in net' PROVE k \in net \/ GoodMessage(k, timed_out')
  <2>1. CASE k \in net
    BY <2>1
  <2>2. CASE k \notin net
    <3>1. PICK s \in old \cup new : k \in TimeoutMessages(n, s)
      BY <1>0, <1>12, <2>2
    <3>2. <<n, s.round>> \in timed_out'
      BY <1>0
    <3>3. s.by_tc => Backed(timed_out', s.round - 1)
      BY <1>10, <1>11, BackedMono
    <3>4. QED  BY <1>10, <3>1, <3>2, <3>3, MessagesOK
  <2>3. QED  BY <2>1, <2>2
<1>13. panicked' = FALSE
  <2>1. ~(m.round > s1.round)
    BY <1>1, <1>4, <1>5 DEF Rounds
  <2>2. QED  BY <1>0, <2>1 DEF PacemakerInv
<1>14. GoodState(s4, timed_out')
  BY <1>9, <1>11, StateMono
<1>15. QED  BY <1>0, <1>11, <1>12, <1>13, <1>14, NodeStep

-----------------------------------------------------------------------------
LEMMA PacemakerInit == Init => PacemakerInv
<1> SUFFICES ASSUME Init PROVE PacemakerInv
  OBVIOUS
<1> DEFINE s == [ round |-> 1, by_tc |-> FALSE, phase |-> "Zero", pending_timeouts |-> {},
                  invalid_timeout_senders |-> {}, timer |-> 1 ]
<1>1. 1 \in Rounds /\ 1 \in 0..MaxRound
  BY PacemakerAssumption DEF Rounds
<1>2. s \in NodeState
  BY <1>1 DEF NodeState
<1>3. GoodState(s, timed_out)
  BY <1>2, NoEmptyQuorum DEF GoodState, PendingSigned
<1>4. node = [n \in Nodes |-> s] /\ timed_out = {} /\ net = {} /\ panicked = FALSE
  BY DEF Init
<1> HIDE DEF s
<1>5. QED  BY <1>2, <1>3, <1>4 DEF PacemakerInv

LEMMA PacemakerStep == PacemakerInv /\ [Next]_vars => PacemakerInv'
<1> SUFFICES ASSUME PacemakerInv, [Next]_vars PROVE PacemakerInv'
  OBVIOUS
<1>1. ASSUME NEW n \in Nodes, HandleTimeoutExpiry(n) PROVE PacemakerInv'
  <2> DEFINE s == [node[n] EXCEPT !.timer = 0]
             t == LocalTimeoutRound(s)
  <2>1. /\ node' = [node EXCEPT ![n] = t]
        /\ net' \subseteq net \cup TimeoutMessages(n, s)
        /\ timed_out' = timed_out \cup {<<n, s.round>>}
        /\ panicked' = panicked
    BY <1>1 DEF HandleTimeoutExpiry, InFlight
  <2>2. GoodState(node[n], timed_out) /\ node[n] \in NodeState /\ MaxRound \in Nat
    BY PacemakerAssumption DEF PacemakerInv
  <2>3. /\ s.round = node[n].round /\ s.round \in Rounds /\ s.round \in 0..MaxRound
        /\ s.by_tc = node[n].by_tc /\ s \in NodeState
        /\ s.pending_timeouts = node[n].pending_timeouts
    BY <2>2 DEF NodeState, Rounds
  <2> HIDE DEF s
  <2>4. t \in NodeState /\ t.round = s.round /\ t.timer = s.round /\ t.by_tc = s.by_tc
        /\ t.pending_timeouts = s.pending_timeouts
    BY <2>3 DEF LocalTimeoutRound, NodeState
  <2> HIDE DEF t
  <2>5. GoodState(t, timed_out)
    BY <2>2, <2>3, <2>4 DEF GoodState, PendingSigned
  <2>6. timed_out \subseteq timed_out' /\ timed_out' \subseteq Nodes \X Rounds
    BY <2>1, <2>3 DEF PacemakerInv
  <2>7. s.by_tc => Backed(timed_out', s.round - 1)
    BY <2>2, <2>3, <2>6, BackedMono DEF GoodState
  <2>8. \A m \in TimeoutMessages(n, s) : GoodMessage(m, timed_out')
    BY <2>1, <2>3, <2>7, MessagesOK
  <2>9. GoodState(t, timed_out') /\ panicked' = FALSE
    BY <2>1, <2>5, <2>6, StateMono DEF PacemakerInv
  <2>10. QED  BY <2>1, <2>6, <2>8, <2>9, NodeStep
<1>2. ASSUME NEW n \in Nodes, HandleCertificate(n) PROVE PacemakerInv'
  <2>1. PICK round \in node[n].round..MaxRound - 1, tc \in BOOLEAN :
           /\ Verified(round, tc)
           /\ node' = [node EXCEPT ![n] = ProcessCertificate(@, round, tc)]
           /\ net' \subseteq net /\ UNCHANGED <<timed_out, panicked>>
    BY <1>2 DEF HandleCertificate, InFlight
  <2>2. GoodState(node[n], timed_out) /\ node[n].round \in Rounds /\ MaxRound \in Nat
    BY PacemakerAssumption DEF PacemakerInv, NodeState
  <2>3. round \in 0..MaxRound - 1
    BY <2>2 DEF Rounds
  <2>4. tc => Backed(timed_out, round)
    BY <2>1 DEF Verified, TCExists, Backed
  <2>5. GoodState(ProcessCertificate(node[n], round, tc), timed_out)
    BY <2>2, <2>3, <2>4, CertOK
  <2>6. /\ timed_out' = timed_out /\ panicked' = FALSE /\ timed_out \subseteq Nodes \X Rounds
        /\ node' = [node EXCEPT ![n] = ProcessCertificate(node[n], round, tc)]
    BY <2>1 DEF PacemakerInv
  <2>7. QED  BY <2>1, <2>5, <2>6, NodeStep
<1>3. ASSUME NEW n \in Nodes, NEW src \in Nodes, Deliver(n, src) PROVE PacemakerInv'
  <2>1. PICK m \in net, q \in HighQCs(n) : HandleTimeoutMessage(n, m, q)
    BY <1>3 DEF Deliver
  <2>2. GoodMessage(m, timed_out)
    BY DEF PacemakerInv
  <2>3. q \in 0..MaxRound - 1
    BY PacemakerAssumption DEF HighQCs, PacemakerInv, NodeState, Rounds
  <2>4. QED  BY <2>1, <2>2, <2>3, MessageStep DEF GoodMessage
<1>4. ASSUME NEW n \in Nodes, DeliverFaulty(n) PROVE PacemakerInv'
  <2>1. PICK src \in Faulty, good \in BOOLEAN, tc \in BOOLEAN, round \in node[n].round..MaxRound,
             cert_round \in 0..MaxRound - 1, q \in HighQCs(n) :
           LET m == [ src |-> src, dst |-> n, good |-> good, round |-> round,
                      cert_round |-> cert_round, cert_tc |-> tc ]
           IN  /\ WellFormedTimeout(m)
               /\ round > node[n].round => Verified(cert_round, tc)
               /\ HandleTimeoutMessage(n, m, q)
    BY <1>4 DEF DeliverFaulty
  <2> DEFINE m == [ src |-> src, dst |-> n, good |-> good, round |-> round,
                    cert_round |-> cert_round, cert_tc |-> tc ]
  <2>2. node[n].round \in Rounds /\ MaxRound \in Nat
    BY PacemakerAssumption DEF PacemakerInv, NodeState
  <2>3. m \in Message
    BY <2>2 DEF Message, Faulty, Rounds
  <2>4. q \in 0..MaxRound - 1
    BY <2>2, PacemakerAssumption DEF HighQCs, Rounds
  <2>5. /\ m.src \notin Nodes /\ m.cert_round + 1 = m.round
        /\ m.round > node[n].round /\ m.cert_tc => Backed(timed_out, m.cert_round)
    BY <2>1 DEF Faulty, WellFormedTimeout, Verified, TCExists, Backed
  <2>6. HandleTimeoutMessage(n, m, q)
    BY <2>1
  <2> HIDE DEF m
  <2>7. QED  BY <2>3, <2>4, <2>5, <2>6, MessageStep
<1>5. CASE Lose
  BY <1>5 DEF Lose, PacemakerInv
<1>6. CASE UNCHANGED vars
  BY <1>6 DEF vars, PacemakerInv
<1>7. QED  BY <1>1, <1>2, <1>3, <1>4, <1>5, <1>6 DEF Next

LEMMA PacemakerInvariance == Spec => []PacemakerInv
BY PacemakerInit, PacemakerStep, PTL DEF Spec

\* The nodes keep what their types say.
THEOREM PacemakerTypeCorrect == Spec => []TypeOK
<1>1. PacemakerInv => TypeOK
  BY DEF PacemakerInv, TypeOK, GoodMessage
<1>2. QED  BY <1>1, PacemakerInvariance, PTL

\* The assertion of process_remote_timeout never fails.
THEOREM RemoteTimeoutNeverPanics == Spec => []NeverPanics
<1>1. PacemakerInv => NeverPanics
  BY DEF PacemakerInv, NeverPanics
<1>2. QED  BY <1>1, PacemakerInvariance, PTL

\* Every TC a node acts on was signed by a supermajority.
THEOREM TCsBacked == Spec => []TCsAreBacked
<1>1. PacemakerInv => TCsAreBacked
  BY DEF PacemakerInv, TCsAreBacked, GoodState, Backed, TCExists
<1>2. QED  BY <1>1, PacemakerInvariance, PTL

\* No node sits on a supermajority of timeouts.
THEOREM QuorumActedOn == Spec => []NeverSitsOnQuorum
<1>1. PacemakerInv => NeverSitsOnQuorum
  BY DEF PacemakerInv, NeverSitsOnQuorum, GoodState
<1>2. QED  BY <1>1, PacemakerInvariance, PTL

\* The timer of the current round is always running.
THEOREM TimerAlwaysArmed == Spec => []RoundTimerArmed
<1>1. PacemakerInv => RoundTimerArmed
  BY DEF PacemakerInv, RoundTimerArmed, GoodState
<1>2. QED  BY <1>1, PacemakerInvariance, PTL

-----------------------------------------------------------------------------
(* Vote pacing.                                                            *)

\* The scheduled vote is newer than everything sent, and Safety has recorded it.
ReadyIsNewest ==
    scheduled_vote.status = "VoteReady" =>
        /\ scheduled_vote.round <= highest_vote
        /\ \A i \in 1..Len(sent) : sent[i] < scheduled_vote.round

\* Safety has recorded every vote that was sent, and is never ahead of the round.
SentIsRecorded ==
    /\ highest_vote <= current_round
    /\ \A i \in 1..Len(sent) : sent[i] <= highest_vote

PacingInv ==
    /\ PacingTypeOK
    /\ SentIsRecorded
    /\ ReadyIsNewest
    /\ SentInOrder
    /\ TimerArmed
    /\ VoteNeverPanics

\* A vote that is newer than everything sent may be sent.
LEMMA SendOK ==
    ASSUME PacingTypeOK, SentInOrder, NEW r \in VoteRounds, SendVote(r), highest_vote' \in VoteRounds,
           r <= highest_vote', highest_vote' <= current_round',
           \A i \in 1..Len(sent) : sent[i] < r
    PROVE  /\ scheduled_vote' \in OutgoingVoteStatus
           /\ timer' \in 0..LastRound + 1 /\ sent' \in Seq(VoteRounds)
           /\ SentIsRecorded' /\ ReadyIsNewest' /\ SentInOrder' /\ TimerArmed'
<1>1. /\ sent' = Append(sent, r) /\ sent \in Seq(VoteRounds)
      /\ scheduled_vote' = NoVote /\ timer' = r + 1
  BY DEF SendVote, PacingTypeOK
<1>2. /\ sent' \in Seq(VoteRounds) /\ Len(sent') = Len(sent) + 1 /\ Len(sent) \in Nat
      /\ \A i \in 1..Len(sent) : sent'[i] = sent[i] /\ sent[i] \in VoteRounds
      /\ sent'[Len(sent) + 1] = r
  BY <1>1
<1>3. scheduled_vote' \in OutgoingVoteStatus /\ timer' \in 0..LastRound + 1 /\ timer' # 0
  BY <1>1, PacingAssumption DEF OutgoingVoteStatus, VoteRounds
<1>4. SentIsRecorded'
  <2>1. ASSUME NEW i \in 1..Len(sent') PROVE sent'[i] <= r
    BY <1>2, <2>1 DEF VoteRounds
  <2>2. \A i \in 1..Len(sent') : sent'[i] \in VoteRounds
    BY <1>2
  <2>3. QED  BY <2>1, <2>2, PacingAssumption DEF SentIsRecorded, VoteRounds
<1>5. ReadyIsNewest' /\ TimerArmed'
  BY <1>1, <1>3 DEF ReadyIsNewest, TimerArmed, NoVote
<1>6. SentInOrder'
  BY <1>2 DEF SentInOrder, VoteRounds
<1>7. QED  BY <1>2, <1>3, <1>4, <1>5, <1>6

LEMMA PacingInitInv == PacingInit => PacingInv
<1> SUFFICES ASSUME PacingInit PROVE PacingInv
  OBVIOUS
<1>1. 1 \in VoteRounds /\ 0 \in 0..LastRound + 1
  BY PacingAssumption DEF VoteRounds
<1>2. sent = <<>> /\ Len(sent) = 0 /\ sent \in Seq(VoteRounds)
  BY DEF PacingInit
<1>3. PacingTypeOK
  BY <1>1, <1>2 DEF PacingInit, PacingTypeOK, OutgoingVoteStatus
<1>4. SentIsRecorded /\ SentInOrder
  BY <1>2 DEF PacingInit, SentIsRecorded, SentInOrder
<1>5. ReadyIsNewest /\ TimerArmed /\ VoteNeverPanics
  BY DEF PacingInit, ReadyIsNewest, TimerArmed, VoteNeverPanics, TimerFired
<1>6. QED  BY <1>3, <1>4, <1>5 DEF PacingInv

\* The shape of a scheduled vote.
LEMMA ReadyShape ==
    ASSUME PacingTypeOK, scheduled_vote.status = "VoteReady"
    PROVE  scheduled_vote.round \in VoteRounds
BY DEF PacingTypeOK, OutgoingVoteStatus, NoVote, TimerFired, VoteReady

LEMMA PacingStep == PacingInv /\ [PacingNext]_pacing_vars => PacingInv'
<1> SUFFICES ASSUME PacingInv, [PacingNext]_pacing_vars PROVE PacingInv'
  OBVIOUS
<1> USE PacingAssumption
<1>0. /\ PacingTypeOK /\ SentInOrder /\ SentIsRecorded /\ ReadyIsNewest /\ TimerArmed /\ VoteNeverPanics
      /\ current_round \in VoteRounds /\ highest_vote \in VoteRounds
      /\ \A i \in 1..Len(sent) : sent[i] \in VoteRounds
  BY DEF PacingInv, PacingTypeOK
<1>1. ASSUME NEW consecutive \in BOOLEAN, TryVote(consecutive)
      PROVE  PacingInv'
  <2>1. /\ current_round' = current_round /\ highest_vote' = current_round
        /\ expired' = expired /\ current_round > highest_vote
    BY <1>1 DEF TryVote, SafeToVote
  <2>2. ~(scheduled_vote.status = "VoteReady" /\ scheduled_vote.round >= current_round)
    BY <1>0, <2>1, ReadyShape DEF ReadyIsNewest, VoteRounds
  <2>3. \A i \in 1..Len(sent) : sent[i] < current_round
    BY <1>0, <2>1 DEF SentIsRecorded, VoteRounds
  <2>4. vote_panicked' = vote_panicked
    BY <1>1, <2>2 DEF TryVote
  <2>5. CASE SendVote(current_round)
    <3>1. /\ scheduled_vote' \in OutgoingVoteStatus
          /\ timer' \in 0..LastRound + 1 /\ sent' \in Seq(VoteRounds)
          /\ SentIsRecorded' /\ ReadyIsNewest' /\ SentInOrder' /\ TimerArmed'
      BY <1>0, <2>1, <2>3, <2>5, SendOK DEF VoteRounds
    <3>2. QED  BY <1>0, <2>1, <2>4, <3>1 DEF PacingInv, PacingTypeOK, VoteNeverPanics
  <2>6. CASE /\ scheduled_vote' = VoteReady(current_round) /\ UNCHANGED <<timer, sent>>
             /\ scheduled_vote.status # "TimerFired"
    <3>1. PacingTypeOK'
      BY <1>0, <2>1, <2>4, <2>6 DEF PacingTypeOK, OutgoingVoteStatus
    <3>2. SentIsRecorded' /\ ReadyIsNewest'
      BY <1>0, <2>1, <2>3, <2>6 DEF SentIsRecorded, ReadyIsNewest, VoteReady, VoteRounds
    <3>3. SentInOrder' /\ TimerArmed' /\ VoteNeverPanics'
      BY <1>0, <2>1, <2>4, <2>6 DEF SentInOrder, TimerArmed, VoteNeverPanics
    <3>4. QED  BY <3>1, <3>2, <3>3 DEF PacingInv
  <2>7. QED  BY <1>1, <2>2, <2>5, <2>6 DEF TryVote
<1>2. CASE HandleVoteTimer
  <2>1. /\ UNCHANGED <<current_round, highest_vote, vote_panicked>>
        /\ expired' \subseteq expired
    BY <1>2 DEF HandleVoteTimer
  <2>2. CASE scheduled_vote.status = "VoteReady"
    <3>1. /\ SendVote(scheduled_vote.round) /\ scheduled_vote.round \in VoteRounds
      BY <1>0, <1>2, <2>2, ReadyShape DEF HandleVoteTimer
    <3>2. /\ scheduled_vote' \in OutgoingVoteStatus
          /\ timer' \in 0..LastRound + 1 /\ sent' \in Seq(VoteRounds)
          /\ SentIsRecorded' /\ ReadyIsNewest' /\ SentInOrder' /\ TimerArmed'
      BY <1>0, <2>1, <2>2, <3>1, SendOK DEF ReadyIsNewest, SentIsRecorded
    <3>3. QED  BY <1>0, <2>1, <3>2 DEF PacingInv, PacingTypeOK, VoteNeverPanics
  <2>3. CASE scheduled_vote.status # "VoteReady"
    <3>1. scheduled_vote' = TimerFired /\ UNCHANGED <<timer, sent>>
      BY <1>2, <2>3 DEF HandleVoteTimer
    <3>2. QED
      BY <1>0, <2>1, <3>1
         DEF PacingInv, PacingTypeOK, VoteNeverPanics, SentIsRecorded, ReadyIsNewest, SentInOrder,
             TimerArmed, OutgoingVoteStatus, TimerFired
  <2>4. QED  BY <2>2, <2>3
<1>3. CASE TimerExpires
  BY <1>0, <1>3
     DEF TimerExpires, PacingInv, PacingTypeOK, VoteNeverPanics, SentIsRecorded, ReadyIsNewest,
         SentInOrder, TimerArmed
<1>4. CASE EnterRound
  BY <1>0, <1>4
     DEF EnterRound, PacingInv, PacingTypeOK, VoteNeverPanics, SentIsRecorded, ReadyIsNewest,
         SentInOrder, TimerArmed, VoteRounds
<1>5. CASE Timeout
  <2>1. ReadyIsNewest'
    BY <1>0, <1>5, ReadyShape DEF Timeout, ReadyIsNewest, SentIsRecorded, VoteRounds
  <2>2. QED
    BY <1>0, <1>5, <2>1
       DEF Timeout, PacingInv, PacingTypeOK, VoteNeverPanics, SentIsRecorded, SentInOrder,
           TimerArmed, VoteRounds
<1>6. CASE UNCHANGED pacing_vars
  BY <1>0, <1>6
     DEF pacing_vars, PacingInv, PacingTypeOK, VoteNeverPanics, SentIsRecorded, ReadyIsNewest, SentInOrder,
         TimerArmed
<1>7. QED  BY <1>1, <1>2, <1>3, <1>4, <1>5, <1>6 DEF PacingNext

LEMMA PacingInvariance == PacingSpec => []PacingInv
BY PacingInitInv, PacingStep, PTL DEF PacingSpec

\* try_vote never reaches its panic.
THEOREM TryVoteNeverPanics == PacingSpec => []VoteNeverPanics
<1>1. PacingInv => VoteNeverPanics
  BY DEF PacingInv
<1>2. QED  BY <1>1, PacingInvariance, PTL

\* No vote is sent twice, and none after a vote of a later round.
THEOREM VotesLeaveInOrder == PacingSpec => []SentInOrder
<1>1. PacingInv => SentInOrder
  BY DEF PacingInv
<1>2. QED  BY <1>1, PacingInvariance, PTL

\* Unless the vote timer has fired, it is running or its event is on the way.
THEOREM PacingNeverStalls == PacingSpec => []TimerArmed
<1>1. PacingInv => TimerArmed
  BY DEF PacingInv
<1>2. QED  BY <1>1, PacingInvariance, PTL

=============================================================================
