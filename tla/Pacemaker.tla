------------------------------- MODULE Pacemaker -------------------------------
(***************************************************************************)
(* How validators leave a round that produces no QC                        *)
(* (consensus/src/pacemaker.rs, with the handlers of                       *)
(* consensus-state/src/lib.rs that drive it and the round timer of         *)
(* updaters/src/timer.rs): round timers, timeout messages that may be lost *)
(* any number of times, joining at f + 1, collecting a TC and throwing out *)
(* bad signatures, and catching up from the certificate a timeout carries. *)
(*                                                                         *)
(* Nodes are the validators that run this code; any other validator may    *)
(* send any message that verifies, at any time, or none at all.            *)
(***************************************************************************)
EXTENDS Integers, FiniteSets

CONSTANTS
    Validators, Nodes,
    HonestVote,      \* the sets that has_honest_vote accepts (f + 1)
    Supermajority,   \* the sets that has_super_majority_votes accepts (2f + 1)
    MaxRound         \* bound: the last round that is entered

ASSUME PacemakerAssumption ==
    /\ Nodes \subseteq Validators
    /\ HonestVote \subseteq SUBSET Validators
    /\ Supermajority \subseteq HonestVote
    /\ \A Q \in HonestVote : Q \cap Nodes # {}
    /\ \A Q \in Supermajority, R \in SUBSET Validators : Q \subseteq R => R \in Supermajority
    /\ MaxRound \in Nat \ {0}

Rounds == 1..MaxRound
Faulty == Validators \ Nodes

VARIABLES
    node,        \* the Pacemaker of each node, and its round timer
    net,         \* timeout messages in flight
    timed_out,   \* history: <<node, round>> timeouts signed by nodes
    panicked     \* the assertion of process_remote_timeout failed

vars == <<node, net, timed_out, panicked>>

\* by_tc: the high certificate, of the round before, is a TC.  timer is the round
\* of the running timer, 0 when none runs.
NodeState ==
    [ round : Rounds, by_tc : BOOLEAN, phase : {"Zero", "One"},
      pending_timeouts : SUBSET (Validators \X BOOLEAN),  \* author, good signature
      invalid_timeout_senders : SUBSET Validators,
      timer : 0..MaxRound ]

\* cert_round and cert_tc describe the certificate that proves the round.
Message ==
    [ src : Validators, dst : Nodes, good : BOOLEAN, round : Rounds,
      cert_round : 0..MaxRound - 1, cert_tc : BOOLEAN ]

Authors(pending) == {t[1] : t \in pending}
BadSenders(pending) == {t[1] : t \in {u \in pending : ~u[2]}}

-----------------------------------------------------------------------------
\* Mutant: the timeouts that were collected survive the change of round.
ProcessCertificate_KeepsPending(s, round, tc) ==
    IF round < s.round THEN s
    ELSE [ s EXCEPT !.round = round + 1, !.by_tc = tc, !.phase = "Zero",
                    !.invalid_timeout_senders = {}, !.timer = round + 1 ]

\* Pacemaker::process_certificate behind process_qc and process_tc.
ProcessCertificate(s, round, tc) ==
    IF round < s.round THEN s
    ELSE [ s EXCEPT !.round = round + 1, !.by_tc = tc, !.phase = "Zero",
                    !.pending_timeouts = {}, !.invalid_timeout_senders = {},
                    !.timer = round + 1 ]

\* Mutant: the round timer is not started again.
LocalTimeoutRound_Once(s) == [s EXCEPT !.timer = 0, !.phase = "One"]

\* process_local_timeout, and the same in process_remote_timeout: the timer is
\* started again, so that the timeout will be sent again.
LocalTimeoutRound(s) == [s EXCEPT !.timer = s.round, !.phase = "One"]

\* The timeout of node n in state s, broadcast.
TimeoutMessages(n, s) ==
    { [src |-> n, dst |-> d, good |-> TRUE, round |-> s.round,
       cert_round |-> s.round - 1, cert_tc |-> s.by_tc] : d \in Nodes }

\* The messages that can still have an effect: handle_timeout_message drops those of
\* a round that the receiver has left.
InFlight(messages) == {m \in messages : m.round >= node'[m.dst].round}

\* A TC of the round can exist: every faulty validator's signature is to be had.
TCExists(round) == {n \in Nodes : <<n, round>> \in timed_out} \cup Faulty \in Supermajority

\* A QC of the round can exist: a supermajority may have voted in it.
QCExists(round) ==
    round = 0 \/ {n \in Nodes : node[n].round >= round} \cup Faulty \in Supermajority

Verified(round, tc) == IF tc THEN TCExists(round) ELSE QCExists(round)

\* Mutant: an older certificate is accepted as a proof of the round.
WellFormedTimeout_AnyRound(m) == m.cert_round < m.round

\* TimeoutMessage::well_formed_timeout
WellFormedTimeout(m) == m.cert_round + 1 = m.round

\* Every node has entered the first round with a QC.
Init ==
    /\ node = [n \in Nodes |->
                 [ round |-> 1, by_tc |-> FALSE, phase |-> "Zero", pending_timeouts |-> {},
                   invalid_timeout_senders |-> {}, timer |-> 1 ]]
    /\ net = {}
    /\ timed_out = {}
    /\ panicked = FALSE

-----------------------------------------------------------------------------
\* The round timer runs out: handle_timeout_expiry.  (The event of a timer that
\* was replaced after it ran out is ignored if its round was left, and else is
\* what an expiry of the new timer would be.)
HandleTimeoutExpiry(n) ==
    LET s == [node[n] EXCEPT !.timer = 0] IN
    /\ node[n].timer = s.round
    /\ node' = [node EXCEPT ![n] = LocalTimeoutRound(s)]
    /\ net' = InFlight(net \cup TimeoutMessages(n, s))
    /\ timed_out' = timed_out \cup {<<n, s.round>>}
    /\ UNCHANGED panicked

\* A QC or TC that arrives with a proposal, a round recovery or an AdvanceRound
\* message, or a QC from votes, the one that a timeout carries included.
HandleCertificate(n) ==
    \E round \in node[n].round..MaxRound - 1, tc \in BOOLEAN :
        /\ Verified(round, tc)
        /\ node' = [node EXCEPT ![n] = ProcessCertificate(@, round, tc)]
        /\ net' = InFlight(net)
        /\ UNCHANGED <<timed_out, panicked>>

\* What handle_timeout_message makes of the certificates of message m: first the
\* QC of its high extend, of round q, then, if the node is still behind, the
\* certificate of the round before.
Caught(s, m, q) ==
    IF m.round > s.round
    THEN ProcessCertificate(ProcessCertificate(s, q, FALSE), m.cert_round, m.cert_tc)
    ELSE ProcessCertificate(s, q, FALSE)

\* A TC of the very round the node is in makes it time that round out before it
\* leaves it: the state it does that in.
JoinsOldRound(s, m, q) ==
    /\ m.round > s.round /\ m.cert_tc
    /\ ProcessCertificate(s, q, FALSE).round = m.cert_round

\* Mutant: a quorum that is left over once the bad signatures are thrown out has
\* to wait for another timeout.
Collected_OneTry(s, good) ==
    IF /\ Authors(s.pending_timeouts) \in Supermajority
       /\ BadSenders(s.pending_timeouts) = {}
    THEN ProcessCertificate(s, s.round, TRUE) ELSE good

\* The loop of process_remote_timeout, where good is s once handle_invalid_timeout
\* has thrown bad signatures out: the TC is created if enough are left.
Collected(s, good) ==
    IF Authors(good.pending_timeouts) \in Supermajority
    THEN ProcessCertificate(s, s.round, TRUE) ELSE good

\* What handle_invalid_timeout leaves of a set that reached a supermajority.  The
\* signatures are verified in groups that time out with the same tip and QC: the
\* bad ones go group by group, as long as a supermajority is left.
WithoutInvalid(s) ==
    LET bad      == BadSenders(s.pending_timeouts)
        enough   == Authors(s.pending_timeouts) \in Supermajority
        Removals == {R \in SUBSET bad : R = bad \/ (R # {} /\ Authors(s.pending_timeouts) \ R \notin Supermajority)}
    IN  { [ s EXCEPT !.pending_timeouts = {t \in @ : t[1] \notin R},
                     !.invalid_timeout_senders = @ \cup R ] : R \in IF enough THEN Removals ELSE {{}} }

\* handle_timeout_message and process_remote_timeout for message m, whose high
\* extend has the QC of round q.
HandleTimeoutMessage(n, m, q) ==
    LET s0       == ProcessCertificate(node[n], q, FALSE)
        s1       == Caught(node[n], m, q)
        counted  == m.round = s1.round /\ m.src \notin s1.invalid_timeout_senders
        s2       == IF counted
                    THEN [ s1 EXCEPT !.pending_timeouts =
                             {t \in @ : t[1] # m.src} \cup {<<m.src, m.good>>} ]
                    ELSE s1
        joins    == /\ counted /\ s1.phase = "Zero"
                    /\ Authors(s2.pending_timeouts) \in HonestVote
        s3       == IF joins THEN LocalTimeoutRound(s2) ELSE s2
        ends     == IF counted /\ s3.phase = "One"
                    THEN {Collected(s3, good) : good \in WithoutInvalid(s3)} ELSE {s3}
        old      == IF JoinsOldRound(node[n], m, q) THEN {s0} ELSE {}
        new      == IF joins THEN {s2} ELSE {}
    IN  /\ m.round >= node[n].round
        /\ q < m.round /\ QCExists(q)
        /\ \E s4 \in ends :
             /\ s4.round <= MaxRound
             /\ node' = [node EXCEPT ![n] = s4]
        /\ timed_out' = timed_out \cup {<<n, s.round>> : s \in old \cup new}
        /\ net' = InFlight((net \ {m}) \cup UNION {TimeoutMessages(n, s) : s \in old \cup new})
        /\ IF m.round > s1.round THEN panicked' = TRUE ELSE UNCHANGED panicked

\* Rounds of the QC in a high extend; node n ignores any that is older than its
\* round, 0 stands for them.
HighQCs(n) == {0} \cup node[n].round..MaxRound - 1

\* A timeout of a node arrives, perhaps its own.
Deliver(n, src) ==
    \E m \in {x \in net : x.src = src /\ x.dst = n} :
        \E q \in HighQCs(n) : HandleTimeoutMessage(n, m, q)

\* A faulty validator's timeout arrives: its certificates verify, its own
\* signature may be bad.  (validate drops the certificate of a timeout of the
\* current round without a look at it, so it does not matter which one that is.)
DeliverFaulty(n) ==
    \E src \in Faulty, good, tc \in BOOLEAN, round \in node[n].round..MaxRound,
       cert_round \in 0..MaxRound - 1, q \in HighQCs(n) :
        LET m == [ src |-> src, dst |-> n, good |-> good, round |-> round,
                   cert_round |-> cert_round, cert_tc |-> tc ]
        IN  /\ WellFormedTimeout(m)
            /\ IF round > node[n].round THEN Verified(cert_round, tc) ELSE ~tc
            /\ HandleTimeoutMessage(n, m, q)

\* The network loses a message; what a node sends itself stays in its router
\* (raptorcast/src/lib.rs, enqueue_message_to_self).
Lose ==
    \E m \in net :
        /\ m.src # m.dst
        /\ net' = net \ {m}
        /\ UNCHANGED <<node, timed_out, panicked>>

Next ==
    /\ ~panicked
    /\ \/ \E n \in Nodes :
             \/ HandleTimeoutExpiry(n) \/ HandleCertificate(n)
             \/ \E src \in Nodes : Deliver(n, src)
             \/ DeliverFaulty(n)
       \/ Lose

\* Timers run out, what a node sends itself arrives, and a message that is sent
\* again and again to another arrives in the end.
Fairness ==
    \A n \in Nodes :
        /\ WF_vars(HandleTimeoutExpiry(n))
        /\ WF_vars(Deliver(n, n))
        /\ \A src \in Nodes \ {n} : SF_vars(Deliver(n, src))

Spec == Init /\ [][Next]_vars /\ Fairness

-----------------------------------------------------------------------------
\* What the nodes keep, and that a node only sends timeouts of its own rounds.
TypeOK ==
    /\ node \in [Nodes -> NodeState]
    /\ net \subseteq Message
    /\ timed_out \subseteq Nodes \X Rounds
    /\ panicked \in BOOLEAN

\* The assertion of process_remote_timeout holds: the certificates of a timeout
\* that verified have taken the node to the timeout's round.
NeverPanics == ~panicked

\* A TC that takes a node to its round, received or created from its own
\* collection, was signed by a supermajority: the nodes among them did time the
\* round out, and faulty validators signed for themselves only.
TCsAreBacked == \A n \in Nodes : node[n].by_tc => TCExists(node[n].round - 1)

\* A node never sits on a supermajority of timeouts: the bad signatures are
\* thrown out at once, and if the others are enough the round is left.
NeverSitsOnQuorum ==
    \A n \in Nodes : Authors(node[n].pending_timeouts) \notin Supermajority

\* The timer that is running is that of the current round, whichever mix of
\* expiry, joining and certificates led here.
RoundTimerArmed == \A n \in Nodes : node[n].timer = node[n].round

\* Every node reaches every round in the end, although no QC need form and any
\* message may be lost any number of times.
RoundsAreReached == <>(\A n \in Nodes : node[n].round = MaxRound)

=============================================================================
