-------------------------------- MODULE KinetBFT --------------------------------
(***************************************************************************)
(* The voting protocol of kinet: what every honest validator's Safety      *)
(* (consensus/src/validation/safety.rs) and Pacemaker                      *)
(* (consensus/src/pacemaker.rs) do when the handlers of                    *)
(* consensus-state/src/lib.rs run, and which certificates the stateless    *)
(* checks of consensus/src/validation/signing.rs accept.                   *)
(*                                                                         *)
(* A certificate is not a message of the model: it exists as soon as the   *)
(* signatures for it exist.  The sets of votes, timeouts and               *)
(* no-endorsements signed by honest validators only grow, a faulty         *)
(* validator's signature is always available, and every handler may be     *)
(* given any certificate or proposal that verifies.  Loss, delay,          *)
(* duplication and reordering of messages, equivocation and withholding by *)
(* faulty leaders are therefore all behaviours of this specification.  No  *)
(* leader is trusted: whatever well-formed proposal verifies may arrive.   *)
(***************************************************************************)
EXTENDS Integers, FiniteSets

CONSTANTS
    Validators, Honest,  \* the validator set; the members that run this code
    Supermajority,       \* the sets that has_super_majority_votes accepts
    MaxRound,            \* bound: the last round that is entered
    Block, GENESIS,      \* block identifiers (ConsensusBlockHeader::get_id)
    block_round,         \* block -> the round it was first proposed in
    qc_round, parent,    \* block -> round and block of the QC in its header
    ancestors,           \* block -> itself and everything it extends
    NoTip,               \* stands for an absent tip
    MaxRestarts          \* bound: how many validators restart, any number of times

Rounds == 1..MaxRound

ASSUME BFTAssumption ==
    /\ Honest \subseteq Validators
    /\ Supermajority \subseteq SUBSET Validators
    /\ \A Q \in Supermajority, R \in SUBSET Validators : Q \subseteq R => R \in Supermajority
    /\ \A Q1, Q2 \in Supermajority : Q1 \cap Q2 \cap Honest # {}
    /\ MaxRound \in Nat \ {0}
    /\ MaxRestarts \in Nat

ASSUME ChainAssumption ==
    /\ GENESIS \in Block
    /\ NoTip \notin Block
    /\ block_round \in [Block -> Nat]
    /\ qc_round \in [Block -> Nat]
    /\ parent \in [Block -> Block]
    /\ ancestors \in [Block -> SUBSET Block]
    /\ \A b \in Block \ {GENESIS} :
          /\ qc_round[b] < block_round[b]
          /\ ancestors[b] = {b} \cup ancestors[parent[b]]
    /\ block_round[GENESIS] = 0 /\ qc_round[GENESIS] = 0
    /\ ancestors[GENESIS] = {GENESIS}

Byzantine == Validators \ Honest

-----------------------------------------------------------------------------
\* HighExtend: a tip, or a QC when tip = NoTip.  The QC of a tip is the one in
\* its header (HighExtend::qc).
HighExtend == [tip : Block \cup {NoTip}, qc_round : Nat, qc_block : Block]
TipExtend(b) == [tip |-> b, qc_round |-> qc_round[b], qc_block |-> parent[b]]
QcExtend(r, b) == [tip |-> NoTip, qc_round |-> r, qc_block |-> b]

\* RoundCertificate: what advanced a node to round + 1, with the QC it holds
\* (RoundCertificate::qc), which is the certificate itself when its round is that
\* one.  Only a proposer looks at the tip that a TC holds besides.
Certificate == [round : 0..MaxRound - 1, qc_round : Nat, qc_block : Block]
QcCertificate(r, b) == [round |-> r, qc_round |-> r, qc_block |-> b]
TcCertificate(r, ext) == [round |-> r, qc_round |-> ext.qc_round, qc_block |-> ext.qc_block]

\* HighExtendRank::cmp: by the round of the tip or of the QC; a QC ranks above a
\* tip of its round, two tips of one round are ranked by their QCs.
RankRound(e) == IF e.tip = NoTip THEN e.qc_round ELSE block_round[e.tip]
RankLeq(e, f) ==
    \/ RankRound(e) < RankRound(f)
    \/ /\ RankRound(e) = RankRound(f)
       /\ \/ f.tip = NoTip
          \/ e.tip # NoTip /\ e.qc_round <= f.qc_round
RankEq(e, f) == RankLeq(e, f) /\ RankLeq(f, e)

-----------------------------------------------------------------------------
VARIABLES
    node,             \* what each honest validator remembers
    votes,            \* <<validator, round, block>> signed by honest validators
    timeouts,         \* <<validator, round, high_extend>> signed by them
    no_endorsements,  \* <<validator, round, tip_qc_round>> signed by them
    forkpoints,       \* validator -> the certificates it checkpointed since its start
    restarted,        \* the validators that have restarted
    behind            \* those that restarted from an older certificate than they held

vars == <<node, votes, timeouts, no_endorsements, forkpoints, restarted, behind>>

NodeState ==
    [ high_certificate          : Certificate,
      maybe_high_tip            : (Block \ {GENESIS}) \cup {NoTip},
      high_certificate_qc_round : Nat,
      highest_vote              : 0..MaxRound,
      highest_no_endorse        : 0..MaxRound,
      no_endorse_tip            : Block ]

CurrentRound(s) == s.high_certificate.round + 1

\* Safety::new and Pacemaker::new from the certificate of a forkpoint: the high
\* tip is not restored, and the current round is never voted or no-endorsed.
Restored(cert) ==
    [ high_certificate          |-> cert,
      maybe_high_tip            |-> NoTip,
      high_certificate_qc_round |-> cert.qc_round,
      highest_vote              |-> cert.round + 1,
      highest_no_endorse        |-> cert.round + 1,
      no_endorse_tip            |-> GENESIS ]

\* A validator that process_certificate has just taken past the QC of GENESIS.
Settled ==
    [ Restored(QcCertificate(0, GENESIS)) EXCEPT
        !.highest_vote = 0, !.highest_no_endorse = 0 ]

\* Either the network starts from the genesis forkpoint, so that everybody times
\* out the first round at once, or rounds are counted from a block whose QC every
\* validator holds.
Init ==
    /\ \/ /\ node = [n \in Honest |-> Restored(QcCertificate(0, GENESIS))]
          /\ timeouts = Honest \X {1} \X {QcExtend(0, GENESIS)}
       \/ node = [n \in Honest |-> Settled] /\ timeouts = {}
    /\ votes = {}
    /\ no_endorsements = {}
    /\ forkpoints = [n \in Honest |-> {QcCertificate(0, GENESIS)}]
    /\ restarted = {}
    /\ behind = {}

-----------------------------------------------------------------------------
(* Certificates that verify. *)

\* A supermajority signed: these honest validators and any faulty ones.
Signed(signers) == signers \cup Byzantine \in Supermajority

\* verify_qc
Certified(r, b) ==
    \/ r = 0 /\ b = GENESIS
    \/ Signed({n \in Honest : <<n, r, b>> \in votes})

\* verify_nec: the certificate names the round of the tip's QC, not the tip.
NoEndorsed(r, q) == Signed({n \in Honest : <<n, r, q>> \in no_endorsements})

\* The signatures of verify_tc: a supermajority timed out the round, and the
\* highest rank among the signed ones is that of ext.
TimedOut(r, ext) ==
    LET reports == {t \in timeouts : t[2] = r /\ RankLeq(t[3], ext)}
    IN  /\ Signed({t[1] : t \in reports})
        /\ Byzantine # {} \/ \E t \in reports : RankEq(t[3], ext)

\* verify_tip: a fresh block follows its QC directly, or comes with an NEC of
\* its round, or with the TC of the round before whose highest extend is a QC.
ValidTip(b) ==
    /\ b # GENESIS
    /\ Certified(qc_round[b], parent[b])
    /\ \/ block_round[b] = qc_round[b] + 1
       \/ NoEndorsed(block_round[b], qc_round[b])
       \/ /\ qc_round[b] < block_round[b] - 1
          /\ TimedOut(block_round[b] - 1, QcExtend(qc_round[b], parent[b]))

\* verify_high_extend
ValidExtend(e) ==
    IF e.tip = NoTip THEN Certified(e.qc_round, e.qc_block)
    ELSE ValidTip(e.tip) /\ e = TipExtend(e.tip)

\* verify_tc for a TC of round r that carries ext.
ValidTC(r, ext) == ext.qc_round < r /\ ValidExtend(ext) /\ TimedOut(r, ext)

\* Every extend there can be.
Extends == {TipExtend(b) : b \in Block \ {GENESIS}}
             \cup {QcExtend(r, b) : r \in 0..MaxRound, b \in Block}

\* ProposalMessage::well_formed_proposal for a proposal with the TC of the round before.
WellFormedWithTC(r, b, ext) ==
    /\ r # qc_round[b] + 1
    /\ ext.qc_round = qc_round[b]
    /\ ext.tip # NoTip => (ext.tip = b \/ block_round[b] = r)

-----------------------------------------------------------------------------
(* What the handlers do to a node. *)

\* Pacemaker::process_certificate with Safety::process_certificate; process_qc
\* and process_tc ignore the same old certificates.
ProcessCertificate(s, cert) ==
    IF cert.round <= s.high_certificate.round THEN s
    ELSE LET q == IF cert.qc_round > s.high_certificate_qc_round
                  THEN cert.qc_round ELSE s.high_certificate_qc_round
         IN  [ s EXCEPT
               !.high_certificate = cert,
               !.high_certificate_qc_round = q,
               !.maybe_high_tip = IF @ # NoTip /\ block_round[@] > q THEN @ ELSE NoTip ]

\* Mutants: a second vote of a round is accepted, or a no-endorsement does not
\* restrict the votes of its round.
IsSafeToVote_SameRound(s, r, tc_tip) ==
    /\ r = s.highest_no_endorse => tc_tip = s.no_endorse_tip
    /\ r >= s.highest_vote
IsSafeToVote_IgnoresNE(s, r, tc_tip) == r > s.highest_vote

\* Safety::is_safe_to_vote; tc_tip is the tip of the proposal's TC, if it has one.
IsSafeToVote(s, r, tc_tip) ==
    /\ r = s.highest_no_endorse => tc_tip = s.no_endorse_tip
    /\ r > s.highest_vote

\* Mutant: the block that was voted for does not become the high tip.
Vote_DropsTip(s, r, b) == [s EXCEPT !.highest_vote = r, !.maybe_high_tip = NoTip]

\* Safety::vote
Vote(s, r, b) ==
    [ s EXCEPT
      !.highest_vote = r,
      !.maybe_high_tip = IF block_round[b] > s.high_certificate_qc_round THEN b ELSE NoTip ]

\* Safety::is_safe_to_no_endorse
IsSafeToNoEndorse(s, r) == r > s.highest_no_endorse /\ r > s.highest_vote

\* Mutant: the timeout uses up the next round's vote.
TimedOutState_NextRound(s) == [s EXCEPT !.highest_vote = CurrentRound(s) + 1]

\* Safety::timeout, the state change and its result: whether the timeout may
\* carry a vote for the high tip.
TimedOutState(s) == [s EXCEPT !.highest_vote = CurrentRound(s)]
SafeToIncludeVote(s) ==
    \/ s.highest_no_endorse < CurrentRound(s)
    \/ s.maybe_high_tip # NoTip /\ block_round[s.maybe_high_tip] = CurrentRound(s)

\* local_timeout_round: the extend the timeout reports.
ReportedExtend(s) ==
    IF s.maybe_high_tip # NoTip THEN TipExtend(s.maybe_high_tip)
    ELSE QcExtend(s.high_certificate.qc_round, s.high_certificate.qc_block)

\* The messages of local_timeout_round and Timeout::new.
SendTimeout(n, s) ==
    /\ timeouts' = timeouts \cup {<<n, CurrentRound(s), ReportedExtend(s)>>}
    /\ votes' = IF s.maybe_high_tip # NoTip /\ SafeToIncludeVote(s)
                THEN votes \cup {<<n, CurrentRound(s), s.maybe_high_tip>>} ELSE votes

\* A handler ends with node n in state s.  The state machine then asks for a
\* checkpoint of the certificate it is in the round of (one is taken whenever a
\* round was entered), without waiting for the disk.
SetNode(n, s) ==
    /\ node' = [node EXCEPT ![n] = s]
    /\ forkpoints' = [forkpoints EXCEPT ![n] = @ \cup {s.high_certificate}]

-----------------------------------------------------------------------------
\* handle_advance_round_message, and every other place where a certificate that
\* was received or just built is handed to process_qc or process_tc.
HandleQC(n) ==
    \E r \in CurrentRound(node[n])..MaxRound - 1, b \in Block :
        /\ Certified(r, b)
        /\ SetNode(n, ProcessCertificate(node[n], QcCertificate(r, b)))
        /\ UNCHANGED <<votes, timeouts, no_endorsements, restarted, behind>>

HandleTC(n) ==
    \E r \in CurrentRound(node[n])..MaxRound - 1, ext \in Extends :
        /\ ValidTC(r, ext)
        /\ SetNode(n, ProcessCertificate(node[n], TcCertificate(r, ext)))
        /\ UNCHANGED <<votes, timeouts, no_endorsements, restarted, behind>>

\* handle_proposal_message + try_add_and_commit_blocktree + try_vote for the
\* proposal of block b in round r, after the certificates it carries took the
\* node to state s.  The block is one the node holds as coherent.  A proposal
\* that is not voted for leaves nothing but its certificates: HandleQC, HandleTC.
\* (handled_proposals, a bounded cache, only makes a node drop more proposals, and
\* a vote already closes its round.)
VoteForProposal(n, s, r, b, tc_tip) ==
    /\ r = CurrentRound(s)
    /\ IsSafeToVote(s, r, tc_tip)
    /\ ValidTip(b)
    /\ SetNode(n, Vote(s, r, b))
    /\ votes' = votes \cup {<<n, r, b>>}
    /\ UNCHANGED <<timeouts, no_endorsements, restarted, behind>>

\* A proposal that follows its QC directly carries no TC.
HandleProposal(n) ==
    \E b \in Block \ {GENESIS} :
        /\ qc_round[b] + 1 \in CurrentRound(node[n])..MaxRound
        /\ VoteForProposal(n, ProcessCertificate(node[n], QcCertificate(qc_round[b], parent[b])),
                           qc_round[b] + 1, b, NoTip)

\* Any other proposal carries the TC of the round before: a reproposal of its
\* tip, or a block on the same QC as its extend.
HandleProposalWithTC(n) ==
    \E r \in CurrentRound(node[n])..MaxRound, b \in Block \ {GENESIS}, ext \in Extends :
        /\ WellFormedWithTC(r, b, ext)
        /\ LET s == ProcessCertificate(node[n], QcCertificate(qc_round[b], parent[b]))
           IN  VoteForProposal(n, ProcessCertificate(s, TcCertificate(r - 1, ext)),
                               r, b, ext.tip)
        /\ ValidTC(r - 1, ext)

\* handle_timeout_expiry when the round timer fires, and process_remote_timeout
\* when timeouts of f + 1 stake make the node join.
LocalTimeout(n) ==
    /\ SetNode(n, TimedOutState(node[n]))
    /\ SendTimeout(n, node[n])
    /\ UNCHANGED <<no_endorsements, restarted, behind>>

\* handle_timeout_message for a timeout whose last_round_certificate is the TC of
\* the round that the QC of its high extend left the node in: the node times that
\* round out itself before it leaves it.
HandleTimeoutWithTC(n) ==
    \E q \in 0..MaxRound - 1, b \in Block, ext \in Extends :
        LET s == ProcessCertificate(node[n], QcCertificate(q, b))
            r == CurrentRound(s)
        IN  /\ r < MaxRound
            /\ Certified(q, b)
            /\ ValidTC(r, ext)
            /\ SendTimeout(n, s)
            /\ SetNode(n, ProcessCertificate(TimedOutState(s), TcCertificate(r, ext)))
            /\ UNCHANGED <<no_endorsements, restarted, behind>>

\* handle_round_recovery_message for a tip that is not coherent at this node.
HandleRoundRecovery(n) ==
    \E r \in CurrentRound(node[n])..MaxRound, b \in Block \ {GENESIS} :
        LET s == ProcessCertificate(node[n], TcCertificate(r - 1, TipExtend(b))) IN
        /\ r = CurrentRound(s)
        /\ IsSafeToNoEndorse(s, r)
        /\ ValidTC(r - 1, TipExtend(b))
        /\ SetNode(n, [s EXCEPT !.highest_no_endorse = r, !.no_endorse_tip = b])
        /\ no_endorsements' = no_endorsements \cup {<<n, r, qc_round[b]>>}
        /\ UNCHANGED <<votes, timeouts, restarted, behind>>

\* The process stops, starts from its forkpoint and, once it is in sync, times out
\* the round it is in (KinetState's start of consensus).  "Note that this is not
\* written to disk synchronously" (state/src/lib.rs:1053): the messages of a step
\* go out before its checkpoint is written, and nothing is fsynced, so the stop
\* may leave any of the certificates checkpointed since the last start.
Restart(n) ==
    /\ Cardinality(restarted \cup {n}) <= MaxRestarts
    /\ restarted' = restarted \cup {n}
    /\ \E cert \in forkpoints[n] :
        LET s == Restored(cert) IN
        /\ node' = [node EXCEPT ![n] = TimedOutState(s)]
        /\ forkpoints' = [forkpoints EXCEPT ![n] = {cert}]
        /\ behind' = IF cert = node[n].high_certificate THEN behind ELSE behind \cup {n}
        /\ SendTimeout(n, s)
    /\ UNCHANGED no_endorsements

Next ==
    \E n \in Honest :
        \/ HandleQC(n) \/ HandleTC(n) \/ HandleProposal(n)
        \/ HandleProposalWithTC(n) \/ LocalTimeout(n)
        \/ HandleTimeoutWithTC(n) \/ HandleRoundRecovery(n) \/ Restart(n)

Spec == Init /\ [][Next]_vars

-----------------------------------------------------------------------------
\* What the handlers keep and sign; every signed round was entered.
TypeOK ==
    /\ node \in [Honest -> NodeState]
    /\ votes \subseteq Honest \X Rounds \X (Block \ {GENESIS})
    /\ timeouts \subseteq Honest \X Rounds \X HighExtend
    /\ no_endorsements \subseteq Honest \X Rounds \X Nat
    /\ forkpoints \in [Honest -> SUBSET Certificate]
    /\ restarted \subseteq Honest
    /\ behind \subseteq Honest

\* Two supermajorities need have no other honest validator in common than those in S.
BreaksQuorum(S) == \E Q, R \in Supermajority : Q \cap R \cap Honest \subseteq S

\* No two blocks get a QC in one round, whatever mix of proposals, timeouts that
\* carry a vote for the high tip, and restarts made the honest validators vote,
\* except by validators that each voted for both around a restart from a
\* forkpoint older than their round: state/src/lib.rs:1058 says that it takes
\* "f+1 nodes", here as many as, with the faulty ones, hold all that two
\* supermajorities share.
OneQCPerRound ==
    \A r \in Rounds, b, c \in Block :
        Certified(r, b) /\ Certified(r, c) /\ b # c =>
            BreaksQuorum({n \in behind : {<<n, r, b>>, <<n, r, c>>} \subseteq votes})

\* block.rs:72: block_round is the "round this block was first proposed in", so
\* nobody votes for a block in an earlier round.
NoVoteBeforeBlockRound == \A v \in votes : block_round[v[3]] <= v[2]

\* safety.rs: an NEC and a QC of one round never rest on conflicting tips: the
\* block with the QC extends the QC that the tip which was not endorsed extends.
\* The exception for a high tip of the current round in Safety::timeout relies on
\* that tip having been voted for in its own round.  As with two QCs, only
\* validators that signed both around a restart from an old forkpoint can break it.
QCAndNECAgree ==
    NoVoteBeforeBlockRound =>
        \A r \in Rounds, q \in 0..MaxRound, b \in Block :
            Certified(r, b) /\ NoEndorsed(r, q) /\ qc_round[b] # q =>
                BreaksQuorum({n \in behind : <<n, r, b>> \in votes
                                                /\ <<n, r, q>> \in no_endorsements})

\* The assertion of Safety::timeout never fails: no validator, restarted ones
\* included, is marked as having voted in a round it has not entered.
NeverVotesAhead == \A n \in Honest : node[n].highest_vote <= CurrentRound(node[n])

\* get_committable_id: a QC for b commits b's parent if it is of the round right
\* after the round of the QC in b's header.
Commits(b) == b # GENESIS /\ Certified(qc_round[b] + 1, b)

\* Every TC of the round after b's QC asks to build on the block that QC is for.
\* (A tip of a later round proves that the round was left long ago.)
TCsExtendQCOf(b) ==
    \A ext \in Extends :
        ValidTC(qc_round[b] + 1, ext)
            /\ (ext.tip = NoTip \/ block_round[ext.tip] <= qc_round[b] + 1)
            => parent[b] \in ancestors[ext.qc_block]

\* A committing QC binds the TCs of its own round, whichever supermajority times
\* that round out, as long as no validator restarted.
CommitBindsTC ==
    restarted = {} => \A b \in Block : Commits(b) => TCsExtendQCOf(b)

\* consensus-state/src/lib.rs:294: "it's safe to start consensus without its last
\* high_tip, at worst, tip gets reverted": when validators restart, too, each from
\* its latest forkpoint, no TC of the committing round asks to build on something
\* that leaves the committed block out.
RestartKeepsCommits ==
    behind = {} => \A b \in Block : Commits(b) =>
        \A ext \in Extends :
            ValidTC(qc_round[b] + 1, ext)
                => parent[b] \in ancestors[ext.qc_block] \cup {ext.tip}

=============================================================================
