------------------------------- MODULE VoteState -------------------------------
(***************************************************************************)
(* The vote collector of one node (consensus/src/vote_state.rs) together   *)
(* with the handlers that own it (consensus-state/src/lib.rs): votes       *)
(* arrive in any order and any number of times, for any round of the       *)
(* window handle_vote_message accepts, while QCs and TCs formed elsewhere  *)
(* move the round.  Signatures are checked only when a bucket reaches a    *)
(* supermajority.                                                          *)
(*                                                                         *)
(* Honest validators sign correctly and vote for one block of a round; the *)
(* others may send any vote, with a good or a bad signature.               *)
(***************************************************************************)
EXTENDS Integers, FiniteSets

CONSTANTS Validators,      \* the validator set of the epoch
          Honest,          \* the validators that follow the protocol
          Supermajority,   \* the sets that has_super_majority_votes accepts
          Blocks,          \* the block identifiers votes may name
          FutureVoteBound, \* FUTURE_VOTE_BOUND (10 in the code)
          MaxRound         \* bound: the last round that is voted on

ASSUME VoteStateAssumption ==
    /\ Honest \subseteq Validators
    /\ Supermajority \subseteq SUBSET Validators
    /\ \A Q1, Q2 \in Supermajority : Q1 \cap Q2 \cap Honest # {}
    /\ \A Q \in Supermajority, S \in SUBSET Validators : Q \subseteq S => S \in Supermajority
    /\ FutureVoteBound \in Nat
    /\ MaxRound \in Nat \ {0}

Rounds == 1..MaxRound

VARIABLES
    current_round,   \* pacemaker.get_current_round()
    earliest_round,  \* VoteState::earliest_round
    pending_votes,   \* round -> block -> <<author, signature is good>> held
    invalid_voters,  \* round -> validators caught with a bad signature
    delivered,       \* history: <<author, round, block>> votes of honest validators
                     \* that reached process_vote
    created          \* history: the QCs this node created

vars == <<current_round, earliest_round, pending_votes, invalid_voters, delivered, created>>

Signature == Validators \X BOOLEAN
Authors(bucket) == {s[1] : s \in bucket}
GoodSigners(bucket) == {s[1] : s \in {t \in bucket : t[2]}}
BadSigners(bucket) == {s[1] : s \in {t \in bucket : ~t[2]}}

QC == [round : Rounds, block : Blocks, signatures : SUBSET Signature]

Init ==
    /\ current_round = 1
    /\ earliest_round = 1
    /\ pending_votes = [r \in Rounds |-> [b \in Blocks |-> {}]]
    /\ invalid_voters = [r \in Rounds |-> {}]
    /\ delivered = {}
    /\ created = {}

-----------------------------------------------------------------------------
\* start_new_round: assigns earliest_round (no max) and forgets older rounds.
StartNewRound(new_round, pending, invalid) ==
    /\ earliest_round' = new_round
    /\ pending_votes' = [r \in Rounds |-> IF r >= new_round THEN pending[r]
                                          ELSE [b \in Blocks |-> {}]]
    /\ invalid_voters' = [r \in Rounds |-> IF r >= new_round THEN invalid[r] ELSE {}]

\* What process_qc does to the round and to the collector for a QC that is
\* not older than the current round.
AdvanceByQC(round, pending, invalid) ==
    /\ current_round' = round + 1
    /\ StartNewRound(round + 1, pending, invalid)

\* The signatures of a bucket once the author's newest one is inserted.
Inserted(bucket, author, good) ==
    {s \in bucket : s[1] # author} \cup {<<author, good>>}

\* Mutant: the whole bucket is blamed for one bad signature.
Caught_EveryAuthor(bucket, invalid) ==
    IF Authors(bucket) \in Supermajority /\ BadSigners(bucket) # {}
    THEN invalid \cup Authors(bucket) ELSE invalid

\* handle_invalid_vote: the bad signers of the bucket join invalid_voters ...
Caught(bucket, invalid) ==
    IF Authors(bucket) \in Supermajority THEN invalid \cup BadSigners(bucket) ELSE invalid

\* Mutant: the bad signatures stay in the bucket.
Retained_All(bucket, invalid) == bucket

\* ... and every invalid voter leaves the bucket.
Retained(bucket, invalid) ==
    IF Authors(bucket) \in Supermajority /\ BadSigners(bucket) # {}
    THEN {s \in bucket : s[1] \notin Caught(bucket, invalid)}
    ELSE bucket

\* handle_vote_message's window: neither older than the round nor too far ahead.
InWindow(round) == round >= current_round /\ round <= current_round + FutureVoteBound

\* handle_vote_message + process_vote for a vote that is not dropped.  The
\* while loop runs until the bucket either is no supermajority or holds only
\* good signatures; a QC is then processed at once.
HandleVote(author, good, round, block) ==
    /\ InWindow(round)
    /\ round >= earliest_round
    /\ author \notin invalid_voters[round]
    /\ delivered' = IF author \in Honest THEN delivered \cup {<<author, round, block>>}
                    ELSE delivered
    /\ LET bucket   == Inserted(pending_votes[round][block], author, good)
           kept     == Retained(bucket, invalid_voters[round])
           pending  == [pending_votes EXCEPT ![round][block] = kept]
           invalid  == [invalid_voters EXCEPT ![round] = Caught(bucket, @)]
       IN  IF Authors(kept) \in Supermajority
           THEN /\ created' = created \cup
                               {[round |-> round, block |-> block, signatures |-> kept]}
                /\ AdvanceByQC(round, pending, invalid)
           ELSE /\ pending_votes' = pending
                /\ invalid_voters' = invalid
                /\ UNCHANGED <<current_round, earliest_round, created>>

\* A validator votes: honest ones with a good signature and for one block of
\* the round, over and over if the network duplicates the message.
HandleVoteMessage ==
    \E round \in Rounds, block \in Blocks, author \in Validators, good \in BOOLEAN :
        /\ author \in Honest =>
              /\ good
              /\ \A d \in delivered : d[1] = author /\ d[2] = round => d[3] = block
        /\ HandleVote(author, good, round, block)

\* process_qc for a certificate received from somebody else; an older one is ignored.
ProcessQC ==
    \E round \in Rounds :
        /\ round >= current_round
        /\ AdvanceByQC(round, pending_votes, invalid_voters)
        /\ UNCHANGED <<delivered, created>>

\* process_tc moves the round and leaves the collector alone.
ProcessTC ==
    \E round \in Rounds :
        /\ round >= current_round
        /\ current_round' = round + 1
        /\ UNCHANGED <<earliest_round, pending_votes, invalid_voters, delivered, created>>

Next == HandleVoteMessage \/ ProcessQC \/ ProcessTC

Spec == Init /\ [][Next]_vars

-----------------------------------------------------------------------------
\* What the collector holds; the round is never more than one past the last one
\* that is voted on.
TypeOK ==
    /\ current_round \in 1..MaxRound + 1
    /\ earliest_round \in 1..MaxRound + 1
    /\ pending_votes \in [Rounds -> [Blocks -> SUBSET Signature]]
    /\ invalid_voters \in [Rounds -> SUBSET Validators]
    /\ delivered \subseteq Honest \X Rounds \X Blocks
    /\ created \subseteq QC

\* Every QC that process_vote creates carries only good signatures of a
\* supermajority, one per validator, whatever bad signatures were collected
\* on the way.
QCWellSigned ==
    \A qc \in created :
        /\ BadSigners(qc.signatures) = {}
        /\ Authors(qc.signatures) \in Supermajority

\* vote_state.rs:36 "Only one QC should be created in a round".
OneQCPerRound ==
    \A q1, q2 \in created : q1.round = q2.round => q1 = q2

\* A bad signature never starves a good quorum: once good votes of a
\* supermajority of honest validators for one block were accepted, the node
\* is past that round.
HonestQuorumAdvances ==
    \A round \in Rounds, block \in Blocks :
        {v \in Honest : <<v, round, block>> \in delivered} \in Supermajority
            => current_round > round

\* start_new_round assigns earliest_round without the max that
\* no_endorsement_state.rs uses; its callers never make it go back.
EarliestRoundMonotone == [][earliest_round' >= earliest_round]_vars

\* A QC as the certificate it stands for, with those of its signers whose
\* signature is good.
CertificateOf(qc) == [round |-> qc.round, value |-> qc.block,
                      signers |-> GoodSigners(qc.signatures)]
Certificates == {CertificateOf(qc) : qc \in created}

Collector == INSTANCE CertificateCollector
             WITH Quorums <- Supermajority, Values <- Blocks, Rounds <- Rounds,
                  floor <- earliest_round, certificates <- Certificates

\* VoteState is a certificate collector: the QCs it makes are each signed well by
\* a supermajority, their rounds increase, and no round is opened again once a QC
\* or start_new_round has closed it.
ImplementsCollector == Collector!Spec

=============================================================================
