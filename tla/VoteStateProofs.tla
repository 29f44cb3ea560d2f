---------------------------- MODULE VoteStateProofs ----------------------------
(* Proofs about VoteState for every validator set, stake distribution and bound. *)
EXTENDS VoteState, TLAPS

(***************************************************************************)
(* The inductive invariant: the collector never lags behind the QCs it has *)
(* created and never runs ahead of the round it serves.                    *)
(***************************************************************************)
CollectorBehind ==
    /\ earliest_round <= current_round
    /\ \A qc \in created : qc.round < earliest_round

VoteStateInv == TypeOK /\ CollectorBehind /\ OneQCPerRound

\* A bucket stays a set of signatures when process_vote inserts and filters.
LEMMA BucketTyped ==
    ASSUME NEW bucket \in SUBSET Signature, NEW invalid \in SUBSET Validators,
           NEW author \in Validators, NEW good \in BOOLEAN
    PROVE  /\ Inserted(bucket, author, good) \in SUBSET Signature
           /\ Retained(bucket, invalid) \in SUBSET Signature
           /\ Caught(bucket, invalid) \in SUBSET Validators
  BY DEF Inserted, Retained, Caught, Signature, BadSigners, Authors

\* start_new_round keeps the collector well typed.
LEMMA StartNewRoundTyped ==
    ASSUME NEW new_round \in 1..MaxRound + 1,
           NEW pending \in [Rounds -> [Blocks -> SUBSET Signature]],
           NEW invalid \in [Rounds -> SUBSET Validators],
           StartNewRound(new_round, pending, invalid)
    PROVE  /\ earliest_round' = new_round
           /\ pending_votes' \in [Rounds -> [Blocks -> SUBSET Signature]]
           /\ invalid_voters' \in [Rounds -> SUBSET Validators]
  BY DEF StartNewRound

\* The initial state satisfies the invariant.
LEMMA InitInv == Init => VoteStateInv
  BY VoteStateAssumption DEF Init, VoteStateInv, TypeOK, CollectorBehind, OneQCPerRound, Rounds

\* One vote, with everything process_vote and process_qc do for it, preserves
\* the invariant and never lowers earliest_round.
LEMMA HandleVoteInv ==
    ASSUME VoteStateInv,
           NEW author \in Validators, NEW good \in BOOLEAN,
           NEW round \in Rounds, NEW block \in Blocks,
           HandleVote(author, good, round, block)
    PROVE  VoteStateInv' /\ earliest_round' >= earliest_round
  <1> DEFINE bucket  == Inserted(pending_votes[round][block], author, good)
             kept    == Retained(bucket, invalid_voters[round])
             caught  == Caught(bucket, invalid_voters[round])
             pending == [pending_votes EXCEPT ![round][block] = kept]
             invalid == [invalid_voters EXCEPT ![round] = caught]
             qc      == [round |-> round, block |-> block, signatures |-> kept]
  <1> USE VoteStateAssumption
  <1>1. bucket \in SUBSET Signature
    BY BucketTyped DEF VoteStateInv, TypeOK
  <1>2. kept \in SUBSET Signature /\ caught \in SUBSET Validators
    BY <1>1, BucketTyped DEF VoteStateInv, TypeOK
  <1>3. pending \in [Rounds -> [Blocks -> SUBSET Signature]]
    BY <1>2 DEF VoteStateInv, TypeOK
  <1>4. invalid \in [Rounds -> SUBSET Validators]
    BY <1>2 DEF VoteStateInv, TypeOK
  <1>5. delivered' \subseteq Honest \X Rounds \X Blocks
    BY DEF HandleVote, VoteStateInv, TypeOK
  <1>6. round >= current_round /\ round >= earliest_round
    BY DEF HandleVote, InWindow
  <1>7. CASE Authors(kept) \in Supermajority
    <2>1. created' = created \cup {qc} /\ current_round' = round + 1
          /\ StartNewRound(round + 1, pending, invalid)
      BY <1>7 DEF HandleVote, AdvanceByQC
    <2>2. round + 1 \in 1..MaxRound + 1
      BY DEF Rounds
    <2> HIDE DEF pending, invalid, kept
    <2>3. /\ earliest_round' = round + 1
          /\ pending_votes' \in [Rounds -> [Blocks -> SUBSET Signature]]
          /\ invalid_voters' \in [Rounds -> SUBSET Validators]
      BY <2>1, <2>2, <1>3, <1>4, StartNewRoundTyped
    <2>4. qc \in QC
      BY <1>2 DEF QC
    <2>5. TypeOK'
      BY <2>1, <2>2, <2>3, <2>4, <1>5 DEF VoteStateInv, TypeOK
    <2>6. \A q \in created : q.round < round
      BY <1>6 DEF VoteStateInv, TypeOK, CollectorBehind, QC, Rounds
    <2>7. CollectorBehind'
      BY <2>1, <2>3, <2>6 DEF VoteStateInv, TypeOK, CollectorBehind, QC, Rounds
    <2>8. OneQCPerRound'
      BY <2>1, <2>6 DEF VoteStateInv, TypeOK, OneQCPerRound, QC, Rounds
    <2> QED
      BY <2>3, <2>5, <2>7, <2>8, <1>6 DEF VoteStateInv, TypeOK, Rounds
  <1>8. CASE ~(Authors(kept) \in Supermajority)
    <2>1. /\ pending_votes' = pending /\ invalid_voters' = invalid
          /\ UNCHANGED <<current_round, earliest_round, created>>
      BY <1>8 DEF HandleVote
    <2> HIDE DEF pending, invalid
    <2> QED
      BY <2>1, <1>3, <1>4, <1>5
      DEF VoteStateInv, TypeOK, CollectorBehind, OneQCPerRound
  <1> QED
    BY <1>7, <1>8

\* A QC or a TC from elsewhere preserves the invariant and never lowers
\* earliest_round.
LEMMA CertificateInv ==
    ASSUME VoteStateInv, ProcessQC \/ ProcessTC
    PROVE  VoteStateInv' /\ earliest_round' >= earliest_round
  <1> USE VoteStateAssumption
  <1>1. CASE ProcessQC
    <2>1. PICK round \in Rounds :
             /\ round >= current_round
             /\ current_round' = round + 1
             /\ StartNewRound(round + 1, pending_votes, invalid_voters)
             /\ UNCHANGED <<delivered, created>>
      BY <1>1 DEF ProcessQC, AdvanceByQC
    <2>2. round + 1 \in 1..MaxRound + 1
      BY DEF Rounds
    <2>3. /\ earliest_round' = round + 1
          /\ pending_votes' \in [Rounds -> [Blocks -> SUBSET Signature]]
          /\ invalid_voters' \in [Rounds -> SUBSET Validators]
      BY <2>1, <2>2, StartNewRoundTyped DEF VoteStateInv, TypeOK
    <2>4. TypeOK' /\ OneQCPerRound'
      BY <2>1, <2>2, <2>3 DEF VoteStateInv, TypeOK, OneQCPerRound
    <2>5. CollectorBehind' /\ earliest_round' >= earliest_round
      BY <2>1, <2>3 DEF VoteStateInv, TypeOK, CollectorBehind, QC, Rounds
    <2> QED
      BY <2>4, <2>5 DEF VoteStateInv
  <1>2. CASE ProcessTC
    BY <1>2 DEF ProcessTC, VoteStateInv, TypeOK, CollectorBehind, OneQCPerRound, Rounds
  <1> QED
    BY <1>1, <1>2

\* Every step preserves the invariant and never lowers earliest_round.
LEMMA StepInv ==
    ASSUME VoteStateInv, [Next]_vars
    PROVE  VoteStateInv' /\ earliest_round' >= earliest_round
  <1>1. CASE HandleVoteMessage
    BY <1>1, HandleVoteInv DEF HandleVoteMessage
  <1>2. CASE ProcessQC \/ ProcessTC
    BY <1>2, CertificateInv
  <1>3. CASE UNCHANGED vars
    BY <1>3 DEF vars, VoteStateInv, TypeOK, CollectorBehind, OneQCPerRound
  <1> QED
    BY <1>1, <1>2, <1>3 DEF Next

\* vote_state.rs keeps its variables in their types.
THEOREM TypeCorrect == Spec => []TypeOK
  <1>1. VoteStateInv => TypeOK
    BY DEF VoteStateInv
  <1> QED
    BY InitInv, StepInv, <1>1, PTL DEF Spec

\* The comment of vote_state.rs, "Only one QC should be created in a round",
\* holds for every validator set and every number of rounds.
THEOREM VoteStateOneQC == Spec => []OneQCPerRound
  <1>1. VoteStateInv => OneQCPerRound
    BY DEF VoteStateInv
  <1> QED
    BY InitInv, StepInv, <1>1, PTL DEF Spec

\* earliest_round never goes back although start_new_round assigns it without a max.
THEOREM VoteStateMonotone == Spec => EarliestRoundMonotone
  <1>1. VoteStateInv /\ [Next]_vars => [earliest_round' >= earliest_round]_vars
    BY StepInv
  <1> QED
    BY InitInv, StepInv, <1>1, PTL DEF Spec, EarliestRoundMonotone

-----------------------------------------------------------------------------
(* QCs are well signed, and VoteState implements CertificateCollector. *)

\* When the while loop of process_vote ends with a supermajority, no bad
\* signature is left in the bucket.
LEMMA KeptIsGood ==
    ASSUME NEW bucket \in SUBSET Signature, NEW invalid \in SUBSET Validators,
           Authors(Retained(bucket, invalid)) \in Supermajority
    PROVE  /\ BadSigners(Retained(bucket, invalid)) = {}
           /\ GoodSigners(Retained(bucket, invalid)) = Authors(Retained(bucket, invalid))
  <1> DEFINE kept == Retained(bucket, invalid)
  <1>1. kept \in SUBSET Signature
    BY DEF Retained
  <1>2. BadSigners(kept) = {}
    <2>1. CASE Authors(bucket) \in Supermajority /\ BadSigners(bucket) # {}
      <3>1. kept = {s \in bucket : s[1] \notin Caught(bucket, invalid)}
        BY <2>1 DEF Retained
      <3>2. BadSigners(bucket) \subseteq Caught(bucket, invalid)
        BY <2>1 DEF Caught
      <3> QED
        BY <3>1, <3>2 DEF BadSigners
    <2>2. CASE ~(Authors(bucket) \in Supermajority /\ BadSigners(bucket) # {})
      BY <2>2 DEF Retained
    <2> QED
      BY <2>1, <2>2
  <1>3. \A s \in kept : s[2] = TRUE
    BY <1>1, <1>2 DEF BadSigners, Signature
  <1>4. GoodSigners(kept) = Authors(kept)
    BY <1>3 DEF GoodSigners, Authors
  <1> QED
    BY <1>2, <1>4

\* One vote either makes a well-signed QC of an open round and closes the round,
\* or leaves QCs and earliest_round alone.
LEMMA HandleVoteCertifies ==
    ASSUME VoteStateInv,
           NEW author \in Validators, NEW good \in BOOLEAN,
           NEW round \in Rounds, NEW block \in Blocks,
           HandleVote(author, good, round, block)
    PROVE  \/ \E kept \in SUBSET Signature :
                 /\ BadSigners(kept) = {}
                 /\ GoodSigners(kept) = Authors(kept)
                 /\ Authors(kept) \in Supermajority
                 /\ round >= earliest_round
                 /\ earliest_round' = round + 1
                 /\ created' = created \cup
                        {[round |-> round, block |-> block, signatures |-> kept]}
           \/ UNCHANGED <<earliest_round, created>>
  <1> DEFINE bucket == Inserted(pending_votes[round][block], author, good)
             kept   == Retained(bucket, invalid_voters[round])
  <1> USE VoteStateAssumption
  <1>1. bucket \in SUBSET Signature /\ invalid_voters[round] \in SUBSET Validators
    BY BucketTyped DEF VoteStateInv, TypeOK
  <1>2. kept \in SUBSET Signature
    BY <1>1, BucketTyped
  <1>3. CASE Authors(kept) \in Supermajority
    <2>1. BadSigners(kept) = {} /\ GoodSigners(kept) = Authors(kept)
      BY <1>1, <1>3, KeptIsGood
    <2>2. /\ created' = created \cup
                 {[round |-> round, block |-> block, signatures |-> kept]}
          /\ earliest_round' = round + 1 /\ round >= earliest_round
      BY <1>3 DEF HandleVote, AdvanceByQC, StartNewRound
    <2> HIDE DEF kept
    <2> QED
      BY <1>2, <1>3, <2>1, <2>2
  <1>4. CASE ~(Authors(kept) \in Supermajority)
    BY <1>4 DEF HandleVote
  <1> QED
    BY <1>3, <1>4

\* A certificate from elsewhere creates no QC here.
LEMMA CertificateCreatesNothing ==
    ASSUME ProcessQC \/ ProcessTC
    PROVE  UNCHANGED created
  BY DEF ProcessQC, ProcessTC

\* Every step keeps the QCs well signed.
LEMMA StepWellSigned ==
    ASSUME VoteStateInv, QCWellSigned, [Next]_vars
    PROVE  QCWellSigned'
  <1>1. CASE HandleVoteMessage
    <2>1. PICK round \in Rounds, block \in Blocks, author \in Validators, good \in BOOLEAN :
             HandleVote(author, good, round, block)
      BY <1>1 DEF HandleVoteMessage
    <2>2. CASE UNCHANGED created
      BY <2>2 DEF QCWellSigned
    <2>3. CASE created' # created
      <3>1. PICK kept \in SUBSET Signature :
               /\ BadSigners(kept) = {}
               /\ Authors(kept) \in Supermajority
               /\ created' = created \cup
                      {[round |-> round, block |-> block, signatures |-> kept]}
        BY <2>1, <2>3, HandleVoteCertifies
      <3> QED
        BY <3>1 DEF QCWellSigned
    <2> QED
      BY <2>2, <2>3
  <1>2. CASE ProcessQC \/ ProcessTC
    BY <1>2, CertificateCreatesNothing DEF QCWellSigned
  <1>3. CASE UNCHANGED vars
    BY <1>3 DEF vars, QCWellSigned
  <1> QED
    BY <1>1, <1>2, <1>3 DEF Next

\* Every QC that process_vote creates is signed by a supermajority with good
\* signatures only.
THEOREM VoteStateWellSigned == Spec => []QCWellSigned
  <1>1. Init => QCWellSigned
    BY DEF Init, QCWellSigned
  <1> QED
    BY InitInv, StepInv, StepWellSigned, <1>1, PTL DEF Spec

\* Every step of the collector is a step, or no step, of CertificateCollector.
LEMMA StepRefines ==
    ASSUME VoteStateInv, [Next]_vars
    PROVE  [Collector!Next]_(Collector!vars)
  <1>1. CASE HandleVoteMessage
    <2>1. PICK round \in Rounds, block \in Blocks, author \in Validators, good \in BOOLEAN :
             HandleVote(author, good, round, block)
      BY <1>1 DEF HandleVoteMessage
    <2>2. CASE UNCHANGED <<earliest_round, created>>
      BY <2>2 DEF Collector!vars, Certificates
    <2>3. CASE ~UNCHANGED <<earliest_round, created>>
      <3>1. PICK kept \in SUBSET Signature :
               /\ GoodSigners(kept) = Authors(kept)
               /\ Authors(kept) \in Supermajority
               /\ round >= earliest_round
               /\ earliest_round' = round + 1
               /\ created' = created \cup
                      {[round |-> round, block |-> block, signatures |-> kept]}
        BY <2>1, <2>3, HandleVoteCertifies
      <3> DEFINE qc == [round |-> round, block |-> block, signatures |-> kept]
      <3>2. Certificates' = Certificates \cup {CertificateOf(qc)}
        <4> HIDE DEF qc
        <4> QED
          BY <3>1 DEF Certificates, qc
      <3>3. CertificateOf(qc) = [round |-> round, value |-> block, signers |-> GoodSigners(kept)]
        BY DEF CertificateOf
      <3>4. Collector!Certify
        BY <3>1, <3>2, <3>3 DEF Collector!Certify
      <3> QED
        BY <3>4 DEF Collector!Next
    <2> QED
      BY <2>2, <2>3
  <1>2. CASE ProcessQC \/ ProcessTC
    <2>1. Certificates' = Certificates
      BY <1>2, CertificateCreatesNothing DEF Certificates
    <2>2. earliest_round' >= earliest_round /\ earliest_round \in Int /\ earliest_round' \in Int
      BY <1>2, CertificateInv, VoteStateAssumption DEF VoteStateInv, TypeOK
    <2> QED
      BY <2>1, <2>2 DEF Collector!Next, Collector!GiveUp, Collector!vars
  <1>3. CASE UNCHANGED vars
    BY <1>3 DEF vars, Collector!vars, Certificates
  <1> QED
    BY <1>1, <1>2, <1>3 DEF Next

\* vote_state.rs implements the certificate collector that the rest of
\* consensus relies on.
THEOREM VoteStateImplementsCollector == Spec => ImplementsCollector
  <1>1. Init => Collector!Init
    BY DEF Init, Collector!Init, Certificates
  <1> QED
    BY InitInv, StepInv, StepRefines, <1>1, PTL DEF Spec, ImplementsCollector, Collector!Spec

-----------------------------------------------------------------------------
(***************************************************************************)
(* Bad signatures starve nobody.  The strengthening: the buckets of the    *)
(* open rounds are no supermajorities, still hold the votes of honest      *)
(* validators, and honest validators are never blamed.                     *)
(***************************************************************************)
OpenIsIncomplete ==
    \A r \in Rounds, b \in Blocks :
        r >= earliest_round => Authors(pending_votes[r][b]) \notin Supermajority

HonestHeld ==
    \A v \in Honest, r \in Rounds, b \in Blocks :
        <<v, r, b>> \in delivered /\ r >= earliest_round => <<v, TRUE>> \in pending_votes[r][b]

HonestBlameless ==
    /\ \A r \in Rounds : invalid_voters[r] \cap Honest = {}
    /\ \A r \in Rounds, b \in Blocks : BadSigners(pending_votes[r][b]) \cap Honest = {}

NotStarved == OpenIsIncomplete /\ HonestHeld /\ HonestBlameless

\* No supermajority is empty, as two of them share an honest validator.
LEMMA EmptyIsNoQuorum == {} \notin Supermajority
  BY VoteStateAssumption

\* What a bucket keeps of the votes of honest validators.
LEMMA KeptHonest ==
    ASSUME NEW bucket0 \in SUBSET Signature, NEW invalid \in SUBSET Validators,
           NEW author \in Validators, NEW good \in BOOLEAN,
           author \in Honest => good = TRUE,
           BadSigners(bucket0) \cap Honest = {}, invalid \cap Honest = {}
    PROVE  LET bucket == Inserted(bucket0, author, good)
               kept   == Retained(bucket, invalid)
           IN  /\ Caught(bucket, invalid) \cap Honest = {}
               /\ BadSigners(kept) \cap Honest = {}
               /\ author \in Honest => <<author, TRUE>> \in kept
               /\ \A v \in Honest : <<v, TRUE>> \in bucket0 => <<v, TRUE>> \in kept
  <1> DEFINE bucket == Inserted(bucket0, author, good)
             kept   == Retained(bucket, invalid)
  <1>1. BadSigners(bucket) \cap Honest = {}
    BY DEF BadSigners, Inserted
  <1>2. kept \in SUBSET bucket
    BY DEF Retained
  <1>3. Caught(bucket, invalid) \cap Honest = {}
    BY <1>1 DEF Caught
  <1>4. BadSigners(kept) \cap Honest = {}
    BY <1>1, <1>2 DEF BadSigners
  <1>5. \A v \in Honest : <<v, TRUE>> \in bucket => <<v, TRUE>> \in kept
    BY <1>3 DEF Retained
  <1>6. author \in Honest => <<author, TRUE>> \in bucket
    BY DEF Inserted
  <1>7. \A v \in Honest : <<v, TRUE>> \in bucket0 => <<v, TRUE>> \in bucket
    BY <1>6 DEF Inserted
  <1> HIDE DEF bucket, kept
  <1>8. author \in Honest => <<author, TRUE>> \in kept
    BY <1>5, <1>6
  <1>9. \A v \in Honest : <<v, TRUE>> \in bucket0 => <<v, TRUE>> \in kept
    BY <1>5, <1>7
  <1> QED
    BY <1>3, <1>4, <1>8, <1>9 DEF bucket, kept

\* Forgetting rounds keeps the strengthening.
LEMMA StartNewRoundStarvesNobody ==
    ASSUME NEW pending \in [Rounds -> [Blocks -> SUBSET Signature]],
           NEW invalid \in [Rounds -> SUBSET Validators],
           NEW new_round \in Int,
           StartNewRound(new_round, pending, invalid),
           \A r \in Rounds : invalid[r] \cap Honest = {},
           \A r \in Rounds, b \in Blocks : BadSigners(pending[r][b]) \cap Honest = {}
    PROVE  /\ HonestBlameless'
           /\ \A r \in Rounds : r >= new_round => pending_votes'[r] = pending[r]
  <1>1. ASSUME NEW r \in Rounds, r >= new_round
        PROVE  pending_votes'[r] = pending[r] /\ invalid_voters'[r] = invalid[r]
    BY <1>1 DEF StartNewRound
  <1>2. ASSUME NEW r \in Rounds, ~(r >= new_round)
        PROVE  pending_votes'[r] = [b \in Blocks |-> {}] /\ invalid_voters'[r] = {}
    BY <1>2 DEF StartNewRound
  <1>3. BadSigners({}) = {}
    BY DEF BadSigners
  <1>4. ASSUME NEW r \in Rounds
        PROVE  /\ invalid_voters'[r] \cap Honest = {}
               /\ \A b \in Blocks : BadSigners(pending_votes'[r][b]) \cap Honest = {}
    BY <1>1, <1>2, <1>3
  <1>5. HonestBlameless'
    BY <1>4 DEF HonestBlameless, BadSigners
  <1> QED
    BY <1>1, <1>5

\* A vote keeps the strengthening.
LEMMA HandleVoteStarvesNobody ==
    ASSUME VoteStateInv, NotStarved,
           NEW author \in Validators, NEW good \in BOOLEAN,
           NEW round \in Rounds, NEW block \in Blocks,
           author \in Honest => good = TRUE,
           HandleVote(author, good, round, block)
    PROVE  NotStarved'
  <1> DEFINE bucket  == Inserted(pending_votes[round][block], author, good)
             kept    == Retained(bucket, invalid_voters[round])
             caught  == Caught(bucket, invalid_voters[round])
             pending == [pending_votes EXCEPT ![round][block] = kept]
             invalid == [invalid_voters EXCEPT ![round] = caught]
  <1> USE VoteStateAssumption
  <1>1. /\ pending_votes[round][block] \in SUBSET Signature
        /\ invalid_voters[round] \in SUBSET Validators
        /\ bucket \in SUBSET Signature
    BY BucketTyped DEF VoteStateInv, TypeOK
  <1>2. kept \in SUBSET Signature /\ caught \in SUBSET Validators
    BY <1>1, BucketTyped
  <1>3. /\ caught \cap Honest = {}
        /\ BadSigners(kept) \cap Honest = {}
        /\ author \in Honest => <<author, TRUE>> \in kept
        /\ \A v \in Honest : <<v, TRUE>> \in pending_votes[round][block] => <<v, TRUE>> \in kept
    BY <1>1, KeptHonest DEF NotStarved, HonestBlameless
  <1>4. /\ round >= earliest_round
        /\ delivered' = IF author \in Honest THEN delivered \cup {<<author, round, block>>}
                        ELSE delivered
    BY DEF HandleVote
  <1>5. \/ /\ Authors(kept) \in Supermajority
           /\ earliest_round' = round + 1
           /\ StartNewRound(round + 1, pending, invalid)
        \/ /\ Authors(kept) \notin Supermajority
           /\ pending_votes' = pending /\ invalid_voters' = invalid
           /\ UNCHANGED earliest_round
    BY DEF HandleVote, AdvanceByQC, StartNewRound
  <1> HIDE DEF kept, caught
  <1>6. /\ pending \in [Rounds -> [Blocks -> SUBSET Signature]]
        /\ invalid \in [Rounds -> SUBSET Validators]
    BY <1>2 DEF VoteStateInv, TypeOK
  <1>7. /\ \A r \in Rounds : invalid[r] \cap Honest = {}
        /\ \A r \in Rounds, b \in Blocks : BadSigners(pending[r][b]) \cap Honest = {}
    BY <1>3 DEF NotStarved, HonestBlameless, VoteStateInv, TypeOK
  <1>8. ASSUME NEW v \in Honest, NEW r \in Rounds, NEW b \in Blocks,
               <<v, r, b>> \in delivered', r >= earliest_round
        PROVE  <<v, TRUE>> \in pending[r][b]
    <2>1. CASE <<v, r, b>> \in delivered
      <3>1. <<v, TRUE>> \in pending_votes[r][b]
        BY <2>1, <1>8, Zenon DEF NotStarved, HonestHeld
      <3> QED
        BY <3>1, <1>3 DEF VoteStateInv, TypeOK
    <2>2. CASE <<v, r, b>> \notin delivered
      <3>1. author \in Honest /\ v = author /\ r = round /\ b = block
        BY <2>2, <1>4, <1>8
      <3> QED
        BY <3>1, <1>3 DEF VoteStateInv, TypeOK
    <2> QED
      BY <2>1, <2>2
  <1>9. ASSUME NEW r \in Rounds, NEW b \in Blocks, r >= earliest_round, r # round
        PROVE  Authors(pending[r][b]) \notin Supermajority
    BY <1>9 DEF NotStarved, OpenIsIncomplete, VoteStateInv, TypeOK
  <1>10. earliest_round \in Int /\ round \in Int
    BY DEF VoteStateInv, TypeOK, Rounds
  <1>11. CASE Authors(kept) \in Supermajority
    <2> HIDE DEF pending, invalid
    <2>1. /\ HonestBlameless'
          /\ \A r \in Rounds : r >= round + 1 => pending_votes'[r] = pending[r]
      BY <1>5, <1>6, <1>7, <1>10, <1>11, StartNewRoundStarvesNobody
    <2>2. earliest_round' = round + 1
      BY <1>5, <1>11
    <2>3. \A r \in Rounds : r >= round + 1 => r >= earliest_round /\ r # round
      BY <1>4, <1>10 DEF Rounds
    <2>4. OpenIsIncomplete'
      BY <2>1, <2>2, <2>3, <1>9 DEF OpenIsIncomplete, Authors
    <2>5. HonestHeld'
      BY <2>1, <2>2, <2>3, <1>8 DEF HonestHeld
    <2> QED
      BY <2>1, <2>4, <2>5 DEF NotStarved
  <1>12. CASE Authors(kept) \notin Supermajority
    <2>1. pending_votes' = pending /\ invalid_voters' = invalid /\ earliest_round' = earliest_round
      BY <1>5, <1>12
    <2>2. \A r \in Rounds, b \in Blocks :
             r >= earliest_round => Authors(pending[r][b]) \notin Supermajority
      BY <1>12 DEF NotStarved, OpenIsIncomplete, VoteStateInv, TypeOK
    <2> HIDE DEF pending, invalid
    <2>3. OpenIsIncomplete'
      BY <2>1, <2>2 DEF OpenIsIncomplete, Authors
    <2>4. HonestHeld'
      BY <2>1, <1>8 DEF HonestHeld
    <2>5. HonestBlameless'
      BY <2>1, <1>7 DEF HonestBlameless, BadSigners
    <2> QED
      BY <2>3, <2>4, <2>5 DEF NotStarved
  <1> QED
    BY <1>11, <1>12

\* Certificates from elsewhere keep it too.
LEMMA CertificateStarvesNobody ==
    ASSUME VoteStateInv, NotStarved, ProcessQC \/ ProcessTC
    PROVE  NotStarved'
  <1> USE VoteStateAssumption
  <1>1. CASE ProcessQC
    <2>1. PICK round \in Rounds :
             /\ round >= current_round
             /\ StartNewRound(round + 1, pending_votes, invalid_voters)
             /\ UNCHANGED <<delivered, created>>
      BY <1>1 DEF ProcessQC, AdvanceByQC
    <2>2. /\ pending_votes \in [Rounds -> [Blocks -> SUBSET Signature]]
          /\ invalid_voters \in [Rounds -> SUBSET Validators]
          /\ round + 1 \in Int
      BY DEF VoteStateInv, TypeOK, Rounds
    <2>3. /\ HonestBlameless'
          /\ \A r \in Rounds : r >= round + 1 => pending_votes'[r] = pending_votes[r]
      <3>1. /\ \A r \in Rounds : invalid_voters[r] \cap Honest = {}
            /\ \A r \in Rounds, b \in Blocks : BadSigners(pending_votes[r][b]) \cap Honest = {}
        BY DEF NotStarved, HonestBlameless
      <3> QED
        BY <2>1, <2>2, <3>1, StartNewRoundStarvesNobody
    <2>4. earliest_round' = round + 1
      BY <2>1 DEF StartNewRound
    <2>5. \A r \in Rounds : r >= round + 1 => r >= earliest_round
      BY <2>1 DEF VoteStateInv, TypeOK, CollectorBehind, Rounds
    <2>6. OpenIsIncomplete'
      BY <2>3, <2>4, <2>5 DEF NotStarved, OpenIsIncomplete, Authors
    <2>7. HonestHeld'
      <3> SUFFICES ASSUME NEW v \in Honest, NEW r \in Rounds, NEW b \in Blocks,
                          <<v, r, b>> \in delivered', r >= earliest_round'
                   PROVE  <<v, TRUE>> \in pending_votes'[r][b]
        BY DEF HonestHeld
      <3>1. pending_votes'[r] = pending_votes[r] /\ r >= earliest_round
        BY <2>3, <2>4, <2>5
      <3>2. <<v, TRUE>> \in pending_votes[r][b]
        BY <3>1, <2>1, Zenon DEF NotStarved, HonestHeld
      <3> QED
        BY <3>1, <3>2
    <2> QED
      BY <2>3, <2>6, <2>7 DEF NotStarved
  <1>2. CASE ProcessTC
    <2>1. UNCHANGED <<earliest_round, pending_votes, invalid_voters, delivered>>
      BY <1>2 DEF ProcessTC
    <2> QED
      BY <2>1, Zenon DEF NotStarved, OpenIsIncomplete, HonestHeld, HonestBlameless
  <1> QED
    BY <1>1, <1>2

\* A bad signature never starves a good quorum.
THEOREM VoteStateNotStarved == Spec => []HonestQuorumAdvances
  <1> USE VoteStateAssumption
  <1>1. Init => NotStarved
    <2>1. Authors({}) = {} /\ BadSigners({}) = {}
      BY DEF Authors, BadSigners
    <2> QED
      BY <2>1, EmptyIsNoQuorum DEF Init, NotStarved, OpenIsIncomplete, HonestHeld, HonestBlameless
  <1>2. ASSUME VoteStateInv, NotStarved, [Next]_vars PROVE NotStarved'
    <2>1. CASE HandleVoteMessage
      <3>1. PICK round \in Rounds, block \in Blocks, author \in Validators, good \in BOOLEAN :
               (author \in Honest => good) /\ HandleVote(author, good, round, block)
        BY <2>1 DEF HandleVoteMessage
      <3> QED
        BY <3>1, <1>2, HandleVoteStarvesNobody
    <2>2. CASE ProcessQC \/ ProcessTC
      BY <1>2, <2>2, CertificateStarvesNobody
    <2>3. CASE UNCHANGED vars
      BY <1>2, <2>3, Zenon DEF vars, NotStarved, OpenIsIncomplete, HonestHeld, HonestBlameless
    <2> QED
      BY <1>2, <2>1, <2>2, <2>3 DEF Next
  <1>3. ASSUME VoteStateInv, NotStarved PROVE HonestQuorumAdvances
    <2> SUFFICES ASSUME NEW round \in Rounds, NEW block \in Blocks,
                        {v \in Honest : <<v, round, block>> \in delivered} \in Supermajority,
                        ~(current_round > round)
                 PROVE  FALSE
      BY DEF HonestQuorumAdvances
    <2>1. round >= earliest_round
      BY <1>3 DEF VoteStateInv, TypeOK, CollectorBehind, Rounds
    <2>2. {v \in Honest : <<v, round, block>> \in delivered}
              \subseteq Authors(pending_votes[round][block])
      <3> SUFFICES ASSUME NEW v \in Honest, <<v, round, block>> \in delivered
                   PROVE  v \in Authors(pending_votes[round][block])
        OBVIOUS
      <3>1. <<v, TRUE>> \in pending_votes[round][block]
        BY <1>3, <2>1, Zenon DEF NotStarved, HonestHeld
      <3>2. <<v, TRUE>>[1] = v
        OBVIOUS
      <3> QED
        BY <3>1, <3>2, Zenon DEF Authors
    <2>3. pending_votes[round][block] \in SUBSET Signature
      BY <1>3 DEF VoteStateInv, TypeOK
    <2>4. Authors(pending_votes[round][block]) \in SUBSET Validators
      BY <2>3 DEF Authors, Signature
    <2>5. Authors(pending_votes[round][block]) \in Supermajority
      BY <2>2, <2>4
    <2> QED
      BY <1>3, <2>1, <2>5 DEF NotStarved, OpenIsIncomplete
  <1> QED
    BY InitInv, StepInv, <1>1, <1>2, <1>3, PTL DEF Spec

=============================================================================
