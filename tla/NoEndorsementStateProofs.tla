------------------------ MODULE NoEndorsementStateProofs ------------------------
(* Proofs about NoEndorsementState for every validator set and bound. *)
EXTENDS NoEndorsementState, TLAPS

(***************************************************************************)
(* The inductive invariant.  A round with a NEC is closed; the buckets of  *)
(* the open rounds are no supermajorities and still hold what honest       *)
(* validators sent for them; honest validators are never blamed; and       *)
(* earliest_round is ahead of the current round only because of a NEC of   *)
(* the current round, which is kept.                                       *)
(***************************************************************************)
CertifiedIsClosed ==
    \A r \in Rounds : certificate[r] # {} => r < earliest_round

OpenIsIncomplete ==
    \A r \in Rounds, q \in TipQCRounds :
        r >= earliest_round => Authors(pending[r][q]) \notin Supermajority

HonestHeld ==
    \A v \in Honest, r \in Rounds, q \in TipQCRounds :
        <<v, r, q>> \in delivered /\ r >= earliest_round /\ r >= current_round
            => <<v, TRUE>> \in pending[r][q]

HonestBlameless ==
    /\ \A r \in Rounds : invalid_senders[r] \cap Honest = {}
    /\ \A r \in Rounds, q \in TipQCRounds : BadSigners(pending[r][q]) \cap Honest = {}

AheadHasNEC ==
    /\ earliest_round <= current_round + 1
    /\ earliest_round > current_round =>
          \E nec \in certificate[current_round] : GoodSigners(nec.signatures) \in Supermajority

CollectorInv ==
    /\ TypeOK
    /\ NeverPanics
    /\ CertifiedIsClosed
    /\ OpenIsIncomplete
    /\ HonestHeld
    /\ HonestBlameless
    /\ AheadHasNEC

\* The initial state satisfies the invariant.
LEMMA InitInv == Init => CollectorInv
  <1> SUFFICES ASSUME Init PROVE CollectorInv
    OBVIOUS
  <1> USE NoEndorsementAssumption
  <1>0. panicked = FALSE
    BY DEF Init
  <1>1. TypeOK /\ NeverPanics
    <2>1. /\ current_round \in 1..MaxRound + 1
          /\ earliest_round \in 1..MaxRound + 1
      BY DEF Init
    <2>2. pending \in [Rounds -> [TipQCRounds -> SUBSET Signature]]
      BY DEF Init, EmptyBuckets
    <2> QED
      BY <1>0, <2>1, <2>2, Zenon DEF Init, TypeOK, NeverPanics
  <1>2. CertifiedIsClosed /\ HonestHeld /\ AheadHasNEC
    BY DEF Init, CertifiedIsClosed, HonestHeld, AheadHasNEC
  <1>3. OpenIsIncomplete /\ HonestBlameless
    BY DEF Init, OpenIsIncomplete, HonestBlameless, EmptyBuckets, Authors, BadSigners
  <1> QED
    BY <1>1, <1>2, <1>3 DEF CollectorInv

\* What is left in a bucket after a no-endorsement was inserted and the bad
\* signers of a full bucket were removed.
LEMMA Kept ==
    ASSUME NEW bucket0 \in SUBSET Signature, NEW invalid \in SUBSET Validators,
           NEW author \in Validators, NEW good \in BOOLEAN,
           author \in Honest => good = TRUE,
           BadSigners(bucket0) \cap Honest = {}, invalid \cap Honest = {}
    PROVE  LET bucket == Inserted(bucket0, author, good)
               kept   == Retained(bucket, invalid)
           IN  /\ kept \in SUBSET Signature
               /\ Caught(bucket, invalid) \in SUBSET Validators
               /\ Caught(bucket, invalid) \cap Honest = {}
               /\ BadSigners(kept) \cap Honest = {}
               /\ author \in Honest => <<author, TRUE>> \in kept
               /\ \A v \in Honest : <<v, TRUE>> \in bucket0 => <<v, TRUE>> \in kept
               /\ Authors(kept) \in Supermajority => GoodSigners(kept) = Authors(kept)
  <1> DEFINE bucket == Inserted(bucket0, author, good)
             kept   == Retained(bucket, invalid)
  <1>1. bucket \in SUBSET Signature
    BY DEF Inserted, Signature
  <1>2. BadSigners(bucket) \in SUBSET Validators
    BY <1>1 DEF BadSigners, Signature
  <1>3. BadSigners(bucket) \cap Honest = {}
    BY DEF BadSigners, Inserted
  <1>4. kept \in SUBSET bucket
    BY DEF Retained
  <1>5. Caught(bucket, invalid) \in SUBSET Validators /\ Caught(bucket, invalid) \cap Honest = {}
    BY <1>2, <1>3 DEF Caught
  <1>6. BadSigners(kept) \cap Honest = {}
    BY <1>3, <1>4 DEF BadSigners
  <1>7. \A v \in Honest : <<v, TRUE>> \in bucket => <<v, TRUE>> \in kept
    BY <1>5 DEF Retained
  <1>8. author \in Honest => <<author, TRUE>> \in bucket
    BY DEF Inserted
  <1>9. \A v \in Honest : <<v, TRUE>> \in bucket0 => <<v, TRUE>> \in bucket
    BY <1>8 DEF Inserted
  <1>10. ASSUME Authors(kept) \in Supermajority PROVE GoodSigners(kept) = Authors(kept)
    <2>1. BadSigners(kept) = {}
      <3>1. CASE Authors(bucket) \in Supermajority /\ BadSigners(bucket) # {}
        <4>1. kept = {s \in bucket : s[1] \notin Caught(bucket, invalid)}
          BY <3>1 DEF Retained
        <4>2. BadSigners(bucket) \subseteq Caught(bucket, invalid)
          BY <3>1 DEF Caught
        <4> QED
          BY <4>1, <4>2 DEF BadSigners
      <3>2. CASE ~(Authors(bucket) \in Supermajority /\ BadSigners(bucket) # {})
        BY <3>2, <1>10 DEF Retained
      <3> QED
        BY <3>1, <3>2
    <2>2. \A s \in kept : s[2] = TRUE
      BY <1>1, <1>4, <2>1 DEF BadSigners, Signature
    <2> QED
      BY <2>2 DEF GoodSigners, Authors
  <1> HIDE DEF bucket, kept
  <1>11. kept \in SUBSET Signature
    BY <1>1, <1>4
  <1>12. author \in Honest => <<author, TRUE>> \in kept
    BY <1>7, <1>8
  <1>13. \A v \in Honest : <<v, TRUE>> \in bucket0 => <<v, TRUE>> \in kept
    BY <1>7, <1>9
  <1> QED
    BY <1>5, <1>6, <1>10, <1>11, <1>12, <1>13 DEF bucket, kept

\* A no-endorsement that handle_no_endorsement_message accepts, with everything
\* process_no_endorsement does for it.
Accepts(author, good, round, tip_qc_round) ==
    /\ author \in Honest => good
    /\ round = current_round
    /\ round >= earliest_round
    /\ ProcessNoEndorsement(author, good, round, tip_qc_round)
    /\ delivered' = IF author \in Honest
                    THEN delivered \cup {<<author, round, tip_qc_round>>} ELSE delivered
    /\ UNCHANGED current_round

\* It preserves the invariant, and makes a certificate or leaves them alone.
LEMMA AcceptsInv ==
    ASSUME CollectorInv,
           NEW author \in Validators, NEW good \in BOOLEAN,
           NEW round \in Rounds, NEW q \in TipQCRounds,
           Accepts(author, good, round, q)
    PROVE  /\ CollectorInv'
           /\ \/ \E kept \in SUBSET Signature :
                    /\ GoodSigners(kept) \in Supermajority
                    /\ round >= earliest_round
                    /\ earliest_round' = round + 1
                    /\ created' = created \cup
                          {[round |-> round, tip_qc_round |-> q, signatures |-> kept]}
              \/ UNCHANGED <<earliest_round, created>>
  <1> DEFINE bucket  == Inserted(pending[round][q], author, good)
             kept    == Retained(bucket, invalid_senders[round])
             caught  == Caught(bucket, invalid_senders[round])
             nec     == [round |-> round, tip_qc_round |-> q, signatures |-> kept]
  <1> USE NoEndorsementAssumption
  <1>1. /\ pending[round][q] \in SUBSET Signature
        /\ invalid_senders[round] \in SUBSET Validators
    BY DEF CollectorInv, TypeOK
  <1>2. author \in Honest => good = TRUE
    BY DEF Accepts
  <1>3. /\ kept \in SUBSET Signature
        /\ caught \in SUBSET Validators
        /\ caught \cap Honest = {}
        /\ BadSigners(kept) \cap Honest = {}
        /\ author \in Honest => <<author, TRUE>> \in kept
        /\ \A v \in Honest : <<v, TRUE>> \in pending[round][q] => <<v, TRUE>> \in kept
        /\ Authors(kept) \in Supermajority => GoodSigners(kept) = Authors(kept)
    BY <1>1, <1>2, Kept DEF CollectorInv, HonestBlameless
  <1>4. /\ pending' = [pending EXCEPT ![round][q] = kept]
        /\ invalid_senders' = [invalid_senders EXCEPT ![round] = caught]
        /\ round = current_round /\ round >= earliest_round
        /\ current_round' = current_round
        /\ delivered' = IF author \in Honest
                        THEN delivered \cup {<<author, round, q>>} ELSE delivered
    BY DEF Accepts, ProcessNoEndorsement
  <1>5. certificate[round] = {}
    BY <1>4 DEF CollectorInv, TypeOK, CertifiedIsClosed, Rounds
  <1>6. \/ /\ Authors(kept) \in Supermajority
           /\ earliest_round' = round + 1
           /\ panicked' = FALSE
           /\ certificate' = [certificate EXCEPT ![round] = {nec}]
           /\ created' = created \cup {nec}
        \/ /\ Authors(kept) \notin Supermajority
           /\ UNCHANGED <<earliest_round, certificate, created, panicked>>
    BY <1>5 DEF Accepts, ProcessNoEndorsement, RoundAfterNEC
  <1> HIDE DEF kept, caught
  <1>7. nec \in NEC
    BY <1>3 DEF NEC
  <1> HIDE DEF nec
  <1>8. /\ pending' \in [Rounds -> [TipQCRounds -> SUBSET Signature]]
        /\ invalid_senders' \in [Rounds -> SUBSET Validators]
        /\ delivered' \subseteq Honest \X Rounds \X TipQCRounds
        /\ current_round' \in 1..MaxRound + 1
    BY <1>3, <1>4 DEF CollectorInv, TypeOK
  <1>9. /\ earliest_round' \in 1..MaxRound + 1
        /\ certificate' \in [Rounds -> SUBSET NEC]
        /\ created' \subseteq NEC
    BY <1>6, <1>7 DEF CollectorInv, TypeOK, Rounds
  <1>10. panicked' = FALSE
    BY <1>6 DEF CollectorInv, NeverPanics, TypeOK
  <1>11. TypeOK' /\ NeverPanics'
    BY <1>8, <1>9, <1>10, Zenon DEF TypeOK, NeverPanics
  <1>12. earliest_round' >= earliest_round
    BY <1>4, <1>6 DEF CollectorInv, TypeOK, Rounds
  <1>13. CertifiedIsClosed'
    BY <1>4, <1>6, <1>12 DEF CollectorInv, TypeOK, CertifiedIsClosed, Rounds
  <1>14. OpenIsIncomplete'
    BY <1>4, <1>6, <1>12 DEF CollectorInv, TypeOK, OpenIsIncomplete, Rounds
  <1>15. HonestHeld'
    <2> SUFFICES ASSUME NEW v \in Honest, NEW r \in Rounds, NEW p \in TipQCRounds,
                        <<v, r, p>> \in delivered', r >= earliest_round', r >= current_round'
                 PROVE  <<v, TRUE>> \in pending'[r][p]
      BY DEF HonestHeld
    <2>1. CASE <<v, r, p>> \in delivered
      <3>1. r >= earliest_round /\ r >= current_round
        BY <1>4, <1>9, <1>12 DEF CollectorInv, TypeOK, Rounds
      <3>2. <<v, TRUE>> \in pending[r][p]
        BY <2>1, <3>1 DEF CollectorInv, HonestHeld
      <3> QED
        BY <3>2, <1>3, <1>4 DEF CollectorInv, TypeOK
    <2>2. CASE <<v, r, p>> \notin delivered
      <3>1. author \in Honest /\ v = author /\ r = round /\ p = q
        BY <2>2, <1>4
      <3> QED
        BY <3>1, <1>3, <1>4 DEF CollectorInv, TypeOK
    <2> QED
      BY <2>1, <2>2
  <1>16. HonestBlameless'
    BY <1>3, <1>4 DEF CollectorInv, TypeOK, HonestBlameless
  <1>17. AheadHasNEC'
    <2>1. CASE Authors(kept) \in Supermajority
      <3>1. nec \in certificate'[current_round'] /\ GoodSigners(nec.signatures) \in Supermajority
        BY <2>1, <1>3, <1>4, <1>6 DEF CollectorInv, TypeOK, nec
      <3> QED
        BY <2>1, <3>1, <1>4, <1>6 DEF CollectorInv, TypeOK, AheadHasNEC, Rounds
    <2>2. CASE Authors(kept) \notin Supermajority
      BY <2>2, <1>4, <1>6 DEF CollectorInv, TypeOK, AheadHasNEC, Rounds
    <2> QED
      BY <2>1, <2>2
  <1>18. CollectorInv'
    BY <1>11, <1>13, <1>14, <1>15, <1>16, <1>17 DEF CollectorInv
  <1>19. CASE Authors(kept) \in Supermajority
    BY <1>18, <1>19, <1>3, <1>4, <1>6 DEF nec
  <1>20. CASE Authors(kept) \notin Supermajority
    BY <1>18, <1>20, <1>6
  <1> QED
    BY <1>19, <1>20

\* The invariant is kept when start_new_round forgets rounds, and a QC creates no NEC.
LEMMA ProcessQCInv ==
    ASSUME CollectorInv, ProcessQC
    PROVE  /\ CollectorInv'
           /\ UNCHANGED created
           /\ earliest_round' > earliest_round \/ UNCHANGED earliest_round
  <1> USE NoEndorsementAssumption
  <1>1. PICK round \in Rounds :
           /\ round >= current_round
           /\ current_round' = round + 1
           /\ StartNewRound(round + 1)
           /\ UNCHANGED <<delivered, created, panicked>>
    BY DEF ProcessQC
  <1>2. /\ current_round \in Int /\ earliest_round \in Int /\ round \in Int
        /\ round + 1 \in 1..MaxRound + 1
        /\ earliest_round <= round + 1
    BY <1>1 DEF CollectorInv, TypeOK, AheadHasNEC, Rounds
  <1>3. earliest_round' = round + 1
    <2>1. earliest_round' = IF round + 1 > earliest_round THEN round + 1 ELSE earliest_round
      BY <1>1 DEF StartNewRound
    <2> QED
      BY <1>2, <2>1
  <1>4. /\ pending' \in [Rounds -> [TipQCRounds -> SUBSET Signature]]
        /\ invalid_senders' \in [Rounds -> SUBSET Validators]
        /\ certificate' \in [Rounds -> SUBSET NEC]
    BY <1>1, <1>2 DEF CollectorInv, TypeOK, StartNewRound, EmptyBuckets, Rounds
  <1>5. panicked' = panicked
    BY <1>1
  <1>6. TypeOK' /\ NeverPanics'
    <2>1. current_round' \in 1..MaxRound + 1 /\ earliest_round' \in 1..MaxRound + 1
      BY <1>1, <1>2, <1>3
    <2> QED
      BY <1>1, <1>4, <1>5, <2>1 DEF CollectorInv, TypeOK, NeverPanics
  <1>7. ASSUME NEW r \in Rounds, r >= round + 1
        PROVE  /\ pending'[r] = pending[r]
               /\ invalid_senders'[r] = invalid_senders[r]
               /\ certificate'[r] = certificate[r]
    BY <1>1, <1>7 DEF StartNewRound
  <1>7a. ASSUME NEW r \in Rounds, ~(r >= round + 1)
         PROVE  /\ pending'[r] = EmptyBuckets
                /\ invalid_senders'[r] = {}
                /\ certificate'[r] = {}
    BY <1>1, <1>7a DEF StartNewRound
  <1>8. CertifiedIsClosed'
    <2> SUFFICES ASSUME NEW r \in Rounds, certificate'[r] # {} PROVE r < earliest_round'
      BY DEF CertifiedIsClosed
    <2>1. CASE ~(r >= round + 1)
      BY <2>1, <1>2, <1>3 DEF Rounds
    <2>2. CASE r >= round + 1
      <3>1. r < earliest_round
        BY <2>2, <1>7 DEF CollectorInv, CertifiedIsClosed
      <3> QED
        BY <3>1, <2>2, <1>2 DEF Rounds
    <2> QED
      BY <2>1, <2>2
  <1>9. OpenIsIncomplete'
    BY <1>2, <1>3, <1>7 DEF CollectorInv, OpenIsIncomplete, Rounds
  <1>10. HonestHeld'
    <2> SUFFICES ASSUME NEW v \in Honest, NEW r \in Rounds, NEW q \in TipQCRounds,
                        <<v, r, q>> \in delivered', r >= earliest_round', r >= current_round'
                 PROVE  <<v, TRUE>> \in pending'[r][q]
      BY DEF HonestHeld
    <2>1. r >= round + 1 /\ r >= earliest_round /\ r >= current_round
      BY <1>1, <1>2, <1>3 DEF Rounds
    <2>2. <<v, TRUE>> \in pending[r][q]
      BY <2>1, <1>1, Zenon DEF CollectorInv, HonestHeld
    <2> QED
      BY <2>1, <2>2, <1>7
  <1>11. HonestBlameless'
    <2> SUFFICES ASSUME NEW r \in Rounds
                 PROVE  /\ invalid_senders'[r] \cap Honest = {}
                        /\ \A q \in TipQCRounds : BadSigners(pending'[r][q]) \cap Honest = {}
      BY DEF HonestBlameless, BadSigners
    <2>1. CASE r >= round + 1
      BY <2>1, <1>7 DEF CollectorInv, HonestBlameless
    <2>2. CASE ~(r >= round + 1)
      <3>1. \A q \in TipQCRounds : pending'[r][q] = {}
        BY <2>2, <1>7a DEF EmptyBuckets
      <3>2. BadSigners({}) = {}
        BY DEF BadSigners
      <3> QED
        BY <2>2, <1>7a, <3>1, <3>2
    <2> QED
      BY <2>1, <2>2
  <1>12. AheadHasNEC'
    BY <1>1, <1>2, <1>3 DEF AheadHasNEC
  <1> QED
    BY <1>1, <1>2, <1>3, <1>6, <1>8, <1>9, <1>10, <1>11, <1>12 DEF CollectorInv

\* A TC leaves the collector alone.
LEMMA ProcessTCInv ==
    ASSUME CollectorInv, ProcessTC
    PROVE  CollectorInv' /\ UNCHANGED <<earliest_round, created>>
  <1> USE NoEndorsementAssumption
  <1>1. PICK round \in Rounds :
           /\ round >= current_round
           /\ current_round' = round + 1
           /\ UNCHANGED <<earliest_round, pending, invalid_senders, certificate,
                          delivered, created, panicked>>
    BY DEF ProcessTC
  <1>2. /\ current_round \in Int /\ earliest_round \in Int /\ round \in Int
        /\ round + 1 \in 1..MaxRound + 1 /\ earliest_round <= round + 1
    BY <1>1 DEF CollectorInv, TypeOK, AheadHasNEC, Rounds
  <1>3. TypeOK' /\ NeverPanics'
    BY <1>1, <1>2, Zenon DEF CollectorInv, TypeOK, NeverPanics
  <1>4. CertifiedIsClosed' /\ OpenIsIncomplete' /\ HonestBlameless'
    BY <1>1, Zenon DEF CollectorInv, CertifiedIsClosed, OpenIsIncomplete, HonestBlameless
  <1>5. HonestHeld'
    <2> SUFFICES ASSUME NEW v \in Honest, NEW r \in Rounds, NEW q \in TipQCRounds,
                        <<v, r, q>> \in delivered', r >= earliest_round', r >= current_round'
                 PROVE  <<v, TRUE>> \in pending'[r][q]
      BY DEF HonestHeld
    <2>1. r >= earliest_round /\ r >= current_round
      BY <1>1, <1>2 DEF Rounds
    <2> QED
      BY <2>1, <1>1, Zenon DEF CollectorInv, HonestHeld
  <1>6. AheadHasNEC'
    BY <1>1, <1>2 DEF AheadHasNEC
  <1> QED
    BY <1>1, <1>3, <1>4, <1>5, <1>6 DEF CollectorInv

\* Every step preserves the invariant.
LEMMA StepInv ==
    ASSUME CollectorInv, [Next]_vars
    PROVE  CollectorInv'
  <1>1. CASE HandleNoEndorsementMessage
    <2>1. PICK round \in Rounds, q \in TipQCRounds, author \in Validators, good \in BOOLEAN :
             Accepts(author, good, round, q)
      BY <1>1 DEF HandleNoEndorsementMessage, Accepts
    <2> QED
      BY <2>1, AcceptsInv
  <1>2. CASE ProcessQC
    BY <1>2, ProcessQCInv
  <1>3. CASE ProcessTC
    BY <1>3, ProcessTCInv
  <1>4. CASE UNCHANGED vars
    BY <1>4, Zenon DEF vars, CollectorInv, TypeOK, NeverPanics, CertifiedIsClosed,
                       OpenIsIncomplete, HonestHeld, HonestBlameless, AheadHasNEC
  <1> QED
    BY <1>1, <1>2, <1>3, <1>4 DEF Next

\* The invariant implies what try_propose needs.
LEMMA InvServes == CollectorInv => HonestNECServed
  <1> SUFFICES ASSUME CollectorInv, NEW round \in Rounds, NEW q \in TipQCRounds,
                      round = current_round,
                      {v \in Honest : <<v, round, q>> \in delivered} \in Supermajority
               PROVE  \E nec \in certificate[round] : GoodSigners(nec.signatures) \in Supermajority
    BY DEF HonestNECServed
  <1> DEFINE voters == {v \in Honest : <<v, round, q>> \in delivered}
  <1> USE NoEndorsementAssumption
  <1>1. pending[round][q] \in SUBSET Signature
    BY DEF CollectorInv, TypeOK
  <1>2. CASE round >= earliest_round
    <2>0. round >= current_round
      BY DEF Rounds
    <2>1. \A v \in Honest : <<v, round, q>> \in delivered => <<v, TRUE>> \in pending[round][q]
      BY <2>0, <1>2, Zenon DEF CollectorInv, HonestHeld
    <2>2. voters \subseteq Authors(pending[round][q])
      <3> SUFFICES ASSUME NEW v \in Honest, <<v, round, q>> \in delivered
                   PROVE  v \in Authors(pending[round][q])
        OBVIOUS
      <3>1. <<v, TRUE>> \in pending[round][q] /\ <<v, TRUE>>[1] = v
        BY <2>1
      <3> QED
        BY <3>1, Zenon DEF Authors
    <2>3. Authors(pending[round][q]) \in SUBSET Validators
      BY <1>1 DEF Authors, Signature
    <2> QED
      BY <2>2, <2>3, <1>2 DEF CollectorInv, OpenIsIncomplete
  <1>3. CASE ~(round >= earliest_round)
    BY <1>3 DEF CollectorInv, TypeOK, AheadHasNEC, Rounds
  <1> QED
    BY <1>2, <1>3

\* no_endorsement_state.rs keeps its variables in their types.
THEOREM TypeCorrect == Spec => []TypeOK
  <1>1. CollectorInv => TypeOK
    BY DEF CollectorInv
  <1> QED
    BY InitInv, StepInv, <1>1, PTL DEF Spec

\* The assertion that a round has no certificate yet never fails.
THEOREM NECAssertionHolds == Spec => []NeverPanics
  <1>1. CollectorInv => NeverPanics
    BY DEF CollectorInv
  <1> QED
    BY InitInv, StepInv, <1>1, PTL DEF Spec

\* A leader that received the no-endorsements of a supermajority of honest
\* validators for its round finds the NEC when it proposes.
THEOREM NECServed == Spec => []HonestNECServed
  BY InitInv, StepInv, InvServes, PTL DEF Spec

\* Every step of the collector is a step, or no step, of CertificateCollector.
LEMMA StepRefines ==
    ASSUME CollectorInv, [Next]_vars
    PROVE  [Collector!Next]_(Collector!vars)
  <1>1. CASE HandleNoEndorsementMessage
    <2>1. PICK round \in Rounds, q \in TipQCRounds, author \in Validators, good \in BOOLEAN :
             Accepts(author, good, round, q)
      BY <1>1 DEF HandleNoEndorsementMessage, Accepts
    <2>2. CASE UNCHANGED <<earliest_round, created>>
      BY <2>2 DEF Collector!vars, Certificates
    <2>3. CASE ~UNCHANGED <<earliest_round, created>>
      <3>1. PICK kept \in SUBSET Signature :
               /\ GoodSigners(kept) \in Supermajority
               /\ round >= earliest_round
               /\ earliest_round' = round + 1
               /\ created' = created \cup
                     {[round |-> round, tip_qc_round |-> q, signatures |-> kept]}
        BY <2>1, <2>3, AcceptsInv
      <3> DEFINE nec == [round |-> round, tip_qc_round |-> q, signatures |-> kept]
      <3>2. Certificates' = Certificates \cup {CertificateOf(nec)}
        <4> HIDE DEF nec
        <4> QED
          BY <3>1 DEF Certificates, nec
      <3>3. CertificateOf(nec) = [round |-> round, value |-> q, signers |-> GoodSigners(kept)]
        BY DEF CertificateOf
      <3>4. Collector!Certify
        BY <3>1, <3>2, <3>3 DEF Collector!Certify
      <3> QED
        BY <3>4 DEF Collector!Next
    <2> QED
      BY <2>2, <2>3
  <1>2. CASE ProcessQC
    <2>1. Certificates' = Certificates
      BY <1>2, ProcessQCInv DEF Certificates
    <2> QED
      BY <1>2, <2>1, ProcessQCInv DEF Collector!Next, Collector!GiveUp, Collector!vars
  <1>3. CASE ProcessTC
    BY <1>3, ProcessTCInv DEF Collector!vars, Certificates
  <1>4. CASE UNCHANGED vars
    BY <1>4 DEF vars, Collector!vars, Certificates
  <1> QED
    BY <1>1, <1>2, <1>3, <1>4 DEF Next

\* no_endorsement_state.rs implements the certificate collector.
THEOREM NoEndorsementStateImplementsCollector == Spec => ImplementsCollector
  <1>1. Init => Collector!Init
    BY DEF Init, Collector!Init, Certificates
  <1> QED
    BY InitInv, StepInv, StepRefines, <1>1, PTL DEF Spec, ImplementsCollector, Collector!Spec

=============================================================================
