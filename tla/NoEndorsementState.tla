--------------------------- MODULE NoEndorsementState ---------------------------
(***************************************************************************)
(* The collector of no-endorsements of one leader                          *)
(* (consensus/src/no_endorsement_state.rs) with the handlers that own it   *)
(* (consensus-state/src/lib.rs).  A leader whose TC carries a tip it does  *)
(* not hold asks the validators for it; those that do not hold it either   *)
(* answer with a no-endorsement of the round, and a supermajority of them  *)
(* makes the NEC that try_propose looks up with get_nec.                   *)
(*                                                                         *)
(* Honest validators sign correctly, once per round; the others send any   *)
(* no-endorsement with a good or a bad signature.                          *)
(***************************************************************************)
EXTENDS Integers, FiniteSets

CONSTANTS Validators,      \* the validator set of the epoch
          Honest,          \* the validators that follow the protocol
          Supermajority,   \* the sets that has_super_majority_votes accepts
          TipQCRounds,     \* the rounds of tip QCs that no-endorsements name
          MaxRound         \* bound: the last round that is no-endorsed

ASSUME NoEndorsementAssumption ==
    /\ Honest \subseteq Validators
    /\ Supermajority \subseteq SUBSET Validators
    /\ {} \notin Supermajority
    /\ \A Q \in Supermajority, S \in SUBSET Validators : Q \subseteq S => S \in Supermajority
    /\ MaxRound \in Nat \ {0}

Rounds == 1..MaxRound

VARIABLES
    current_round,   \* pacemaker.get_current_round()
    earliest_round,  \* NoEndorsementState::earliest_round
    pending,         \* round -> tip QC round -> <<author, signature is good>> held
    invalid_senders, \* round -> validators caught with a bad signature
    certificate,     \* round -> the NECs stored for it (at most one)
    delivered,       \* history: <<author, round, tip QC round>> of honest validators
    created,         \* history: the NECs this node created
    panicked         \* an assert of process_no_endorsement has failed

vars == <<current_round, earliest_round, pending, invalid_senders, certificate,
          delivered, created, panicked>>

Signature == Validators \X BOOLEAN
Authors(bucket) == {s[1] : s \in bucket}
GoodSigners(bucket) == {s[1] : s \in {t \in bucket : t[2]}}
BadSigners(bucket) == {s[1] : s \in {t \in bucket : ~t[2]}}

NEC == [round : Rounds, tip_qc_round : TipQCRounds, signatures : SUBSET Signature]

EmptyBuckets == [q \in TipQCRounds |-> {}]

Init ==
    /\ current_round = 1
    /\ earliest_round = 1
    /\ pending = [r \in Rounds |-> EmptyBuckets]
    /\ invalid_senders = [r \in Rounds |-> {}]
    /\ certificate = [r \in Rounds |-> {}]
    /\ delivered = {}
    /\ created = {}
    /\ panicked = FALSE

-----------------------------------------------------------------------------
\* start_new_round: earliest_round never goes back; older rounds are forgotten,
\* their certificates with them.
StartNewRound(new_round) ==
    /\ earliest_round' = IF new_round > earliest_round THEN new_round ELSE earliest_round
    /\ pending' = [r \in Rounds |-> IF r >= new_round THEN pending[r] ELSE EmptyBuckets]
    /\ invalid_senders' = [r \in Rounds |-> IF r >= new_round THEN invalid_senders[r] ELSE {}]
    /\ certificate' = [r \in Rounds |-> IF r >= new_round THEN certificate[r] ELSE {}]

\* The signatures of a bucket once the author's newest one is inserted.
Inserted(bucket, author, good) ==
    {s \in bucket : s[1] # author} \cup {<<author, good>>}

\* Mutant: everybody in a bucket with a bad signature is blamed for it.
Caught_EveryAuthor(bucket, invalid) ==
    IF Authors(bucket) \in Supermajority /\ BadSigners(bucket) # {}
    THEN invalid \cup Authors(bucket) ELSE invalid

\* handle_invalid_no_endorsement: the bad signers of a full bucket are noted ...
Caught(bucket, invalid) ==
    IF Authors(bucket) \in Supermajority THEN invalid \cup BadSigners(bucket) ELSE invalid

\* Mutant: a certificate is made of whatever was collected.
Retained_All(bucket, invalid) == bucket

\* ... and every invalid sender leaves the bucket.
Retained(bucket, invalid) ==
    IF Authors(bucket) \in Supermajority /\ BadSigners(bucket) # {}
    THEN {s \in bucket : s[1] \notin Caught(bucket, invalid)}
    ELSE bucket

\* Mutant: the round stays open after its NEC.
RoundAfterNEC_Same(round) == round

\* "we update self.earliest round so that we no longer will build an NEC for
\* current round".
RoundAfterNEC(round) == round + 1

\* process_no_endorsement for a no-endorsement that is not dropped.  The bucket
\* of a NEC stays where it is.
ProcessNoEndorsement(author, good, round, tip_qc_round) ==
    LET bucket == Inserted(pending[round][tip_qc_round], author, good)
        kept   == Retained(bucket, invalid_senders[round])
        nec    == [round |-> round, tip_qc_round |-> tip_qc_round, signatures |-> kept]
    IN  /\ pending' = [pending EXCEPT ![round][tip_qc_round] = kept]
        /\ invalid_senders' = [invalid_senders EXCEPT ![round] = Caught(bucket, @)]
        /\ \/ /\ Authors(kept) \in Supermajority
              /\ earliest_round' = RoundAfterNEC(round)
              /\ panicked' = (certificate[round] # {})
              /\ certificate' = [certificate EXCEPT ![round] = {nec}]
              /\ created' = created \cup {nec}
           \/ /\ Authors(kept) \notin Supermajority
              /\ UNCHANGED <<earliest_round, certificate, created, panicked>>

\* handle_no_endorsement_message: only the current round is collected for.  An
\* honest validator no-endorses once in a round; the network may repeat it.
HandleNoEndorsementMessage ==
    \E round \in Rounds, tip_qc_round \in TipQCRounds, author \in Validators, good \in BOOLEAN :
        /\ ~panicked
        /\ author \in Honest =>
              /\ good
              /\ \A d \in delivered : d[1] = author /\ d[2] = round => d[3] = tip_qc_round
        /\ round = current_round
        /\ round >= earliest_round
        /\ author \notin invalid_senders[round]
        /\ ProcessNoEndorsement(author, good, round, tip_qc_round)
        /\ delivered' = IF author \in Honest
                        THEN delivered \cup {<<author, round, tip_qc_round>>} ELSE delivered
        /\ UNCHANGED current_round

\* process_qc for a QC that is not older than the current round.
ProcessQC ==
    \E round \in Rounds :
        /\ ~panicked
        /\ round >= current_round
        /\ current_round' = round + 1
        /\ StartNewRound(round + 1)
        /\ UNCHANGED <<delivered, created, panicked>>

\* process_tc moves the round and leaves the collector alone.
ProcessTC ==
    \E round \in Rounds :
        /\ ~panicked
        /\ round >= current_round
        /\ current_round' = round + 1
        /\ UNCHANGED <<earliest_round, pending, invalid_senders, certificate,
                       delivered, created, panicked>>

Next == HandleNoEndorsementMessage \/ ProcessQC \/ ProcessTC

Spec == Init /\ [][Next]_vars

-----------------------------------------------------------------------------
\* What the collector holds.
TypeOK ==
    /\ current_round \in 1..MaxRound + 1
    /\ earliest_round \in 1..MaxRound + 1
    /\ pending \in [Rounds -> [TipQCRounds -> SUBSET Signature]]
    /\ invalid_senders \in [Rounds -> SUBSET Validators]
    /\ certificate \in [Rounds -> SUBSET NEC]
    /\ delivered \subseteq Honest \X Rounds \X TipQCRounds
    /\ created \subseteq NEC
    /\ panicked \in BOOLEAN

\* process_no_endorsement's assert!(round_state.certificate.is_none()) never
\* fails, although the full bucket stays and further no-endorsements of the
\* round keep arriving.
NeverPanics == ~panicked

\* Once the no-endorsements of a supermajority of honest validators for the
\* current round and one tip were accepted, get_nec of that round has a NEC of
\* good signatures for try_propose, however many bad signatures and repeated
\* no-endorsements were collected in between.
HonestNECServed ==
    \A round \in Rounds, q \in TipQCRounds :
        (/\ round = current_round
         /\ {v \in Honest : <<v, round, q>> \in delivered} \in Supermajority)
            => \E nec \in certificate[round] : GoodSigners(nec.signatures) \in Supermajority

\* A NEC as the certificate it stands for, with those of its signers whose
\* signature is good.
CertificateOf(nec) == [round |-> nec.round, value |-> nec.tip_qc_round,
                      signers |-> GoodSigners(nec.signatures)]
Certificates == {CertificateOf(nec) : nec \in created}

Collector == INSTANCE CertificateCollector
             WITH Quorums <- Supermajority, Values <- TipQCRounds, Rounds <- Rounds,
                  floor <- earliest_round, certificates <- Certificates

\* NoEndorsementState is a certificate collector: at most one NEC per round, in
\* increasing rounds, each signed well by a supermajority, and no round is
\* opened again after start_new_round or a NEC closed it.
ImplementsCollector == Collector!Spec

=============================================================================
