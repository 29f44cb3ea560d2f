----------------------------- MODULE KinetBFTProofs -----------------------------
(***************************************************************************)
(* What the voting rules of Safety and Pacemaker guarantee for every       *)
(* validator set, quorum system, block tree and number of rounds.  The     *)
(* inductive invariant relates what a node remembers to what it has        *)
(* signed: a message it signed in an earlier round no longer matters, and  *)
(* for the current round its state still determines the message.           *)
(*                                                                         *)
(* The last part is finality.  Its invariant, FInv, follows a block that   *)
(* may still get the QC which commits its parent: whoever has voted for it *)
(* votes for, reports and holds nothing worse in any later round.          *)
(***************************************************************************)
EXTENDS KinetBFT, TLAPS

\* The QC in a checkpointed certificate is not newer than the certificate.
ForkpointsOK(F) == \A cert \in F : cert.qc_round <= cert.round

\* A node's certificate and its marks never run ahead of its round.
RoundsOK(s) ==
    /\ s.high_certificate.qc_round <= s.high_certificate.round
    /\ s.high_certificate_qc_round <= s.high_certificate.round
    /\ s.highest_vote <= CurrentRound(s)
    /\ s.highest_no_endorse <= CurrentRound(s)

\* Nothing was signed above the node's marks (V, T, E: votes, timeouts and
\* no-endorsements signed so far).
SignedBelow(n, s, V, T, E) ==
    /\ \A r \in Rounds, b \in Block : <<n, r, b>> \in V => r <= s.highest_vote
    /\ \A r \in Rounds, e \in HighExtend : <<n, r, e>> \in T => r <= s.highest_vote
    /\ \A r \in Rounds, q \in Nat : <<n, r, q>> \in E => r <= s.highest_no_endorse

\* The block voted for in the current round is the high tip, unless it is below
\* the highest QC or a restart lost it; and a high tip was voted for.
VotedTip(n, s, V, R) ==
    \A b \in Block : <<n, CurrentRound(s), b>> \in V =>
        \/ s.maybe_high_tip = b
        \/ /\ s.maybe_high_tip = NoTip
           /\ block_round[b] <= s.high_certificate_qc_round \/ n \in R
TipVoted(n, s, V) ==
    s.maybe_high_tip # NoTip => \E r \in Rounds : <<n, r, s.maybe_high_tip>> \in V

\* A timeout of the current round reports what the node would report again.
Reported(n, s, T, R) ==
    \A e \in HighExtend : <<n, CurrentRound(s), e>> \in T /\ n \notin R => e = ReportedExtend(s)

\* A no-endorsement of the current round is remembered, or a restart has made
\* the node stop voting in the round.
NERemembered(n, s, E) ==
    \A q \in Nat : <<n, CurrentRound(s), q>> \in E =>
        /\ s.highest_no_endorse = CurrentRound(s)
        /\ \/ qc_round[s.no_endorse_tip] = q
           \/ s.highest_vote = CurrentRound(s) /\ s.maybe_high_tip = NoTip

\* All this of a validator that never restarted from an old forkpoint (B: those
\* that did); of those, too, the rounds and that a high tip was voted for.
Consistent(n, s, V, T, E, R, B) ==
    /\ RoundsOK(s)
    /\ TipVoted(n, s, V)
    /\ n \notin B => /\ SignedBelow(n, s, V, T, E)
                     /\ VotedTip(n, s, V, R)
                     /\ Reported(n, s, T, R)
                     /\ NERemembered(n, s, E)

\* One vote per validator and round.
UniqueVotes(V, B) ==
    \A n \in Honest \ B, r \in Rounds, b, c \in Block :
        <<n, r, b>> \in V /\ <<n, r, c>> \in V => b = c

\* A validator that voted for a block right after the block's QC, and times the
\* round out, reports that block.
CommitVoteReported(V, T, R) ==
    \A n \in Honest \ R, r \in Rounds, b \in Block, e \in HighExtend :
        <<n, r, b>> \in V /\ <<n, r, e>> \in T /\ r = qc_round[b] + 1 => e = TipExtend(b)

\* A validator's vote and its no-endorsement of a round rest on the same QC.
OnTime(V) == \A v \in V : block_round[v[3]] <= v[2]
NEVotesAgree(V, E, B) ==
    OnTime(V) =>
        \A n \in Honest \ B, r \in Rounds, b \in Block, q \in Nat :
            <<n, r, b>> \in V /\ <<n, r, q>> \in E => qc_round[b] = q

IInv ==
    /\ TypeOK
    /\ behind \subseteq restarted
    /\ \A n \in Honest : ForkpointsOK(forkpoints[n])
    /\ \A n \in Honest : Consistent(n, node[n], votes, timeouts, no_endorsements, restarted, behind)
    /\ UniqueVotes(votes, behind)
    /\ CommitVoteReported(votes, timeouts, restarted)
    /\ NEVotesAgree(votes, no_endorsements, behind)

-----------------------------------------------------------------------------
\* Two supermajorities share an honest signer.
LEMMA CommonHonest ==
    ASSUME NEW S1 \in SUBSET Honest, NEW S2 \in SUBSET Honest, Signed(S1), Signed(S2)
    PROVE  \E n \in Honest : n \in S1 /\ n \in S2
BY BFTAssumption DEF Signed, Byzantine

\* The extends that nodes handle are well typed.
LEMMA ExtendTyped ==
    /\ \A b \in Block : TipExtend(b) \in HighExtend
    /\ \A r \in Nat, b \in Block : QcExtend(r, b) \in HighExtend
    /\ Extends \subseteq HighExtend
BY BFTAssumption, ChainAssumption DEF TipExtend, QcExtend, HighExtend, Extends

\* What a node reports is well typed.
LEMMA ReportTyped ==
    ASSUME NEW s \in NodeState
    PROVE  ReportedExtend(s) \in HighExtend
BY ExtendTyped, ChainAssumption DEF ReportedExtend, NodeState, Certificate, HighExtend

\* Processing a certificate keeps a node consistent with what it signed, and
\* leaves its marks alone.
LEMMA AdvanceOK ==
    ASSUME NEW n \in Honest, NEW s \in NodeState, NEW cert \in Certificate,
           cert.qc_round <= cert.round,
           NEW V, NEW T, NEW E, NEW R, NEW B, Consistent(n, s, V, T, E, R, B)
    PROVE  LET t == ProcessCertificate(s, cert)
           IN  /\ t \in NodeState
               /\ Consistent(n, t, V, T, E, R, B)
<1> DEFINE t == ProcessCertificate(s, cert)
<1>1. CASE cert.round <= s.high_certificate.round
  BY <1>1 DEF ProcessCertificate
<1>2. CASE cert.round > s.high_certificate.round
  <2> DEFINE q == IF cert.qc_round > s.high_certificate_qc_round
                  THEN cert.qc_round ELSE s.high_certificate_qc_round
             tip == IF s.maybe_high_tip # NoTip /\ block_round[s.maybe_high_tip] > q
                    THEN s.maybe_high_tip ELSE NoTip
  <2>0. s.high_certificate.round \in 0..MaxRound - 1 /\ cert.round \in 0..MaxRound - 1
        /\ cert.qc_round \in Nat /\ s.high_certificate_qc_round \in Nat
        /\ s.highest_vote \in 0..MaxRound /\ s.highest_no_endorse \in 0..MaxRound
        /\ MaxRound \in Nat
    BY BFTAssumption DEF NodeState, Certificate, HighExtend
  <2>1. t = [s EXCEPT !.high_certificate = cert, !.high_certificate_qc_round = q,
                      !.maybe_high_tip = tip]
    BY <1>2, <2>0 DEF ProcessCertificate
  <2>2. /\ t \in NodeState /\ t.high_certificate = cert /\ t.high_certificate_qc_round = q
        /\ t.maybe_high_tip = tip /\ t.highest_vote = s.highest_vote
        /\ t.highest_no_endorse = s.highest_no_endorse
    BY <2>0, <2>1 DEF NodeState
  <2>3. RoundsOK(t)
    BY <1>2, <2>0, <2>2 DEF Consistent, RoundsOK, CurrentRound
  <2>4. n \notin B => SignedBelow(n, t, V, T, E)
    BY <2>2 DEF Consistent, SignedBelow
  <2>5. /\ CurrentRound(t) \in Rounds
        /\ CurrentRound(t) > s.highest_vote /\ CurrentRound(t) > s.highest_no_endorse
    BY <1>2, <2>0, <2>2 DEF Consistent, RoundsOK, CurrentRound, Rounds
  <2>6. n \notin B => VotedTip(n, t, V, R)
    BY <2>5, <2>0 DEF Consistent, SignedBelow, VotedTip, Rounds
  <2>7. TipVoted(n, t, V)
    BY <2>2 DEF Consistent, TipVoted
  <2>8. n \notin B => Reported(n, t, T, R)
    BY <2>5, <2>0 DEF Consistent, SignedBelow, Reported, Rounds
  <2>9. n \notin B => NERemembered(n, t, E)
    BY <2>5, <2>0 DEF Consistent, SignedBelow, NERemembered, Rounds
  <2>10. QED  BY <2>2, <2>3, <2>4, <2>6, <2>7, <2>8, <2>9 DEF Consistent
<1>3. QED
  BY <1>1, <1>2 DEF NodeState, Certificate

\* Processing a certificate leaves the marks of a node alone.
LEMMA AdvanceKeeps ==
    ASSUME NEW s \in NodeState, NEW cert \in Certificate
    PROVE  LET t == ProcessCertificate(s, cert)
           IN  /\ t.highest_vote = s.highest_vote
               /\ t.highest_no_endorse = s.highest_no_endorse
               /\ t.no_endorse_tip = s.no_endorse_tip
               /\ CurrentRound(t) >= CurrentRound(s)
BY DEF ProcessCertificate, NodeState, Certificate, CurrentRound

\* A vote for a proposal of the node's round keeps it consistent.
LEMMA VoteOK ==
    ASSUME NEW n \in Honest, NEW s \in NodeState, NEW b \in Block \ {GENESIS}, NEW tc_tip,
           NEW V, NEW T, NEW E, NEW R, NEW B, Consistent(n, s, V, T, E, R, B),
           IsSafeToVote(s, CurrentRound(s), tc_tip)
    PROVE  LET t == Vote(s, CurrentRound(s), b)
           IN  /\ t \in NodeState
               /\ Consistent(n, t, V \cup {<<n, CurrentRound(s), b>>}, T, E, R, B)
<1> DEFINE r == CurrentRound(s)
           t == Vote(s, r, b)
           W == V \cup {<<n, r, b>>}
<1>0. /\ s.high_certificate.round \in 0..MaxRound - 1 /\ s.high_certificate_qc_round \in Nat
      /\ s.highest_vote \in 0..MaxRound /\ s.highest_no_endorse \in 0..MaxRound
      /\ MaxRound \in Nat /\ r \in Rounds /\ r > s.highest_vote
      /\ r = s.high_certificate.round + 1
  BY BFTAssumption DEF NodeState, Certificate, IsSafeToVote, CurrentRound, Rounds
<1>1. /\ t \in NodeState /\ t.high_certificate = s.high_certificate
      /\ t.high_certificate_qc_round = s.high_certificate_qc_round
      /\ t.maybe_high_tip = IF block_round[b] > s.high_certificate_qc_round THEN b ELSE NoTip
      /\ t.highest_vote = r /\ t.highest_no_endorse = s.highest_no_endorse
      /\ t.no_endorse_tip = s.no_endorse_tip
  <2> HIDE DEF r
  <2> DEFINE tip == IF block_round[b] > s.high_certificate_qc_round THEN b ELSE NoTip
  <2>1. tip \in (Block \ {GENESIS}) \cup {NoTip}
    OBVIOUS
  <2>2. t = [s EXCEPT !.highest_vote = r, !.maybe_high_tip = tip]
    BY DEF Vote
  <2>3. r \in 0..MaxRound
    BY <1>0 DEF Rounds
  <2>4. tip = IF block_round[b] > s.high_certificate_qc_round THEN b ELSE NoTip
    OBVIOUS
  <2> HIDE DEF tip, t
  <2>5. t \in NodeState
    BY <2>1, <2>2, <2>3 DEF NodeState
  <2>6. QED  BY <2>2, <2>4, <2>5 DEF NodeState
<1>2. CurrentRound(t) = r
  BY <1>1 DEF CurrentRound
<1>3. RoundsOK(t)
  BY <1>0, <1>1, <1>2 DEF Consistent, RoundsOK
<1>4. n \notin B => SignedBelow(n, t, W, T, E)
  BY <1>0, <1>1 DEF Consistent, SignedBelow, Rounds
<1>5. n \notin B => VotedTip(n, t, W, R)
  <2> SUFFICES ASSUME n \notin B, NEW c \in Block, <<n, r, c>> \in W
               PROVE  \/ t.maybe_high_tip = c
                      \/ t.maybe_high_tip = NoTip /\ block_round[c] <= t.high_certificate_qc_round
    BY <1>2 DEF VotedTip
  <2>1. c = b
    BY <1>0 DEF Consistent, SignedBelow, Rounds
  <2>2. QED
    BY <2>1, <1>0, <1>1, ChainAssumption
<1>6. TipVoted(n, t, W)
  BY <1>0, <1>1 DEF TipVoted
<1>7. n \notin B => Reported(n, t, T, R)
  BY <1>0, <1>2 DEF Consistent, SignedBelow, Reported, Rounds
<1>8. n \notin B => NERemembered(n, t, E)
  <2> SUFFICES ASSUME n \notin B, NEW q \in Nat, <<n, r, q>> \in E
               PROVE  s.highest_no_endorse = r /\ qc_round[s.no_endorse_tip] = q
    BY <1>1, <1>2 DEF NERemembered
  <2>1. QED
    BY <1>0 DEF Consistent, NERemembered
<1>9. QED  BY <1>1, <1>3, <1>4, <1>5, <1>6, <1>7, <1>8 DEF Consistent

\* The votes after a timeout of state s.
VotesAfter(n, s, V) ==
    IF s.maybe_high_tip # NoTip /\ SafeToIncludeVote(s)
    THEN V \cup {<<n, CurrentRound(s), s.maybe_high_tip>>} ELSE V

\* Timing a round out keeps a node consistent.
LEMMA TimeoutOK ==
    ASSUME NEW n \in Honest, NEW s \in NodeState,
           NEW V, NEW T, NEW E, NEW R, NEW B, Consistent(n, s, V, T, E, R, B)
    PROVE  LET t == TimedOutState(s)
           IN  /\ t \in NodeState
               /\ Consistent(n, t, VotesAfter(n, s, V),
                             T \cup {<<n, CurrentRound(s), ReportedExtend(s)>>}, E, R, B)
<1> DEFINE r == CurrentRound(s)
           t == TimedOutState(s)
           W == VotesAfter(n, s, V)
           U == T \cup {<<n, r, ReportedExtend(s)>>}
<1>0. /\ s.high_certificate.round \in 0..MaxRound - 1 /\ s.high_certificate_qc_round \in Nat
      /\ s.highest_vote \in 0..MaxRound /\ s.highest_no_endorse \in 0..MaxRound
      /\ MaxRound \in Nat /\ r \in Rounds /\ r = s.high_certificate.round + 1
  BY BFTAssumption DEF NodeState, Certificate, CurrentRound, Rounds
<1>1. /\ t \in NodeState /\ t.high_certificate = s.high_certificate
      /\ t.high_certificate_qc_round = s.high_certificate_qc_round
      /\ t.maybe_high_tip = s.maybe_high_tip
      /\ t.highest_vote = r /\ t.highest_no_endorse = s.highest_no_endorse
      /\ t.no_endorse_tip = s.no_endorse_tip
  BY <1>0 DEF TimedOutState, NodeState, Rounds
<1>2. CurrentRound(t) = r /\ ReportedExtend(t) = ReportedExtend(s)
  BY <1>1 DEF CurrentRound, ReportedExtend
<1>3. RoundsOK(t)
  BY <1>0, <1>1, <1>2 DEF Consistent, RoundsOK
<1>4. n \notin B => SignedBelow(n, t, W, U, E)
  BY <1>0, <1>1 DEF Consistent, SignedBelow, RoundsOK, VotesAfter, Rounds
<1>5. n \notin B => VotedTip(n, t, W, R)
  BY <1>0, <1>1, <1>2 DEF Consistent, VotedTip, VotesAfter
<1>6. TipVoted(n, t, W)
  BY <1>0, <1>1 DEF Consistent, TipVoted, VotesAfter
<1>7. n \notin B => Reported(n, t, U, R)
  BY <1>0, <1>2 DEF Consistent, Reported
<1>8. n \notin B => NERemembered(n, t, E)
  BY <1>0, <1>1, <1>2 DEF Consistent, NERemembered
<1>9. QED  BY <1>1, <1>3, <1>4, <1>5, <1>6, <1>7, <1>8 DEF Consistent

\* A no-endorsement keeps a node consistent.
LEMMA NoEndorseOK ==
    ASSUME NEW n \in Honest, NEW s \in NodeState, NEW b \in Block,
           NEW V, NEW T, NEW E, NEW R, NEW B, Consistent(n, s, V, T, E, R, B),
           IsSafeToNoEndorse(s, CurrentRound(s))
    PROVE  LET t == [s EXCEPT !.highest_no_endorse = CurrentRound(s), !.no_endorse_tip = b]
           IN  /\ t \in NodeState
               /\ Consistent(n, t, V, T, E \cup {<<n, CurrentRound(s), qc_round[b]>>}, R, B)
<1> DEFINE r == CurrentRound(s)
           t == [s EXCEPT !.highest_no_endorse = r, !.no_endorse_tip = b]
           F == E \cup {<<n, r, qc_round[b]>>}
<1>0. /\ s.high_certificate.round \in 0..MaxRound - 1
      /\ s.highest_vote \in 0..MaxRound /\ s.highest_no_endorse \in 0..MaxRound
      /\ MaxRound \in Nat /\ r \in Rounds /\ r = s.high_certificate.round + 1
      /\ r > s.highest_no_endorse
  BY BFTAssumption DEF NodeState, Certificate, CurrentRound, Rounds, IsSafeToNoEndorse
<1>1. /\ t \in NodeState /\ t.high_certificate = s.high_certificate
      /\ t.high_certificate_qc_round = s.high_certificate_qc_round
      /\ t.maybe_high_tip = s.maybe_high_tip
      /\ t.highest_vote = s.highest_vote /\ t.highest_no_endorse = r
      /\ t.no_endorse_tip = b
  <2> HIDE DEF r
  <2>1. r \in 0..MaxRound
    BY <1>0 DEF Rounds
  <2>2. t \in NodeState
    BY <2>1 DEF NodeState
  <2>3. QED  BY <2>2 DEF NodeState
<1>2. CurrentRound(t) = r /\ ReportedExtend(t) = ReportedExtend(s)
  BY <1>1 DEF CurrentRound, ReportedExtend
<1>3. RoundsOK(t)
  BY <1>0, <1>1, <1>2 DEF Consistent, RoundsOK
<1>4. n \notin B => SignedBelow(n, t, V, T, F)
  BY <1>0, <1>1 DEF Consistent, SignedBelow, Rounds
<1>5. TipVoted(n, t, V) /\ (n \notin B => VotedTip(n, t, V, R))
  BY <1>1, <1>2 DEF Consistent, VotedTip, TipVoted
<1>6. n \notin B => Reported(n, t, T, R)
  BY <1>2 DEF Consistent, Reported
<1>7. n \notin B => NERemembered(n, t, F)
  <2> SUFFICES ASSUME n \notin B, NEW q \in Nat, <<n, r, q>> \in F
               PROVE  q = qc_round[b]
    BY <1>1, <1>2 DEF NERemembered
  <2>1. QED
    BY <1>0 DEF Consistent, SignedBelow, Rounds
<1>8. QED  BY <1>1, <1>3, <1>4, <1>5, <1>6, <1>7 DEF Consistent

\* A restart keeps a node consistent, or is from an old forkpoint.
LEMMA RestartOK ==
    ASSUME NEW n \in Honest, NEW s \in NodeState, NEW cert \in Certificate, cert.qc_round <= cert.round,
           NEW V, NEW T, NEW E, NEW R, NEW B, Consistent(n, s, V, T, E, R, B),
           NEW B2, n \notin B2 => n \notin B /\ cert = s.high_certificate
    PROVE  LET t == Restored(cert)
           IN  /\ t \in NodeState
               /\ Consistent(n, t, V, T, E, R \cup {n}, B2)
<1> DEFINE r == cert.round + 1
           t == Restored(cert)
<1>0. /\ cert.round \in 0..MaxRound - 1 /\ cert.qc_round \in Nat /\ MaxRound \in Nat /\ r \in Rounds
      /\ s.highest_vote \in 0..MaxRound /\ s.highest_no_endorse \in 0..MaxRound
  BY BFTAssumption DEF NodeState, Certificate, Rounds
<1>1. /\ t \in NodeState /\ t.high_certificate = cert
      /\ t.high_certificate_qc_round = cert.qc_round
      /\ t.maybe_high_tip = NoTip /\ t.highest_vote = r /\ t.highest_no_endorse = r
  BY <1>0, ChainAssumption DEF Restored, NodeState, Rounds
<1>2. CurrentRound(t) = r
  BY <1>1 DEF CurrentRound
<1>3. RoundsOK(t)
  BY <1>0, <1>1, <1>2 DEF RoundsOK
<1>4. n \notin B2 => SignedBelow(n, t, V, T, E)
  BY <1>0, <1>1 DEF Consistent, SignedBelow, RoundsOK, CurrentRound, Rounds
<1>5. TipVoted(n, t, V) /\ VotedTip(n, t, V, R \cup {n})
  BY <1>1, <1>2 DEF VotedTip, TipVoted
<1>6. Reported(n, t, T, R \cup {n})
  BY DEF Reported
<1>7. NERemembered(n, t, E)
  BY <1>1, <1>2 DEF NERemembered
<1>8. QED  BY <1>1, <1>3, <1>4, <1>5, <1>6, <1>7 DEF Consistent

\* What other validators sign does not disturb a node.
LEMMA Frame ==
    ASSUME NEW m, NEW s, NEW V, NEW T, NEW E, NEW R, NEW B, NEW V2, NEW T2, NEW E2, NEW R2, NEW B2,
           \A r, x : <<m, r, x>> \in V2 <=> <<m, r, x>> \in V,
           \A r, x : <<m, r, x>> \in T2 <=> <<m, r, x>> \in T,
           \A r, x : <<m, r, x>> \in E2 <=> <<m, r, x>> \in E,
           m \in R2 <=> m \in R, m \in B2 <=> m \in B,
           Consistent(m, s, V, T, E, R, B)
    PROVE  Consistent(m, s, V2, T2, E2, R2, B2)
<1>1. m \notin B2 => SignedBelow(m, s, V2, T2, E2)
  BY DEF Consistent, SignedBelow
<1>2. TipVoted(m, s, V2) /\ (m \notin B2 => VotedTip(m, s, V2, R2))
  BY DEF Consistent, VotedTip, TipVoted
<1>3. m \notin B2 => Reported(m, s, T2, R2) /\ NERemembered(m, s, E2)
  BY DEF Consistent, Reported, NERemembered
<1>4. QED  BY <1>1, <1>2, <1>3 DEF Consistent

\* The invariant holds initially.
LEMMA InitIInv == Init => IInv
<1> SUFFICES ASSUME Init PROVE IInv
  OBVIOUS
<1> DEFINE cert == QcCertificate(0, GENESIS)
           Start(s) == /\ s \in NodeState /\ s.maybe_high_tip = NoTip
                       /\ s.highest_vote \in 0..1 /\ s.highest_no_endorse \in 0..1
                       /\ s.high_certificate = cert /\ s.high_certificate_qc_round = 0
<1>1. cert \in Certificate /\ cert.round = 0 /\ cert.qc_round = 0
  BY BFTAssumption, ChainAssumption DEF QcCertificate, QcExtend, Certificate, HighExtend
<1>2. Start(Restored(cert)) /\ Start(Settled)
  <2> HIDE DEF cert
  <2>1. Settled = [Restored(cert) EXCEPT !.highest_vote = 0, !.highest_no_endorse = 0]
    BY DEF Settled, cert
  <2>2. Start(Restored(cert))
    BY <1>1, BFTAssumption, ChainAssumption DEF Restored, NodeState
  <2>3. 0 \in 0..MaxRound
    BY BFTAssumption
  <2>4. Settled \in NodeState
    BY <2>1, <2>2, <2>3 DEF NodeState
  <2>5. QED  BY <2>1, <2>2, <2>4 DEF NodeState
<1>3. \A n \in Honest : Start(node[n])
  BY <1>2 DEF Init
<1>4. /\ votes = {} /\ no_endorsements = {}
      /\ \/ timeouts = {}
         \/ /\ timeouts = Honest \X {1} \X {QcExtend(0, GENESIS)}
            /\ \A n \in Honest : node[n].highest_vote = 1
  <2>1. Restored(cert).highest_vote = 1
    BY <1>1 DEF Restored
  <2> QED  BY <2>1 DEF Init
<1>5. TypeOK
  <2>1. QcExtend(0, GENESIS) \in HighExtend /\ 1 \in Rounds
    BY BFTAssumption, ChainAssumption DEF QcExtend, HighExtend, Rounds
  <2>2. timeouts \subseteq Honest \X Rounds \X HighExtend
    BY <1>4, <2>1
  <2>3. forkpoints \in [Honest -> SUBSET Certificate]
    BY <1>1 DEF Init
  <2> QED  BY <1>2, <2>2, <2>3 DEF Init, TypeOK
<1>6. ASSUME NEW n \in Honest
      PROVE  Consistent(n, node[n], votes, timeouts, no_endorsements, restarted, behind)
  <2>1. node[n].high_certificate.qc_round = 0 /\ node[n].high_certificate.qc_block = GENESIS
    BY <1>3 DEF QcCertificate
  <2> HIDE DEF cert
  <2>2. RoundsOK(node[n])
    BY <1>1, <1>3 DEF RoundsOK, CurrentRound
  <2>3. ReportedExtend(node[n]) = QcExtend(0, GENESIS)
    BY <1>3, <2>1 DEF ReportedExtend, QcExtend
  <2>4. Reported(n, node[n], timeouts, restarted)
    BY <1>4, <2>3 DEF Reported
  <2>5. SignedBelow(n, node[n], votes, timeouts, no_endorsements)
    BY <1>4 DEF SignedBelow
  <2>6. QED
    BY <1>3, <1>4, <2>2, <2>4, <2>5 DEF Consistent, VotedTip, TipVoted, NERemembered
<1>7. UniqueVotes(votes, behind) /\ CommitVoteReported(votes, timeouts, restarted)
        /\ NEVotesAgree(votes, no_endorsements, behind)
  BY DEF Init, UniqueVotes, CommitVoteReported, NEVotesAgree
<1>8. \A n \in Honest : ForkpointsOK(forkpoints[n])
  BY <1>1 DEF Init, ForkpointsOK
<1>9. behind \subseteq restarted
  BY DEF Init
<1>10. QED  BY <1>5, <1>6, <1>7, <1>8, <1>9 DEF IInv

\* What a handler leaves can be checkpointed.
LEMMA CheckpointOK ==
    ASSUME IInv, NEW n \in Honest, NEW t \in NodeState, RoundsOK(t), SetNode(n, t)
    PROVE  /\ node' \in [Honest -> NodeState]
           /\ forkpoints' \in [Honest -> SUBSET Certificate]
           /\ \A m \in Honest : ForkpointsOK(forkpoints'[m])
           /\ node'[n] = t /\ \A m \in Honest : m # n => node'[m] = node[m]
<1>1. /\ node \in [Honest -> NodeState] /\ forkpoints \in [Honest -> SUBSET Certificate]
      /\ t.high_certificate \in Certificate /\ t.high_certificate.qc_round <= t.high_certificate.round
  BY DEF IInv, TypeOK, NodeState, RoundsOK
<1>2. PICK cert \in Certificate : cert = t.high_certificate
  BY <1>1
<1>3. /\ node' = [node EXCEPT ![n] = t]
      /\ forkpoints' = [forkpoints EXCEPT ![n] = @ \cup {cert}]
  BY <1>2 DEF SetNode
<1>4. forkpoints' \in [Honest -> SUBSET Certificate]
  BY <1>1, <1>3
<1>5. ASSUME NEW m \in Honest PROVE ForkpointsOK(forkpoints'[m])
  <2>1. ForkpointsOK(forkpoints[m])
    BY DEF IInv
  <2>2. forkpoints'[m] = forkpoints[m] \/ forkpoints'[m] = forkpoints[m] \cup {cert}
    BY <1>1, <1>3
  <2>3. QED  BY <1>1, <1>2, <2>1, <2>2 DEF ForkpointsOK
<1>6. QED  BY <1>1, <1>3, <1>4, <1>5

\* A step that only processes certificates.
LEMMA CertificateStep ==
    ASSUME IInv, NEW n \in Honest, NEW cert \in Certificate, cert.qc_round <= cert.round,
           SetNode(n, ProcessCertificate(node[n], cert)),
           UNCHANGED <<votes, timeouts, no_endorsements, restarted, behind>>
    PROVE  IInv'
<1>0. node \in [Honest -> NodeState] /\ node[n] \in NodeState
  BY DEF IInv, TypeOK
<1> DEFINE t == ProcessCertificate(node[n], cert)
<1>1. t \in NodeState /\ Consistent(n, t, votes, timeouts, no_endorsements, restarted, behind)
  BY <1>0, AdvanceOK DEF IInv
<1> HIDE DEF t
<1>2. /\ node' \in [Honest -> NodeState] /\ forkpoints' \in [Honest -> SUBSET Certificate]
      /\ \A m \in Honest : ForkpointsOK(forkpoints'[m])
      /\ node'[n] = t /\ \A m \in Honest : m # n => node'[m] = node[m]
  <2>1. RoundsOK(t) /\ SetNode(n, t)
    BY <1>1 DEF Consistent, t
  <2>2. QED  BY <1>1, <2>1, CheckpointOK
<1>3. TypeOK'
  BY <1>2 DEF IInv, TypeOK
<1>4. \A m \in Honest : Consistent(m, node[m], votes, timeouts, no_endorsements, restarted, behind)'
  BY <1>1, <1>2 DEF IInv
<1>5. QED  BY <1>2, <1>3, <1>4 DEF IInv, UniqueVotes, CommitVoteReported, NEVotesAgree

\* A vote for a proposal, cast in state s.
LEMMA VoteStep ==
    ASSUME IInv, NEW n \in Honest, NEW s \in NodeState, NEW b \in Block \ {GENESIS}, NEW tc_tip,
           Consistent(n, s, votes, timeouts, no_endorsements, restarted, behind),
           tc_tip \in Block => qc_round[tc_tip] = qc_round[b],
           VoteForProposal(n, s, CurrentRound(s), b, tc_tip)
    PROVE  IInv'
<1> DEFINE r == CurrentRound(s)
           t == Vote(s, r, b)
<1>0. /\ node \in [Honest -> NodeState] /\ r \in Rounds /\ IsSafeToVote(s, r, tc_tip)
      /\ SetNode(n, t) /\ votes' = votes \cup {<<n, r, b>>}
      /\ UNCHANGED <<timeouts, no_endorsements, restarted, behind>>
      /\ s.highest_vote \in Nat /\ s.highest_vote < r
  BY BFTAssumption DEF IInv, TypeOK, VoteForProposal, IsSafeToVote, CurrentRound, Rounds, NodeState, Certificate
<1>1. t \in NodeState /\ Consistent(n, t, votes', timeouts', no_endorsements', restarted', behind')
  BY <1>0, VoteOK
<1> HIDE DEF t
<1>a. /\ node' \in [Honest -> NodeState] /\ forkpoints' \in [Honest -> SUBSET Certificate]
      /\ \A m \in Honest : ForkpointsOK(forkpoints'[m])
      /\ node'[n] = t /\ \A m \in Honest : m # n => node'[m] = node[m]
  <2>1. RoundsOK(t)
    BY <1>1 DEF Consistent
  <2>2. QED  BY <1>0, <1>1, <2>1, CheckpointOK
<1>2. TypeOK'
  BY <1>0, <1>a DEF IInv, TypeOK
<1>3. ASSUME NEW m \in Honest
      PROVE  Consistent(m, node[m], votes, timeouts, no_endorsements, restarted, behind)'
  <2>1. CASE m = n
    BY <1>1, <1>a, <2>1
  <2>2. CASE m # n
    <3>1. node'[m] = node[m] /\ Consistent(m, node[m], votes, timeouts, no_endorsements, restarted, behind)
      BY <1>a, <2>2 DEF IInv
    <3>2. \A r1, x : <<m, r1, x>> \in votes' <=> <<m, r1, x>> \in votes
      BY <1>0, <2>2
    <3>3. QED  BY <1>0, <3>1, <3>2, Frame
  <2>3. QED  BY <2>1, <2>2
<1>4. n \notin behind =>
      /\ \A c \in Block : <<n, r, c>> \notin votes
      /\ \A e \in HighExtend : <<n, r, e>> \notin timeouts
  BY <1>0 DEF Consistent, SignedBelow, Rounds
<1>5. UniqueVotes(votes, behind)'
  BY <1>0, <1>4 DEF IInv, UniqueVotes
<1>6. CommitVoteReported(votes, timeouts, restarted)'
  BY <1>0, <1>4 DEF IInv, CommitVoteReported
<1>7. NEVotesAgree(votes, no_endorsements, behind)'
  <2> SUFFICES ASSUME OnTime(votes'), NEW m \in Honest \ behind, NEW r1 \in Rounds, NEW c \in Block,
                      NEW q \in Nat, <<m, r1, c>> \in votes', <<m, r1, q>> \in no_endorsements
               PROVE  qc_round[c] = q
    BY <1>0 DEF NEVotesAgree
  <2>1. CASE <<m, r1, c>> \in votes
    <3>1. OnTime(votes)
      BY <1>0 DEF OnTime
    <3>2. QED  BY <2>1, <3>1 DEF IInv, NEVotesAgree
  <2>2. CASE m = n /\ r1 = r /\ c = b
    <3>1. s.highest_no_endorse = r /\ qc_round[s.no_endorse_tip] = q
      BY <1>0, <2>2 DEF Consistent, NERemembered
    <3>2. tc_tip = s.no_endorse_tip /\ s.no_endorse_tip \in Block
      BY <1>0, <3>1 DEF IsSafeToVote, NodeState
    <3>3. QED  BY <2>2, <3>1, <3>2
  <2>3. QED  BY <1>0, <2>1, <2>2
<1>8. QED  BY <1>0, <1>a, <1>2, <1>3, <1>5, <1>6, <1>7 DEF IInv

\* A timeout in state s that leaves the node in state t.
LEMMA TimeoutStep ==
    ASSUME IInv, NEW n \in Honest, NEW s \in NodeState, NEW t \in NodeState,
           Consistent(n, s, votes, timeouts, no_endorsements, restarted, behind),
           SendTimeout(n, s),
           Consistent(n, t, VotesAfter(n, s, votes),
                      timeouts \cup {<<n, CurrentRound(s), ReportedExtend(s)>>},
                      no_endorsements, restarted, behind),
           SetNode(n, t),
           UNCHANGED <<no_endorsements, restarted, behind>>
    PROVE  IInv'
<1> DEFINE r == CurrentRound(s)
<1>0. /\ node \in [Honest -> NodeState] /\ r \in Rounds
      /\ s.maybe_high_tip \in (Block \ {GENESIS}) \cup {NoTip}
      /\ r = s.high_certificate.round + 1 /\ s.high_certificate.round \in Nat
      /\ s.high_certificate_qc_round \in Nat /\ NoTip \notin Block
  BY BFTAssumption, ChainAssumption DEF IInv, TypeOK, CurrentRound, Rounds, NodeState, Certificate
<1>1. /\ votes' = VotesAfter(n, s, votes)
      /\ timeouts' = timeouts \cup {<<n, r, ReportedExtend(s)>>}
  BY DEF SendTimeout, VotesAfter
<1>2. ReportedExtend(s) \in HighExtend
  BY <1>0, ReportTyped
<1>3. \/ votes' = votes
      \/ /\ s.maybe_high_tip \in Block \ {GENESIS} /\ SafeToIncludeVote(s)
         /\ votes' = votes \cup {<<n, r, s.maybe_high_tip>>}
  BY <1>0, <1>1 DEF VotesAfter
<1> HIDE DEF r
<1>a. /\ node' \in [Honest -> NodeState] /\ forkpoints' \in [Honest -> SUBSET Certificate]
      /\ \A m \in Honest : ForkpointsOK(forkpoints'[m])
      /\ node'[n] = t /\ \A m \in Honest : m # n => node'[m] = node[m]
  <2>1. RoundsOK(t)
    BY DEF Consistent
  <2>2. QED  BY <2>1, CheckpointOK
<1>4. TypeOK'
  BY <1>0, <1>1, <1>2, <1>3, <1>a DEF IInv, TypeOK
<1>5. ASSUME NEW m \in Honest
      PROVE  Consistent(m, node[m], votes, timeouts, no_endorsements, restarted, behind)'
  <2>1. CASE m = n
    <3>1. node'[n] = t
      BY <1>a
    <3>2. Consistent(n, t, votes', timeouts', no_endorsements', restarted', behind')
      BY <1>1 DEF r
    <3>3. QED  BY <2>1, <3>1, <3>2
  <2>2. CASE m # n
    <3>1. node'[m] = node[m] /\ Consistent(m, node[m], votes, timeouts, no_endorsements, restarted, behind)
      BY <1>a, <2>2 DEF IInv
    <3>2. /\ \A r1, x : <<m, r1, x>> \in votes' <=> <<m, r1, x>> \in votes
          /\ \A r1, x : <<m, r1, x>> \in timeouts' <=> <<m, r1, x>> \in timeouts
      BY <1>1, <1>3, <2>2
    <3>3. QED  BY <3>1, <3>2, Frame
  <2>3. QED  BY <2>1, <2>2
<1>6. UniqueVotes(votes, behind)'
  <2>1. n \notin behind => \A b \in Block : <<n, r, b>> \in votes => s.maybe_high_tip \in {b, NoTip}
    BY <1>0 DEF Consistent, VotedTip, r
  <2>2. QED  BY <1>0, <1>3, <2>1 DEF IInv, UniqueVotes
<1>7. CommitVoteReported(votes, timeouts, restarted)'
  <2> SUFFICES ASSUME NEW m \in Honest \ restarted, NEW r1 \in Rounds, NEW b \in Block,
                      NEW e \in HighExtend, <<m, r1, b>> \in votes', <<m, r1, e>> \in timeouts',
                      r1 = qc_round[b] + 1
               PROVE  e = TipExtend(b)
    BY DEF CommitVoteReported
  <2>0. m \notin behind
    BY DEF IInv
  <2>1. CASE ~(m = n /\ r1 = r)
    BY <1>1, <1>3, <2>1 DEF IInv, CommitVoteReported
  <2>2. CASE m = n /\ r1 = r
    <3>1. e = ReportedExtend(s)
      BY <1>0, <1>1, <2>0, <2>2 DEF Consistent, Reported, r
    <3>2. s.maybe_high_tip = b
      <4>1. b # GENESIS
        BY <1>4 DEF TypeOK
      <4>2. block_round[b] > s.high_certificate_qc_round
        BY <1>0, <2>2, <4>1, ChainAssumption DEF Consistent, RoundsOK
      <4>3. CASE <<n, r, b>> \in votes
        BY <1>0, <2>0, <2>2, <4>2, <4>3, ChainAssumption DEF Consistent, VotedTip, r
      <4>4. CASE <<n, r, b>> \notin votes
        BY <1>3, <2>2, <4>4
      <4>5. QED  BY <4>3, <4>4
    <3>3. QED  BY <1>0, <3>1, <3>2 DEF ReportedExtend
  <2>3. QED  BY <2>1, <2>2
<1>8. NEVotesAgree(votes, no_endorsements, behind)'
  <2> SUFFICES ASSUME OnTime(votes'), NEW m \in Honest \ behind, NEW r1 \in Rounds, NEW b \in Block,
                      NEW q \in Nat, <<m, r1, b>> \in votes', <<m, r1, q>> \in no_endorsements
               PROVE  qc_round[b] = q
    BY DEF NEVotesAgree
  <2>0. OnTime(votes)
    BY <1>3 DEF OnTime
  <2>1. CASE <<m, r1, b>> \in votes
    BY <2>0, <2>1 DEF IInv, NEVotesAgree
  <2>2. CASE <<m, r1, b>> \notin votes
    <3>1. /\ m = n /\ r1 = r /\ b = s.maybe_high_tip /\ SafeToIncludeVote(s)
      BY <1>3, <2>2
    <3>2. s.highest_no_endorse = r
      BY <1>0, <3>1 DEF Consistent, NERemembered, r
    <3>3. block_round[b] = r
      BY <1>0, <3>1, <3>2 DEF SafeToIncludeVote, r
    <3>4. PICK r2 \in Rounds : <<n, r2, b>> \in votes
      BY <1>0, <3>1 DEF Consistent, TipVoted
    <3>5. r <= r2
      BY <2>0, <3>3, <3>4 DEF OnTime
    <3>6. r2 <= r
      BY <1>0, <3>1, <3>4 DEF Consistent, SignedBelow, RoundsOK, r, Rounds, NodeState
    <3>7. QED  BY <1>0, <2>2, <3>1, <3>4, <3>5, <3>6 DEF Rounds
  <2>3. QED  BY <2>1, <2>2
<1>9. QED  BY <1>a, <1>4, <1>5, <1>6, <1>7, <1>8 DEF IInv

\* A no-endorsement of tip b, signed in state s.
LEMMA NoEndorseStep ==
    ASSUME IInv, NEW n \in Honest, NEW s \in NodeState, NEW b \in Block,
           Consistent(n, s, votes, timeouts, no_endorsements, restarted, behind),
           IsSafeToNoEndorse(s, CurrentRound(s)),
           SetNode(n, [s EXCEPT !.highest_no_endorse = CurrentRound(s), !.no_endorse_tip = b]),
           no_endorsements' = no_endorsements \cup {<<n, CurrentRound(s), qc_round[b]>>},
           UNCHANGED <<votes, timeouts, restarted, behind>>
    PROVE  IInv'
<1> DEFINE r == CurrentRound(s)
           t == [s EXCEPT !.highest_no_endorse = r, !.no_endorse_tip = b]
<1>0. /\ node \in [Honest -> NodeState] /\ r \in Rounds /\ qc_round[b] \in Nat
      /\ s.highest_vote \in Nat /\ s.highest_vote < r
  BY BFTAssumption, ChainAssumption
     DEF IInv, TypeOK, CurrentRound, Rounds, NodeState, Certificate, IsSafeToNoEndorse
<1>1. t \in NodeState /\ Consistent(n, t, votes', timeouts', no_endorsements', restarted', behind')
  BY NoEndorseOK
<1> HIDE DEF t
<1>2. /\ node' \in [Honest -> NodeState] /\ forkpoints' \in [Honest -> SUBSET Certificate]
      /\ \A m \in Honest : ForkpointsOK(forkpoints'[m])
      /\ node'[n] = t /\ \A m \in Honest : m # n => node'[m] = node[m]
  <2>1. RoundsOK(t) /\ SetNode(n, t)
    BY <1>1 DEF Consistent, t
  <2>2. QED  BY <1>1, <2>1, CheckpointOK
<1>3. TypeOK'
  BY <1>0, <1>2 DEF IInv, TypeOK
<1>4. ASSUME NEW m \in Honest
      PROVE  Consistent(m, node[m], votes, timeouts, no_endorsements, restarted, behind)'
  <2>1. CASE m = n
    BY <1>0, <1>1, <1>2, <2>1
  <2>2. CASE m # n
    <3>1. node'[m] = node[m] /\ Consistent(m, node[m], votes, timeouts, no_endorsements, restarted, behind)
      BY <1>0, <1>2, <2>2 DEF IInv
    <3>2. \A r1, x : <<m, r1, x>> \in no_endorsements' <=> <<m, r1, x>> \in no_endorsements
      BY <2>2
    <3>3. QED  BY <3>1, <3>2, Frame
  <2>3. QED  BY <2>1, <2>2
<1>5. n \notin behind => \A c \in Block : <<n, r, c>> \notin votes
  BY <1>0 DEF Consistent, SignedBelow, Rounds
<1>6. NEVotesAgree(votes, no_endorsements, behind)'
  BY <1>5 DEF IInv, NEVotesAgree
<1>7. QED  BY <1>2, <1>3, <1>4, <1>6 DEF IInv, UniqueVotes, CommitVoteReported

\* A restart.
LEMMA RestartStep ==
    ASSUME IInv, NEW n \in Honest, Restart(n)
    PROVE  IInv'
<1>p. PICK cert \in forkpoints[n] :
         /\ node' = [node EXCEPT ![n] = TimedOutState(Restored(cert))]
         /\ forkpoints' = [forkpoints EXCEPT ![n] = {cert}]
         /\ behind' = IF cert = node[n].high_certificate THEN behind ELSE behind \cup {n}
         /\ SendTimeout(n, Restored(cert))
  BY DEF Restart
<1> DEFINE s == Restored(cert)
           t == TimedOutState(s)
           r == CurrentRound(s)
           e == ReportedExtend(s)
<1>0. /\ node \in [Honest -> NodeState] /\ node[n] \in NodeState
      /\ forkpoints \in [Honest -> SUBSET Certificate]
      /\ cert \in Certificate /\ cert.qc_round <= cert.round
      /\ restarted' = restarted \cup {n} /\ UNCHANGED no_endorsements
      /\ SendTimeout(n, s) /\ node' = [node EXCEPT ![n] = t]
  <2>1. ForkpointsOK(forkpoints[n])
    BY DEF IInv
  <2>2. QED  BY <1>p, <2>1 DEF IInv, TypeOK, Restart, ForkpointsOK
<1>b. /\ behind \subseteq behind' /\ behind' \subseteq behind \cup {n}
      /\ n \notin behind' => n \notin behind /\ cert = node[n].high_certificate
  BY <1>p
<1>1. /\ s \in NodeState
      /\ Consistent(n, s, votes, timeouts, no_endorsements, restarted', behind')
  <2>1. Consistent(n, node[n], votes, timeouts, no_endorsements, restarted, behind)
    BY DEF IInv
  <2>2. PICK B2 : B2 = behind'
    OBVIOUS
  <2>3. s \in NodeState /\ Consistent(n, s, votes, timeouts, no_endorsements, restarted \cup {n}, B2)
    BY <1>0, <1>b, <2>1, <2>2, RestartOK
  <2>4. QED  BY <1>0, <2>2, <2>3
<1>2. s.maybe_high_tip = NoTip
  BY DEF Restored
<1>3. /\ votes' = votes /\ votes' = VotesAfter(n, s, votes)
      /\ timeouts' = timeouts \cup {<<n, r, e>>}
  BY <1>0, <1>2 DEF SendTimeout, VotesAfter
<1>4. t \in NodeState /\ Consistent(n, t, votes', timeouts', no_endorsements', restarted', behind')
  <2> HIDE DEF s
  <2>1. /\ t \in NodeState
        /\ Consistent(n, t, VotesAfter(n, s, votes),
                      timeouts \cup {<<n, CurrentRound(s), ReportedExtend(s)>>},
                      no_endorsements, restarted', behind')
    BY <1>1, TimeoutOK
  <2> QED  BY <1>0, <1>3, <2>1
<1>5. e \in HighExtend /\ r \in Rounds
  <2> HIDE DEF s
  <2> QED  BY <1>1, ReportTyped, BFTAssumption DEF NodeState, Certificate, CurrentRound, Rounds
<1> HIDE DEF s, t, r, e
<1>c. /\ forkpoints' \in [Honest -> SUBSET Certificate]
      /\ \A m \in Honest : ForkpointsOK(forkpoints'[m])
  <2>1. forkpoints' = [forkpoints EXCEPT ![n] = {cert}]
    BY <1>p
  <2>2. forkpoints' \in [Honest -> SUBSET Certificate]
    BY <1>0, <2>1
  <2>3. ASSUME NEW m \in Honest PROVE ForkpointsOK(forkpoints'[m])
    <3>1. ForkpointsOK(forkpoints[m]) /\ forkpoints'[m] \in {forkpoints[m], {cert}}
      BY <1>0, <2>1 DEF IInv
    <3>2. QED  BY <1>0, <3>1 DEF ForkpointsOK
  <2>4. QED  BY <2>2, <2>3
<1>d. behind' \subseteq Honest /\ behind' \subseteq restarted'
  BY <1>0, <1>b DEF IInv, TypeOK
<1>6. TypeOK'
  <2>1. node' \in [Honest -> NodeState]
    BY <1>0, <1>4
  <2>2. timeouts' \subseteq Honest \X Rounds \X HighExtend
    <3>1. timeouts \subseteq Honest \X Rounds \X HighExtend
      BY DEF IInv, TypeOK
    <3>2. <<n, r, e>> \in Honest \X Rounds \X HighExtend
      BY <1>5
    <3>3. timeouts' = timeouts \cup {<<n, r, e>>}
      BY <1>3
    <3>4. QED  BY <3>1, <3>2, <3>3
  <2>3. votes' = votes /\ no_endorsements' = no_endorsements /\ restarted' \subseteq Honest
    BY <1>0, <1>3 DEF IInv, TypeOK
  <2>4. QED  BY <1>c, <1>d, <2>1, <2>2, <2>3 DEF IInv, TypeOK
<1>7. ASSUME NEW m \in Honest
      PROVE  Consistent(m, node[m], votes, timeouts, no_endorsements, restarted, behind)'
  <2>1. CASE m = n
    <3>1. node'[m] = t
      BY <1>0, <2>1
    <3>2. QED  BY <1>4, <2>1, <3>1
  <2>2. CASE m # n
    <3>1. node'[m] = node[m] /\ Consistent(m, node[m], votes, timeouts, no_endorsements, restarted, behind)
      BY <1>0, <2>2 DEF IInv
    <3>2. /\ m \in restarted' <=> m \in restarted
          /\ m \in behind' <=> m \in behind
          /\ \A r1, x : <<m, r1, x>> \in timeouts' <=> <<m, r1, x>> \in timeouts
      BY <1>0, <1>b, <1>3, <2>2
    <3>3. votes' = votes /\ no_endorsements' = no_endorsements
      BY <1>0, <1>3
    <3>4. QED  BY <3>1, <3>2, <3>3, Frame
  <2>3. QED  BY <2>1, <2>2
<1>8. CommitVoteReported(votes, timeouts, restarted)'
  BY <1>0, <1>3 DEF IInv, CommitVoteReported
<1>9. UniqueVotes(votes, behind)' /\ NEVotesAgree(votes, no_endorsements, behind)'
  <2>1. UniqueVotes(votes, behind) /\ NEVotesAgree(votes, no_endorsements, behind)
    BY DEF IInv
  <2>2. QED  BY <1>0, <1>b, <1>3, <2>1 DEF UniqueVotes, NEVotesAgree, OnTime
<1>10. QED  BY <1>c, <1>d, <1>6, <1>7, <1>8, <1>9 DEF IInv

\* The certificates that handlers process are well typed.
LEMMA CertTyped ==
    /\ \A r \in 0..MaxRound - 1, b \in Block :
          /\ QcCertificate(r, b) \in Certificate
          /\ QcCertificate(r, b).qc_round <= QcCertificate(r, b).round
    /\ \A r \in 0..MaxRound - 1, ext \in HighExtend :
          ext.qc_round < r =>
          /\ TcCertificate(r, ext) \in Certificate
          /\ TcCertificate(r, ext).qc_round <= TcCertificate(r, ext).round
BY BFTAssumption DEF QcCertificate, TcCertificate, QcExtend, Certificate, HighExtend

\* Every step preserves the invariant.
LEMMA StepIInv == IInv /\ [Next]_vars => IInv'
<1> SUFFICES ASSUME IInv, [Next]_vars PROVE IInv'
  OBVIOUS
<1>0. /\ TypeOK /\ MaxRound \in Nat /\ Extends \subseteq HighExtend
      /\ \A n \in Honest : /\ node[n] \in NodeState
                           /\ node[n].high_certificate.round \in 0..MaxRound - 1
                           /\ CurrentRound(node[n]) = node[n].high_certificate.round + 1
                           /\ Consistent(n, node[n], votes, timeouts, no_endorsements, restarted, behind)
  BY BFTAssumption, ExtendTyped DEF IInv, TypeOK, NodeState, Certificate, CurrentRound
<1>1. ASSUME NEW n \in Honest, HandleQC(n) PROVE IInv'
  <2>1. PICK r \in CurrentRound(node[n])..MaxRound - 1, b \in Block :
           /\ SetNode(n, ProcessCertificate(node[n], QcCertificate(r, b)))
           /\ UNCHANGED <<votes, timeouts, no_endorsements, restarted, behind>>
    BY <1>1 DEF HandleQC
  <2>2. r \in 0..MaxRound - 1
    BY <1>0
  <2>3. QED  BY <2>1, <2>2, CertTyped, CertificateStep
<1>2. ASSUME NEW n \in Honest, HandleTC(n) PROVE IInv'
  <2>1. PICK r \in CurrentRound(node[n])..MaxRound - 1, ext \in Extends :
           /\ ext.qc_round < r
           /\ SetNode(n, ProcessCertificate(node[n], TcCertificate(r, ext)))
           /\ UNCHANGED <<votes, timeouts, no_endorsements, restarted, behind>>
    BY <1>2 DEF HandleTC, ValidTC
  <2>2. r \in 0..MaxRound - 1 /\ ext \in HighExtend
    BY <1>0
  <2>3. QED  BY <2>1, <2>2, CertTyped, CertificateStep
<1>3. ASSUME NEW n \in Honest, HandleProposal(n) PROVE IInv'
  <2>1. PICK b \in Block \ {GENESIS} :
           /\ qc_round[b] + 1 \in CurrentRound(node[n])..MaxRound
           /\ VoteForProposal(n, ProcessCertificate(node[n], QcCertificate(qc_round[b], parent[b])),
                              qc_round[b] + 1, b, NoTip)
    BY <1>3 DEF HandleProposal
  <2> DEFINE cert == QcCertificate(qc_round[b], parent[b])
             s == ProcessCertificate(node[n], cert)
  <2>2. qc_round[b] \in 0..MaxRound - 1 /\ parent[b] \in Block /\ NoTip \notin Block
    BY <1>0, <2>1, ChainAssumption
  <2>3. cert \in Certificate /\ cert.qc_round <= cert.round
    BY <2>2, CertTyped
  <2>4. s \in NodeState /\ Consistent(n, s, votes, timeouts, no_endorsements, restarted, behind)
    BY <1>0, <2>3, AdvanceOK
  <2>5. CurrentRound(s) = qc_round[b] + 1
    BY <2>1 DEF VoteForProposal
  <2>6. VoteForProposal(n, s, CurrentRound(s), b, NoTip)
    BY <2>1, <2>5
  <2>7. QED  BY <2>2, <2>4, <2>6, VoteStep
<1>4. ASSUME NEW n \in Honest, HandleProposalWithTC(n) PROVE IInv'
  <2> DEFINE C(b) == QcCertificate(qc_round[b], parent[b])
             D(r, ext) == TcCertificate(r - 1, ext)
             S(r, b, ext) == ProcessCertificate(ProcessCertificate(node[n], C(b)), D(r, ext))
  <2>1. PICK r \in CurrentRound(node[n])..MaxRound, b \in Block \ {GENESIS}, ext \in Extends :
           /\ WellFormedWithTC(r, b, ext)
           /\ VoteForProposal(n, S(r, b, ext), r, b, ext.tip)
           /\ ValidTC(r - 1, ext)
    BY <1>4 DEF HandleProposalWithTC
  <2> DEFINE s0 == ProcessCertificate(node[n], C(b))
             s == ProcessCertificate(s0, D(r, ext))
  <2>2. /\ r - 1 \in 0..MaxRound - 1 /\ parent[b] \in Block /\ ext \in HighExtend
        /\ ext.qc_round = qc_round[b] /\ ext.qc_round < r - 1
        /\ qc_round[b] \in 0..MaxRound - 1
    BY <1>0, <2>1, ChainAssumption DEF WellFormedWithTC, ValidTC
  <2>3. /\ C(b) \in Certificate /\ C(b).qc_round <= C(b).round
        /\ D(r, ext) \in Certificate /\ D(r, ext).qc_round <= D(r, ext).round
    BY <2>2, CertTyped
  <2> HIDE DEF C, D
  <2>4. s0 \in NodeState /\ Consistent(n, s0, votes, timeouts, no_endorsements, restarted, behind)
    BY <1>0, <2>3, AdvanceOK
  <2> HIDE DEF s0
  <2>5. s \in NodeState /\ Consistent(n, s, votes, timeouts, no_endorsements, restarted, behind)
    BY <2>3, <2>4, AdvanceOK
  <2>6. CurrentRound(s) = r /\ VoteForProposal(n, s, CurrentRound(s), b, ext.tip)
    BY <2>1 DEF VoteForProposal, s0
  <2>7. ext.tip \in Block => qc_round[ext.tip] = qc_round[b]
    BY <2>1, <2>2, ChainAssumption DEF ValidTC, ValidExtend, TipExtend
  <2> HIDE DEF s
  <2>8. QED  BY <2>5, <2>6, <2>7, VoteStep
<1>5. ASSUME NEW n \in Honest, LocalTimeout(n) PROVE IInv'
  <2> DEFINE t == TimedOutState(node[n])
  <2>1. t \in NodeState /\ Consistent(n, t, VotesAfter(n, node[n], votes),
              timeouts \cup {<<n, CurrentRound(node[n]), ReportedExtend(node[n])>>},
              no_endorsements, restarted, behind)
    BY <1>0, TimeoutOK
  <2>2. SendTimeout(n, node[n]) /\ SetNode(n, t)
        /\ UNCHANGED <<no_endorsements, restarted, behind>>
    BY <1>5 DEF LocalTimeout
  <2> HIDE DEF t
  <2>3. QED  BY <1>0, <2>1, <2>2, TimeoutStep
<1>6. ASSUME NEW n \in Honest, HandleTimeoutWithTC(n) PROVE IInv'
  <2> DEFINE S(q, b) == ProcessCertificate(node[n], QcCertificate(q, b))
  <2>1. PICK q \in 0..MaxRound - 1, b \in Block, ext \in Extends :
           /\ CurrentRound(S(q, b)) < MaxRound /\ ext.qc_round < CurrentRound(S(q, b))
           /\ SendTimeout(n, S(q, b))
           /\ SetNode(n, ProcessCertificate(TimedOutState(S(q, b)), TcCertificate(CurrentRound(S(q, b)), ext)))
           /\ UNCHANGED <<no_endorsements, restarted, behind>>
    BY <1>6 DEF HandleTimeoutWithTC, ValidTC
  <2> DEFINE s == S(q, b)
             r == CurrentRound(s)
             u == TimedOutState(s)
             W == VotesAfter(n, s, votes)
             U == timeouts \cup {<<n, r, ReportedExtend(s)>>}
             cert == TcCertificate(r, ext)
             t == ProcessCertificate(u, cert)
  <2>2. s \in NodeState /\ Consistent(n, s, votes, timeouts, no_endorsements, restarted, behind)
    BY <1>0, CertTyped, AdvanceOK
  <2> HIDE DEF S
  <2>3. u \in NodeState /\ Consistent(n, u, W, U, no_endorsements, restarted, behind)
    BY <2>2, TimeoutOK
  <2>4. r \in 0..MaxRound - 1 /\ ext \in HighExtend
    BY <1>0, <2>1, <2>2 DEF NodeState, Certificate, CurrentRound
  <2>5. cert \in Certificate /\ cert.qc_round <= cert.round
    BY <2>1, <2>4, CertTyped
  <2> HIDE DEF cert, u
  <2>6. t \in NodeState /\ Consistent(n, t, W, U, no_endorsements, restarted, behind)
    BY <2>3, <2>5, AdvanceOK
  <2>7. SendTimeout(n, s) /\ SetNode(n, t)
        /\ UNCHANGED <<no_endorsements, restarted, behind>>
    BY <2>1 DEF cert, u
  <2> HIDE DEF t, s
  <2>8. QED  BY <2>2, <2>6, <2>7, TimeoutStep
<1>7. ASSUME NEW n \in Honest, HandleRoundRecovery(n) PROVE IInv'
  <2> DEFINE C(r, b) == TcCertificate(r - 1, TipExtend(b))
             S(r, b) == ProcessCertificate(node[n], C(r, b))
  <2>1. PICK r \in CurrentRound(node[n])..MaxRound, b \in Block \ {GENESIS} :
           /\ r = CurrentRound(S(r, b)) /\ IsSafeToNoEndorse(S(r, b), r)
           /\ ValidTC(r - 1, TipExtend(b))
           /\ SetNode(n, [S(r, b) EXCEPT !.highest_no_endorse = r, !.no_endorse_tip = b])
           /\ no_endorsements' = no_endorsements \cup {<<n, r, qc_round[b]>>}
           /\ UNCHANGED <<votes, timeouts, restarted, behind>>
    BY <1>7 DEF HandleRoundRecovery
  <2> DEFINE cert == C(r, b)
             s == S(r, b)
  <2>2. r - 1 \in 0..MaxRound - 1 /\ TipExtend(b) \in HighExtend /\ TipExtend(b).qc_round < r - 1
    BY <1>0, <2>1, ExtendTyped DEF ValidTC
  <2>3. cert \in Certificate /\ cert.qc_round <= cert.round
    BY <2>2, CertTyped
  <2> HIDE DEF C
  <2>4. s \in NodeState /\ Consistent(n, s, votes, timeouts, no_endorsements, restarted, behind)
    BY <1>0, <2>3, AdvanceOK
  <2> HIDE DEF S
  <2>5. QED  BY <2>1, <2>4, NoEndorseStep
<1>8. CASE UNCHANGED vars
  BY <1>8 DEF vars, IInv, TypeOK, UniqueVotes, CommitVoteReported, NEVotesAgree
<1>9. QED
  BY <1>1, <1>2, <1>3, <1>4, <1>5, <1>6, <1>7, <1>8, RestartStep DEF Next

\* The inductive invariant holds throughout.
LEMMA Invariance == Spec => []IInv
BY InitIInv, StepIInv, PTL DEF Spec

-----------------------------------------------------------------------------
\* Every variable keeps its type: no handler stores a round that was never
\* entered, and nobody votes for the genesis block.
THEOREM VotingTypeCorrect == Spec => []TypeOK
<1>1. IInv => TypeOK
  BY DEF IInv
<1>2. QED  BY <1>1, Invariance, PTL

\* The assertion in Safety::timeout never fails.
THEOREM TimeoutNeverPanics == Spec => []NeverVotesAhead
<1>1. IInv => NeverVotesAhead
  BY DEF IInv, Consistent, RoundsOK, NeverVotesAhead
<1>2. QED  BY <1>1, Invariance, PTL

\* Certificates do not disappear: votes are only added.
LEMMA CertifiedStable ==
    ASSUME NEW r, NEW b, Certified(r, b), votes \subseteq votes'
    PROVE  Certified(r, b)'
<1> DEFINE S1 == {n \in Honest : <<n, r, b>> \in votes}
           S2 == {n \in Honest : <<n, r, b>> \in votes'}
<1>1. CASE Signed(S1)
  <2>1. S1 \cup Byzantine \in Supermajority /\ S1 \cup Byzantine \subseteq S2 \cup Byzantine
        /\ S2 \cup Byzantine \in SUBSET Validators
    BY <1>1, BFTAssumption DEF Signed, Byzantine
  <2>2. Signed(S2)
    BY <2>1, BFTAssumption DEF Signed
  <2>3. QED  BY <2>2 DEF Certified, Signed, Byzantine
<1>2. QED  BY <1>1 DEF Certified

\* Every block that was voted for extends a certified block.
VotesExtendQCs == \A v \in votes : Certified(qc_round[v[3]], parent[v[3]])

\* A vote is for a block whose QC verified, or for the high tip once more.
LEMMA VotesExtendQCsInvariant == Spec => []VotesExtendQCs
<1>1. Init => VotesExtendQCs
  BY DEF Init, VotesExtendQCs
<1>2. IInv /\ VotesExtendQCs /\ [Next]_vars => VotesExtendQCs'
  <2> SUFFICES ASSUME IInv, VotesExtendQCs, [Next]_vars,
                      NEW v \in votes'
               PROVE  Certified(qc_round[v[3]], parent[v[3]])'
    BY DEF VotesExtendQCs
  <2>0. \/ votes' = votes
        \/ \E n \in Honest : \E s, r, b, tc_tip : VoteForProposal(n, s, r, b, tc_tip)
        \/ \E n \in Honest : \E s : SendTimeout(n, s) /\ TipVoted(n, s, votes)
    <3>1. ASSUME NEW n \in Honest, LocalTimeout(n)
          PROVE  SendTimeout(n, node[n]) /\ TipVoted(n, node[n], votes)
      BY <3>1 DEF LocalTimeout, IInv, Consistent
    <3>2. ASSUME NEW n \in Honest, HandleTimeoutWithTC(n)
          PROVE  \E s : SendTimeout(n, s) /\ TipVoted(n, s, votes)
      <4>1. PICK q \in 0..MaxRound - 1, b \in Block :
               SendTimeout(n, ProcessCertificate(node[n], QcCertificate(q, b)))
        BY <3>2 DEF HandleTimeoutWithTC
      <4>2. Consistent(n, ProcessCertificate(node[n], QcCertificate(q, b)),
                       votes, timeouts, no_endorsements, restarted, behind)
        BY CertTyped, AdvanceOK DEF IInv, TypeOK
      <4>3. QED  BY <4>1, <4>2 DEF Consistent
    <3>3. ASSUME NEW n \in Honest, Restart(n)
          PROVE  votes' = votes
      <4>1. PICK cert : SendTimeout(n, Restored(cert))
        BY <3>3 DEF Restart
      <4>2. Restored(cert).maybe_high_tip = NoTip
        BY DEF Restored
      <4>3. QED  BY <4>1, <4>2 DEF SendTimeout
    <3>4. QED
      BY <3>1, <3>2, <3>3 DEF Next, vars, HandleQC, HandleTC, HandleProposal, HandleProposalWithTC,
             HandleRoundRecovery
  <2>1. votes \subseteq votes'
    BY <2>0 DEF VoteForProposal, SendTimeout
  <2>2. CASE v \in votes
    BY <2>1, <2>2, CertifiedStable DEF VotesExtendQCs
  <2>3. CASE v \notin votes
    <3>1. ASSUME NEW n \in Honest, NEW s, NEW r, NEW b, NEW tc_tip,
                 VoteForProposal(n, s, r, b, tc_tip)
          PROVE  Certified(qc_round[v[3]], parent[v[3]])
      <4>1. v[3] = b /\ ValidTip(b)
        BY <2>3, <3>1 DEF VoteForProposal
      <4>2. QED  BY <4>1 DEF ValidTip
    <3>2. ASSUME NEW n \in Honest, NEW s, SendTimeout(n, s), TipVoted(n, s, votes)
          PROVE  Certified(qc_round[v[3]], parent[v[3]])
      <4>1. v[3] = s.maybe_high_tip /\ s.maybe_high_tip # NoTip
        BY <2>3, <3>2 DEF SendTimeout
      <4>2. PICK r \in Rounds : <<n, r, v[3]>> \in votes
        BY <3>2, <4>1 DEF TipVoted
      <4>3. QED  BY <4>2 DEF VotesExtendQCs
    <3>3. QED  BY <2>0, <2>1, <2>3, <3>1, <3>2, CertifiedStable
  <2>4. QED  BY <2>2, <2>3
<1>3. QED  BY <1>1, <1>2, Invariance, PTL DEF Spec

\* Votes for one round and block come from a supermajority if there is a QC.
LEMMA QCSigned ==
    ASSUME NEW r \in Rounds, NEW b \in Block, Certified(r, b)
    PROVE  Signed({n \in Honest : <<n, r, b>> \in votes})
BY BFTAssumption DEF Certified, Rounds

\* The certificates of one round agree, round 0 included, if nobody is behind.
LEMMA QCsAgree ==
    ASSUME IInv, behind = {}, NEW r \in 0..MaxRound, NEW b \in Block, NEW c \in Block,
           Certified(r, b), Certified(r, c)
    PROVE  b = c
<1>1. CASE r \in Rounds
  <2>1. PICK n \in Honest : <<n, r, b>> \in votes /\ <<n, r, c>> \in votes
    <3> DEFINE S1 == {n \in Honest : <<n, r, b>> \in votes}
               S2 == {n \in Honest : <<n, r, c>> \in votes}
    <3>1. Signed(S1) /\ Signed(S2)
      BY <1>1, QCSigned
    <3>2. \E n \in Honest : n \in S1 /\ n \in S2
      BY <3>1, CommonHonest
    <3>3. QED  BY <3>2
  <2>2. QED  BY <1>1, <2>1 DEF IInv, UniqueVotes
<1>2. CASE r \notin Rounds
  <2>1. r = 0
    BY <1>2, BFTAssumption DEF Rounds
  <2>2. ASSUME NEW d \in Block, Certified(0, d) PROVE d = GENESIS
    <3> DEFINE S == {n \in Honest : <<n, 0, d>> \in votes}
    <3>1. ASSUME Signed(S) PROVE FALSE
      <4>1. \E n \in Honest : n \in S /\ n \in S
        BY <3>1, CommonHonest
      <4>2. QED  BY <4>1 DEF IInv, TypeOK, Rounds
    <3>2. QED  BY <2>2, <3>1 DEF Certified
  <2>3. QED  BY <2>1, <2>2
<1>3. QED  BY <1>1, <1>2

\* At most one block gets a QC in a round: every validator votes once per round,
\* whether in a vote message, in a timeout or around a restart from its latest
\* forkpoint.  Otherwise all honest validators that some two supermajorities share
\* voted for both blocks, each around a restart from an older forkpoint.
THEOREM OneQC == Spec => []OneQCPerRound
<1>1. ASSUME IInv, NEW r \in Rounds, NEW b \in Block, NEW c \in Block, Certified(r, b), Certified(r, c), b # c
      PROVE  BreaksQuorum({n \in behind : {<<n, r, b>>, <<n, r, c>>} \subseteq votes})
  <2> DEFINE S1 == {n \in Honest : <<n, r, b>> \in votes}
             S2 == {n \in Honest : <<n, r, c>> \in votes}
             D == {n \in behind : {<<n, r, b>>, <<n, r, c>>} \subseteq votes}
  <2>1. S1 \cup Byzantine \in Supermajority /\ S2 \cup Byzantine \in Supermajority
    BY <1>1, QCSigned DEF Signed
  <2>2. ASSUME NEW n \in (S1 \cup Byzantine) \cap (S2 \cup Byzantine) \cap Honest PROVE n \in D
    <3>1. n \in Honest /\ <<n, r, b>> \in votes /\ <<n, r, c>> \in votes
      BY <2>2 DEF Byzantine
    <3>2. n \in behind
      BY <1>1, <3>1 DEF IInv, UniqueVotes
    <3>3. QED  BY <3>1, <3>2
  <2>3. QED  BY <2>1, <2>2 DEF BreaksQuorum
<1>2. IInv => OneQCPerRound
  BY <1>1 DEF OneQCPerRound
<1>3. QED  BY <1>2, Invariance, PTL

\* An NEC and a QC of one round rest on the same QC, as long as nobody votes for
\* a block before the block's own round; or all honest validators that some two
\* supermajorities share signed for both, each around a restart from an old forkpoint.
THEOREM QCAndNECNeverConflict == Spec => []QCAndNECAgree
<1>1. ASSUME IInv, NoVoteBeforeBlockRound, NEW r \in Rounds, NEW q \in 0..MaxRound,
             NEW b \in Block, Certified(r, b), NoEndorsed(r, q), qc_round[b] # q
      PROVE  BreaksQuorum({n \in behind : <<n, r, b>> \in votes /\ <<n, r, q>> \in no_endorsements})
  <2> DEFINE S1 == {n \in Honest : <<n, r, b>> \in votes}
             S2 == {n \in Honest : <<n, r, q>> \in no_endorsements}
             D == {n \in behind : <<n, r, b>> \in votes /\ <<n, r, q>> \in no_endorsements}
  <2>1. S1 \cup Byzantine \in Supermajority /\ S2 \cup Byzantine \in Supermajority
    BY <1>1, QCSigned DEF NoEndorsed, Signed
  <2>2. OnTime(votes) /\ q \in Nat
    BY <1>1, BFTAssumption DEF NoVoteBeforeBlockRound, OnTime
  <2>3. ASSUME NEW n \in (S1 \cup Byzantine) \cap (S2 \cup Byzantine) \cap Honest PROVE n \in D
    <3>1. n \in Honest /\ <<n, r, b>> \in votes /\ <<n, r, q>> \in no_endorsements
      BY <2>3 DEF Byzantine
    <3>2. n \in behind
      BY <1>1, <2>2, <3>1 DEF IInv, NEVotesAgree
    <3>3. QED  BY <3>1, <3>2
  <2>4. QED  BY <2>1, <2>3 DEF BreaksQuorum
<1>2. IInv => QCAndNECAgree
  BY <1>1 DEF QCAndNECAgree
<1>3. QED  BY <1>2, Invariance, PTL

\* A committing QC binds every TC of its own round if no validator restarted: a
\* validator that voted for the committing block and then times out reports it
\* as its high tip, every TC contains such a report, and nothing that outranks
\* it can extend an older QC.
THEOREM CommitBinding == Spec => []CommitBindsTC
<1>1. ASSUME IInv, VotesExtendQCs, restarted = {}, NEW b \in Block, Commits(b), NEW ext \in Extends,
             ValidTC(qc_round[b] + 1, ext),
             ext.tip = NoTip \/ block_round[ext.tip] <= qc_round[b] + 1
      PROVE  parent[b] \in ancestors[ext.qc_block]
  <2> DEFINE r == qc_round[b]
             voters == {n \in Honest : <<n, r + 1, b>> \in votes}
             reports == {t \in timeouts : t[2] = r + 1 /\ RankLeq(t[3], ext)}
             senders == {t[1] : t \in reports}
  <2>1. /\ b # GENESIS /\ r \in Nat /\ block_round[b] \in Nat /\ block_round[b] > r
        /\ parent[b] \in Block /\ NoTip \notin Block
    BY <1>1, ChainAssumption DEF Commits
  <2>2. Signed(voters)
    BY <1>1, <2>1 DEF Commits, Certified
  <2>3. senders \subseteq Honest /\ Signed(senders)
    BY <1>1 DEF ValidTC, TimedOut, IInv, TypeOK
  <2>4. PICK n \in Honest : n \in voters /\ n \in senders
    BY <2>2, <2>3, CommonHonest
  <2>5. PICK t \in reports : t[1] = n
    BY <2>4
  <2>6. /\ r + 1 \in Rounds /\ t[3] \in HighExtend /\ t = <<n, r + 1, t[3]>>
    BY <1>1, <2>5 DEF IInv, TypeOK
  <2>7. t[3] = TipExtend(b)
    BY <1>1, <2>4, <2>5, <2>6 DEF IInv, CommitVoteReported
  <2>8. RankLeq(TipExtend(b), ext)
    BY <2>5, <2>7
  <2>9. /\ ext \in HighExtend /\ ext.qc_round \in Nat /\ ext.qc_round < r + 1 /\ ext.qc_block \in Block
        /\ ext.tip \in Block \cup {NoTip}
    BY <1>1, ExtendTyped DEF ValidTC, HighExtend
  <2>10. ext.tip # NoTip /\ block_round[ext.tip] = block_round[b] /\ ext.qc_round = r
    BY <1>1, <2>1, <2>8, <2>9, ChainAssumption DEF RankLeq, RankRound, TipExtend
  <2>11. ext.qc_block = parent[ext.tip] /\ Certified(r, ext.qc_block)
    BY <1>1, <2>9, <2>10 DEF ValidTC, ValidExtend, ValidTip, TipExtend
  <2>12. Certified(r, parent[b])
    BY <1>1, <2>4 DEF VotesExtendQCs
  <2>13. ext.qc_block = parent[b]
    <3>1. r \in 0..MaxRound
      BY <2>1, <2>6, BFTAssumption DEF Rounds
    <3>2. behind = {}
      BY <1>1 DEF IInv
    <3>3. QED  BY <1>1, <2>1, <2>9, <2>11, <2>12, <3>1, <3>2, QCsAgree
  <2>14. \A c \in Block : c \in ancestors[c]
    BY ChainAssumption
  <2>15. QED  BY <2>1, <2>13, <2>14
<1>2. IInv /\ VotesExtendQCs => CommitBindsTC
  BY <1>1 DEF CommitBindsTC, TCsExtendQCOf
<1>3. QED  BY <1>2, Invariance, VotesExtendQCsInvariant, PTL

-----------------------------------------------------------------------------
(* Finality over any number of rounds.                                     *)

\* A node without a high tip reports the highest QC it has seen.  The code keeps
\* the round of that QC in Safety and the QC itself only as part of the high
\* certificate, which a TC of a later round replaces.
HighestQC(s) == s.maybe_high_tip = NoTip => s.high_certificate.qc_round >= s.high_certificate_qc_round

\* What the finality of commits rests on besides the rules of Safety: no restart,
\* no vote for a block before its own round, no QC that is forgotten.
Steady ==
    /\ restarted = {}
    /\ NoVoteBeforeBlockRound
    /\ \A n \in Honest : HighestQC(node[n])

\* Every block with a QC of the committed block's round or of a later one extends
\* the committed block, and every TC of a later round asks to build on it.
CommittedStays ==
    \A b \in Block : Commits(b) =>
        /\ \A r \in 0..MaxRound, c \in Block : r >= qc_round[b] /\ Certified(r, c) => parent[b] \in ancestors[c]
        /\ \A r \in 0..MaxRound, ext \in Extends :
              r > qc_round[b] /\ ValidTC(r, ext) => parent[b] \in ancestors[ext.qc_block]

\* Two committed blocks are on one chain.
CommitsAgree ==
    \A b, c \in Block : Commits(b) /\ Commits(c) =>
        parent[b] \in ancestors[parent[c]] \/ parent[c] \in ancestors[parent[b]]

\* A timeout of the current round has carried the vote for the high tip.
VoteIncluded(n, s, V) ==
    s.highest_vote = CurrentRound(s) /\ s.maybe_high_tip # NoTip /\ SafeToIncludeVote(s)
        => <<n, CurrentRound(s), s.maybe_high_tip>> \in V

\* The vote that commits b's parent.
CommitVote(n, b, V) == <<n, qc_round[b] + 1, b>> \in V

\* b may still get the QC that commits its parent.
Undecided(n, s, V, b) == CommitVote(n, b, V) \/ s.highest_vote <= qc_round[b]
MayCommit(b) == Signed({n \in Honest : Undecided(n, node[n], votes, b)})

\* c is no worse than b for the block that b commits.
Keeps(b, c) == parent[b] \in ancestors[parent[c]] /\ RankLeq(TipExtend(b), TipExtend(c))

NodeKeeps(b, s) ==
    IF s.maybe_high_tip = NoTip THEN s.high_certificate_qc_round > qc_round[b] ELSE Keeps(b, s.maybe_high_tip)

\* A validator that cast the vote votes for, reports and holds nothing worse later.
KeepsCommit(n, s, V, T, b) ==
    CommitVote(n, b, V) =>
        /\ \A k \in Rounds, c \in Block : <<n, k, c>> \in V /\ k > qc_round[b] + 1 => Keeps(b, c)
        /\ \A k \in Rounds, e \in HighExtend : <<n, k, e>> \in T /\ k > qc_round[b] => RankLeq(TipExtend(b), e)
        /\ NodeKeeps(b, s)

\* A tip that is not endorsed later rests on a QC that extends the block.
NEsKeep(b) ==
    \A n \in Honest, k \in Rounds, q \in Nat : <<n, k, q>> \in no_endorsements /\ k > qc_round[b] + 1 =>
        \E d \in Block : Certified(q, d) /\ parent[b] \in ancestors[d]

Kept(b) == NEsKeep(b) /\ \A n \in Honest : KeepsCommit(n, node[n], votes, timeouts, b)

\* The inductive invariant of finality.
FInv ==
    /\ \A n \in Honest : VoteIncluded(n, node[n], votes)
    /\ \A b \in Block \ {GENESIS} : MayCommit(b) => Kept(b)

-----------------------------------------------------------------------------
\* The rank is an order.
LEMMA RankOrder ==
    /\ \A e \in HighExtend : RankLeq(e, e)
    /\ \A e, f, h \in HighExtend : RankLeq(e, f) /\ RankLeq(f, h) => RankLeq(e, h)
<1>1. \A e \in HighExtend : RankRound(e) \in Nat /\ e.qc_round \in Nat
  BY ChainAssumption DEF RankRound, HighExtend
<1>2. QED  BY <1>1 DEF RankLeq

\* A block that was voted for right after its QC is of that round, and keeps itself.
LEMMA CommitBlock ==
    ASSUME NEW n, NEW b \in Block \ {GENESIS}, NEW V, OnTime(V), CommitVote(n, b, V)
    PROVE  /\ qc_round[b] \in Nat /\ block_round[b] = qc_round[b] + 1
           /\ Keeps(b, b)
<1>1. block_round[b] <= qc_round[b] + 1
  BY DEF OnTime, CommitVote
<1>2. qc_round[b] \in Nat /\ block_round[b] = qc_round[b] + 1 /\ parent[b] \in Block
  BY <1>1, ChainAssumption
<1>3. \A c \in Block : c \in ancestors[c]
  BY ChainAssumption
<1>4. QED  BY <1>2, <1>3, RankOrder, ExtendTyped DEF Keeps

\* A block that keeps b is not of an earlier round.
LEMMA KeepsRound ==
    ASSUME NEW b \in Block, NEW c \in Block, Keeps(b, c)
    PROVE  block_round[c] >= block_round[b]
BY ChainAssumption DEF Keeps, RankLeq, RankRound, TipExtend

\* A certificate makes a validator forget neither a tip nor a QC that matters.
LEMMA AdvanceKeepsCommit ==
    ASSUME NEW n \in Honest, NEW s \in NodeState, NEW cert \in Certificate, NEW V, NEW T, NEW E, NEW R,
           Consistent(n, s, V, T, E, R, {}), VoteIncluded(n, s, V), OnTime(V)
    PROVE  LET t == ProcessCertificate(s, cert)
           IN  /\ VoteIncluded(n, t, V)
               /\ \A b \in Block \ {GENESIS} : KeepsCommit(n, s, V, T, b) => KeepsCommit(n, t, V, T, b)
<1> DEFINE t == ProcessCertificate(s, cert)
<1>1. CASE cert.round <= s.high_certificate.round
  BY <1>1 DEF ProcessCertificate
<1>2. CASE ~(cert.round <= s.high_certificate.round)
  <2> DEFINE q == IF cert.qc_round > s.high_certificate_qc_round
                  THEN cert.qc_round ELSE s.high_certificate_qc_round
             tip == IF s.maybe_high_tip # NoTip /\ block_round[s.maybe_high_tip] > q
                    THEN s.maybe_high_tip ELSE NoTip
  <2>0. /\ s.high_certificate.round \in Nat /\ cert.round \in Nat
        /\ cert.qc_round \in Nat /\ s.high_certificate_qc_round \in Nat /\ s.highest_vote \in Nat
        /\ s.maybe_high_tip \in (Block \ {GENESIS}) \cup {NoTip}
    BY BFTAssumption DEF NodeState, Certificate
  <2>1. q \in Nat /\ q >= s.high_certificate_qc_round
    BY <2>0
  <2>2. /\ t.high_certificate = cert /\ t.high_certificate_qc_round = q
        /\ t.maybe_high_tip = tip /\ t.highest_vote = s.highest_vote
    BY <1>2 DEF ProcessCertificate, NodeState
  <2> HIDE DEF t, q
  <2>3. VoteIncluded(n, t, V)
    <3>1. s.highest_vote <= s.high_certificate.round + 1
      BY DEF Consistent, RoundsOK, CurrentRound
    <3>2. t.highest_vote # CurrentRound(t)
      BY <1>2, <2>0, <2>2, <3>1 DEF CurrentRound
    <3>3. QED  BY <3>2 DEF VoteIncluded
  <2>4. ASSUME NEW b \in Block \ {GENESIS}, CommitVote(n, b, V), NodeKeeps(b, s)
        PROVE  NodeKeeps(b, t)
    <3>1. qc_round[b] \in Nat /\ block_round[b] = qc_round[b] + 1
      BY <2>4, CommitBlock
    <3>2. CASE s.maybe_high_tip = NoTip
      BY <2>0, <2>1, <2>2, <2>4, <3>1, <3>2 DEF NodeKeeps
    <3>3. CASE s.maybe_high_tip # NoTip /\ block_round[s.maybe_high_tip] > q
      BY <2>2, <2>4, <3>3 DEF NodeKeeps
    <3>4. CASE s.maybe_high_tip # NoTip /\ ~(block_round[s.maybe_high_tip] > q)
      <4>1. s.maybe_high_tip \in Block /\ Keeps(b, s.maybe_high_tip)
        BY <2>0, <2>4, <3>4 DEF NodeKeeps
      <4>2. block_round[s.maybe_high_tip] >= block_round[b] /\ block_round[s.maybe_high_tip] \in Nat
        BY <4>1, KeepsRound, ChainAssumption
      <4>3. t.maybe_high_tip = NoTip /\ q > qc_round[b]
        BY <2>1, <2>2, <3>1, <3>4, <4>2
      <4>4. QED  BY <2>2, <4>3 DEF NodeKeeps
    <3>5. QED  BY <3>2, <3>3, <3>4
  <2>5. QED  BY <2>3, <2>4 DEF KeepsCommit, t
<1>3. QED  BY <1>1, <1>2

\* A vote: the commit vote itself, or a later one that keeps its block.
LEMMA VoteKeepsCommit ==
    ASSUME NEW n \in Honest, NEW s \in NodeState, NEW c \in Block \ {GENESIS}, NEW tc_tip,
           NEW V, NEW T, NEW E, NEW R, NEW V2, V2 = V \cup {<<n, CurrentRound(s), c>>},
           \A k, x : <<n, k, x>> \in V => k \in Rounds,
           Consistent(n, s, V, T, E, R, {}), IsSafeToVote(s, CurrentRound(s), tc_tip), OnTime(V2)
    PROVE  LET t == Vote(s, CurrentRound(s), c)
           IN  /\ VoteIncluded(n, t, V2)
               /\ \A b \in Block \ {GENESIS} :
                     /\ Undecided(n, t, V2, b) => Undecided(n, s, V, b)
                     /\ KeepsCommit(n, s, V, T, b)
                          /\ (CommitVote(n, b, V) /\ CurrentRound(s) > qc_round[b] + 1 => Keeps(b, c))
                          => KeepsCommit(n, t, V2, T, b)
<1> DEFINE r == CurrentRound(s)
           t == Vote(s, r, c)
<1>0. /\ s.high_certificate.round \in Nat /\ r \in Rounds /\ r \in Nat
      /\ s.high_certificate_qc_round \in Nat /\ s.highest_vote \in Nat /\ s.highest_vote < r
      /\ block_round[c] \in Nat /\ NoTip \notin Block
  BY BFTAssumption, ChainAssumption DEF NodeState, Certificate, CurrentRound, Rounds, IsSafeToVote
<1>1. /\ t.high_certificate = s.high_certificate /\ t.highest_vote = r
      /\ t.high_certificate_qc_round = s.high_certificate_qc_round
      /\ t.maybe_high_tip = IF block_round[c] > s.high_certificate_qc_round THEN c ELSE NoTip
      /\ CurrentRound(t) = r
  BY DEF Vote, NodeState, CurrentRound
<1> HIDE DEF t, r
<1>2. VoteIncluded(n, t, V2)
  BY <1>1 DEF VoteIncluded, r
<1>3. \A k \in Rounds, x \in Block : <<n, k, x>> \in V => k < r
  BY <1>0 DEF Consistent, SignedBelow, Rounds
<1>4. \A k \in Rounds, e \in HighExtend : <<n, k, e>> \in T => k < r
  BY <1>0 DEF Consistent, SignedBelow, Rounds
<1>5. \A k, x : <<n, k, x>> \in V2 => <<n, k, x>> \in V \/ (k = r /\ x = c)
  BY DEF r
<1>6. OnTime(V)
  BY DEF OnTime
<1>7. ASSUME NEW b \in Block \ {GENESIS}, Undecided(n, t, V2, b) PROVE Undecided(n, s, V, b)
  <2>0. qc_round[b] \in Nat
    BY ChainAssumption
  <2>1. CASE CommitVote(n, b, V2)
    BY <1>0, <1>5, <2>0, <2>1 DEF CommitVote, Undecided
  <2>2. CASE t.highest_vote <= qc_round[b]
    BY <1>0, <1>1, <2>0, <2>2 DEF Undecided
  <2>3. QED  BY <1>7, <2>1, <2>2 DEF Undecided
<1>8. ASSUME NEW b \in Block \ {GENESIS}, KeepsCommit(n, s, V, T, b), CommitVote(n, b, V2),
             CommitVote(n, b, V) /\ r > qc_round[b] + 1 => Keeps(b, c)
      PROVE  /\ \A k \in Rounds, x \in Block : <<n, k, x>> \in V2 /\ k > qc_round[b] + 1 => Keeps(b, x)
             /\ \A k \in Rounds, e \in HighExtend : <<n, k, e>> \in T /\ k > qc_round[b] => RankLeq(TipExtend(b), e)
             /\ NodeKeeps(b, t)
  <2>0. qc_round[b] \in Nat /\ block_round[b] = qc_round[b] + 1 /\ Keeps(b, b)
    BY <1>8, CommitBlock
  <2>1. CASE CommitVote(n, b, V)
    <3>1. qc_round[b] + 1 \in Rounds /\ qc_round[b] + 1 < r
      BY <1>3, <2>1 DEF CommitVote
    <3>2. qc_round[b] + 1 < r
      BY <3>1
    <3>3. Keeps(b, c) /\ block_round[c] >= block_round[b]
      BY <1>0, <1>8, <2>0, <2>1, <3>2, KeepsRound
    <3>4. NodeKeeps(b, t)
      BY <1>0, <1>1, <2>0, <3>3 DEF NodeKeeps
    <3>5. QED  BY <1>5, <1>8, <2>1, <3>3, <3>4 DEF KeepsCommit
  <2>2. CASE ~CommitVote(n, b, V)
    <3>1. qc_round[b] + 1 = r /\ b = c
      BY <1>5, <1>8, <2>2 DEF CommitVote
    <3>2. NodeKeeps(b, t)
      BY <1>0, <1>1, <2>0, <3>1 DEF NodeKeeps
    <3>3. ASSUME NEW k \in Rounds, NEW x \in Block, <<n, k, x>> \in V2, k > qc_round[b] + 1
          PROVE  FALSE
      BY <1>0, <1>3, <1>5, <2>0, <3>1, <3>3 DEF Rounds
    <3>4. ASSUME NEW k \in Rounds, NEW e \in HighExtend, <<n, k, e>> \in T, k > qc_round[b]
          PROVE  FALSE
      BY <1>0, <1>4, <2>0, <3>1, <3>4 DEF Rounds
    <3>5. QED  BY <3>2, <3>3, <3>4
  <2>3. QED  BY <2>1, <2>2
<1>9. QED  BY <1>2, <1>7, <1>8 DEF KeepsCommit, t, r

\* A timeout: it reports and votes for what the node holds.
LEMMA TimeoutKeepsCommit ==
    ASSUME NEW n \in Honest, NEW s \in NodeState, NEW V, NEW T, NEW E, NEW R, n \notin R,
           Consistent(n, s, V, T, E, R, {}), VoteIncluded(n, s, V), HighestQC(s), OnTime(VotesAfter(n, s, V))
    PROVE  LET t == TimedOutState(s)
               V2 == VotesAfter(n, s, V)
               T2 == T \cup {<<n, CurrentRound(s), ReportedExtend(s)>>}
           IN  /\ VoteIncluded(n, t, V2)
               /\ \A b \in Block \ {GENESIS} :
                     /\ Undecided(n, t, V2, b) => Undecided(n, s, V, b)
                     /\ KeepsCommit(n, s, V, T, b) => KeepsCommit(n, t, V2, T2, b)
<1> DEFINE r == CurrentRound(s)
           t == TimedOutState(s)
           e0 == ReportedExtend(s)
           V2 == VotesAfter(n, s, V)
           T2 == T \cup {<<n, r, e0>>}
<1>0. /\ s.high_certificate.round \in Nat /\ r \in Rounds /\ r \in Nat
      /\ s.high_certificate_qc_round \in Nat /\ s.highest_vote \in Nat /\ s.highest_vote <= r
      /\ s.high_certificate.qc_round \in Nat /\ s.high_certificate.qc_block \in Block
      /\ s.maybe_high_tip \in (Block \ {GENESIS}) \cup {NoTip} /\ NoTip \notin Block
  BY BFTAssumption, ChainAssumption DEF NodeState, Certificate, CurrentRound, Rounds, Consistent, RoundsOK
<1>1. /\ t.high_certificate = s.high_certificate /\ t.highest_vote = r
      /\ t.high_certificate_qc_round = s.high_certificate_qc_round
      /\ t.maybe_high_tip = s.maybe_high_tip /\ t.highest_no_endorse = s.highest_no_endorse
      /\ CurrentRound(t) = r
  BY DEF TimedOutState, NodeState, CurrentRound
<1>2. e0 \in HighExtend
  BY ReportTyped
<1>3. e0 = IF s.maybe_high_tip # NoTip THEN TipExtend(s.maybe_high_tip)
           ELSE QcExtend(s.high_certificate.qc_round, s.high_certificate.qc_block)
  BY DEF ReportedExtend
<1>4. /\ V \subseteq V2
      /\ s.maybe_high_tip # NoTip /\ SafeToIncludeVote(s) => <<n, r, s.maybe_high_tip>> \in V2
      /\ \A k, x : <<n, k, x>> \in V2 =>
            \/ <<n, k, x>> \in V
            \/ k = r /\ x = s.maybe_high_tip /\ s.maybe_high_tip # NoTip /\ SafeToIncludeVote(s)
  BY DEF VotesAfter
<1>5. \A k \in Rounds, x \in Block : <<n, k, x>> \in V => k <= r
  BY <1>0 DEF Consistent, SignedBelow, Rounds
<1>6. \A k \in Rounds, e \in HighExtend : <<n, k, e>> \in T => k <= r
  BY <1>0 DEF Consistent, SignedBelow, Rounds
<1>7. \A e \in HighExtend : <<n, r, e>> \in T => e = e0
  BY DEF Consistent, Reported
<1>8. SafeToIncludeVote(t) <=> SafeToIncludeVote(s)
  BY <1>1 DEF SafeToIncludeVote
<1> HIDE DEF t, r, e0, V2
<1>9. VoteIncluded(n, t, V2)
  BY <1>1, <1>4, <1>8 DEF VoteIncluded
<1>10. ASSUME NEW b \in Block \ {GENESIS}, Undecided(n, t, V2, b) PROVE Undecided(n, s, V, b)
  <2>0. qc_round[b] \in Nat
    BY ChainAssumption
  <2>1. CASE CommitVote(n, b, V2) /\ ~CommitVote(n, b, V)
    <3>1. qc_round[b] + 1 = r /\ b = s.maybe_high_tip /\ s.maybe_high_tip # NoTip /\ SafeToIncludeVote(s)
          /\ <<n, r, s.maybe_high_tip>> \notin V
      BY <1>4, <2>1 DEF CommitVote
    <3>2. s.highest_vote # r
      BY <3>1 DEF VoteIncluded, r
    <3>3. QED  BY <1>0, <2>0, <3>1, <3>2 DEF Undecided
  <2>2. CASE t.highest_vote <= qc_round[b]
    BY <1>0, <1>1, <2>0, <2>2 DEF Undecided
  <2>3. QED  BY <1>10, <2>1, <2>2 DEF Undecided
<1>11. ASSUME NEW b \in Block \ {GENESIS}, KeepsCommit(n, s, V, T, b), CommitVote(n, b, V2)
       PROVE  /\ \A k \in Rounds, x \in Block : <<n, k, x>> \in V2 /\ k > qc_round[b] + 1 => Keeps(b, x)
              /\ \A k \in Rounds, e \in HighExtend : <<n, k, e>> \in T2 /\ k > qc_round[b] => RankLeq(TipExtend(b), e)
              /\ NodeKeeps(b, t)
  <2>0. qc_round[b] \in Nat /\ block_round[b] = qc_round[b] + 1 /\ Keeps(b, b) /\ TipExtend(b) \in HighExtend
    BY <1>11, CommitBlock, ExtendTyped DEF V2
  <2>1. CASE CommitVote(n, b, V)
    <3>1. NodeKeeps(b, s)
      BY <1>11, <2>1 DEF KeepsCommit
    <3>2. NodeKeeps(b, t)
      BY <1>1, <3>1 DEF NodeKeeps
    <3>3. s.maybe_high_tip # NoTip => Keeps(b, s.maybe_high_tip)
      BY <3>1 DEF NodeKeeps
    <3>4. RankLeq(TipExtend(b), e0)
      <4>1. CASE s.maybe_high_tip # NoTip
        BY <1>3, <3>3, <4>1 DEF Keeps
      <4>2. CASE s.maybe_high_tip = NoTip
        <5>1. s.high_certificate.qc_round > qc_round[b]
          BY <1>0, <2>0, <3>1, <4>2 DEF NodeKeeps, HighestQC
        <5>2. e0.tip = NoTip /\ e0.qc_round = s.high_certificate.qc_round
          BY <1>3, <4>2 DEF QcExtend
        <5>3. QED  BY <1>0, <2>0, <5>1, <5>2 DEF RankLeq, RankRound, TipExtend
      <4>3. QED  BY <4>1, <4>2
    <3>5. QED  BY <1>4, <1>11, <2>1, <3>2, <3>3, <3>4 DEF KeepsCommit
  <2>2. CASE ~CommitVote(n, b, V)
    <3>1. qc_round[b] + 1 = r /\ b = s.maybe_high_tip /\ s.maybe_high_tip # NoTip
      BY <1>4, <1>11, <2>2 DEF CommitVote
    <3>2. NodeKeeps(b, t)
      BY <1>1, <2>0, <3>1 DEF NodeKeeps
    <3>3. ASSUME NEW k \in Rounds, NEW x \in Block, <<n, k, x>> \in V2, k > qc_round[b] + 1
          PROVE  FALSE
      BY <1>0, <1>4, <1>5, <2>0, <3>1, <3>3 DEF Rounds
    <3>4. ASSUME NEW k \in Rounds, NEW e \in HighExtend, <<n, k, e>> \in T2, k > qc_round[b]
          PROVE  RankLeq(TipExtend(b), e)
      <4>1. e0 = TipExtend(b)
        BY <1>3, <3>1
      <4>2. CASE <<n, k, e>> \in T
        <5>1. k = r
          BY <1>0, <1>6, <2>0, <3>1, <3>4, <4>2 DEF Rounds
        <5>2. QED  BY <1>7, <2>0, <4>1, <4>2, <5>1, RankOrder
      <4>3. CASE <<n, k, e>> \notin T
        BY <2>0, <3>4, <4>1, <4>3, RankOrder
      <4>4. QED  BY <4>2, <4>3
    <3>5. QED  BY <3>2, <3>3, <3>4
  <2>3. QED  BY <2>1, <2>2
<1>12. QED  BY <1>9, <1>10, <1>11 DEF KeepsCommit, t, r, e0, V2

\* A no-endorsement changes nothing that a commit rests on.
LEMMA NoEndorseKeepsCommit ==
    ASSUME NEW n \in Honest, NEW s \in NodeState, NEW x, NEW V, NEW T, IsSafeToNoEndorse(s, CurrentRound(s))
    PROVE  LET t == [s EXCEPT !.highest_no_endorse = CurrentRound(s), !.no_endorse_tip = x]
           IN  /\ VoteIncluded(n, t, V)
               /\ \A b \in Block \ {GENESIS} :
                     /\ Undecided(n, t, V, b) => Undecided(n, s, V, b)
                     /\ KeepsCommit(n, s, V, T, b) => KeepsCommit(n, t, V, T, b)
<1> DEFINE t == [s EXCEPT !.highest_no_endorse = CurrentRound(s), !.no_endorse_tip = x]
<1>1. /\ t.high_certificate = s.high_certificate /\ t.highest_vote = s.highest_vote
      /\ t.high_certificate_qc_round = s.high_certificate_qc_round /\ t.maybe_high_tip = s.maybe_high_tip
      /\ CurrentRound(t) = CurrentRound(s)
  BY DEF NodeState, CurrentRound
<1>2. s.highest_vote # CurrentRound(s)
  BY BFTAssumption DEF IsSafeToNoEndorse, NodeState, Certificate, CurrentRound
<1> HIDE DEF t
<1>3. VoteIncluded(n, t, V)
  BY <1>1, <1>2 DEF VoteIncluded
<1>4. QED  BY <1>1, <1>3 DEF Undecided, KeepsCommit, NodeKeeps, t

-----------------------------------------------------------------------------
\* What every certificate says of a block that may still get its committing QC.

\* A validator whose commit vote is still possible, and that signed something in a
\* later round, has cast it.
LEMMA LaterSigner ==
    ASSUME IInv, behind = {}, NEW b \in Block, NEW n \in Honest, Undecided(n, node[n], votes, b),
           NEW k \in Rounds, k > qc_round[b],
           \/ \E x \in Block : <<n, k, x>> \in votes
           \/ \E e \in HighExtend : <<n, k, e>> \in timeouts
    PROVE  CommitVote(n, b, votes)
<1>1. k <= node[n].highest_vote
  BY DEF IInv, Consistent, SignedBelow
<1>2. node[n].highest_vote \in Nat /\ qc_round[b] \in Nat /\ k \in Nat
  BY BFTAssumption, ChainAssumption DEF IInv, TypeOK, NodeState, Rounds
<1>3. QED  BY <1>1, <1>2 DEF Undecided

\* Every supermajority has a member whose commit vote is cast or still possible.
LEMMA UndecidedMember ==
    ASSUME NEW b, MayCommit(b), NEW S \in SUBSET Honest, Signed(S)
    PROVE  \E n \in Honest : n \in S /\ Undecided(n, node[n], votes, b)
<1> DEFINE U == {n \in Honest : Undecided(n, node[n], votes, b)}
<1>1. Signed(U)
  BY DEF MayCommit
<1>2. \E n \in Honest : n \in S /\ n \in U
  BY <1>1, CommonHonest
<1>3. QED  BY <1>2

\* A block with a QC of the committing round or of a later one extends the block.
LEMMA LaterQCExtends ==
    ASSUME IInv, behind = {}, NEW b \in Block \ {GENESIS}, MayCommit(b), Kept(b),
           NEW k \in Nat, NEW d \in Block, Certified(k, d), k >= qc_round[b] + 1
    PROVE  parent[b] \in ancestors[d]
<1>0. qc_round[b] \in Nat /\ parent[b] \in Block /\ k # 0
  BY ChainAssumption
<1> DEFINE S == {n \in Honest : <<n, k, d>> \in votes}
<1>1. Signed(S)
  BY <1>0 DEF Certified
<1>2. PICK n \in Honest : n \in S /\ Undecided(n, node[n], votes, b)
  BY <1>1, UndecidedMember
<1>3. <<n, k, d>> \in votes /\ k \in Rounds /\ d \in Block \ {GENESIS}
  BY <1>2 DEF IInv, TypeOK
<1>4. CommitVote(n, b, votes)
  BY <1>0, <1>2, <1>3, LaterSigner
<1>5. CASE k = qc_round[b] + 1
  <2>1. d = b
    BY <1>3, <1>4, <1>5 DEF IInv, UniqueVotes, CommitVote
  <2>2. QED  BY <1>0, <2>1, ChainAssumption
<1>6. CASE k > qc_round[b] + 1
  <2>1. parent[b] \in ancestors[parent[d]]
    BY <1>3, <1>4, <1>6 DEF Kept, KeepsCommit, Keeps
  <2>2. QED  BY <1>3, <2>1, ChainAssumption
<1>7. QED  BY <1>0, <1>5, <1>6

\* Every supermajority that times out the committing round or a later one has a
\* member that reports nothing worse than the committing block.
LEMMA LaterTimeoutRanks ==
    ASSUME IInv, behind = {}, VotesExtendQCs, OnTime(votes), NEW b \in Block \ {GENESIS}, MayCommit(b), Kept(b),
           NEW k \in Nat, NEW ext \in HighExtend, TimedOut(k, ext), k >= qc_round[b] + 1
    PROVE  /\ RankLeq(TipExtend(b), ext)
           /\ Certified(qc_round[b], parent[b])
           /\ block_round[b] = qc_round[b] + 1 /\ qc_round[b] \in 0..MaxRound
<1> DEFINE reports == {t \in timeouts : t[2] = k /\ RankLeq(t[3], ext)}
           senders == {t[1] : t \in reports}
<1>0. qc_round[b] \in Nat /\ TipExtend(b) \in HighExtend
  BY ChainAssumption, ExtendTyped
<1>1. senders \in SUBSET Honest /\ Signed(senders)
  BY DEF TimedOut, IInv, TypeOK
<1>2. PICK n \in Honest : n \in senders /\ Undecided(n, node[n], votes, b)
  BY <1>1, UndecidedMember
<1>3. PICK t \in reports : t[1] = n
  BY <1>2
<1>4. /\ k \in Rounds /\ t[3] \in HighExtend /\ t = <<n, k, t[3]>> /\ t \in timeouts
      /\ RankLeq(t[3], ext)
  BY <1>3 DEF IInv, TypeOK
<1>5. CommitVote(n, b, votes)
  BY <1>0, <1>2, <1>4, LaterSigner
<1>6. RankLeq(TipExtend(b), t[3])
  BY <1>0, <1>4, <1>5 DEF Kept, KeepsCommit
<1>7. RankLeq(TipExtend(b), ext)
  BY <1>0, <1>4, <1>6, RankOrder
<1>8. Certified(qc_round[b], parent[b])
  BY <1>5 DEF VotesExtendQCs, CommitVote
<1>9. block_round[b] = qc_round[b] + 1
  BY <1>5, CommitBlock
<1>10. qc_round[b] \in 0..MaxRound
  BY <1>0, <1>4, BFTAssumption DEF Rounds
<1>11. QED  BY <1>7, <1>8, <1>9, <1>10

\* A TC of the committing round or of a later one asks to build on the block.
LEMMA LaterTCExtends ==
    ASSUME IInv, behind = {}, VotesExtendQCs, OnTime(votes), NEW b \in Block \ {GENESIS}, MayCommit(b), Kept(b),
           NEW k \in Nat, NEW ext \in Extends, ValidTC(k, ext), k >= qc_round[b] + 1
    PROVE  /\ parent[b] \in ancestors[ext.qc_block]
           /\ RankLeq(TipExtend(b), ext)
           /\ block_round[b] = qc_round[b] + 1
<1>0. /\ qc_round[b] \in Nat /\ parent[b] \in Block /\ NoTip \notin Block
      /\ ext \in HighExtend /\ ext.qc_round \in Nat /\ ext.qc_block \in Block
      /\ ext.tip \in Block \cup {NoTip} /\ \A c \in Block : c \in ancestors[c]
  BY ChainAssumption, ExtendTyped DEF HighExtend
<1>1. TimedOut(k, ext) /\ ValidExtend(ext)
  BY DEF ValidTC
<1>2. /\ RankLeq(TipExtend(b), ext) /\ Certified(qc_round[b], parent[b])
      /\ block_round[b] = qc_round[b] + 1 /\ qc_round[b] \in 0..MaxRound
  BY <1>0, <1>1, LaterTimeoutRanks
<1>3. CASE ext.tip = NoTip
  <2>1. Certified(ext.qc_round, ext.qc_block)
    BY <1>1, <1>3 DEF ValidExtend
  <2>2. ext.qc_round >= qc_round[b] + 1
    BY <1>0, <1>2, <1>3 DEF RankLeq, RankRound, TipExtend
  <2>3. QED  BY <1>0, <1>2, <2>1, <2>2, LaterQCExtends
<1>4. CASE ext.tip # NoTip
  <2>1. PICK x \in Block : x = ext.tip
    BY <1>0, <1>4
  <2>2. ValidTip(x) /\ ext = TipExtend(x) /\ x \in Block \ {GENESIS}
    BY <1>1, <1>4, <2>1 DEF ValidExtend, ValidTip
  <2>3. /\ ext.qc_block = parent[x] /\ parent[x] \in Block /\ qc_round[x] \in Nat
        /\ block_round[x] \in Nat /\ qc_round[x] < block_round[x]
    BY <2>2, ChainAssumption DEF TipExtend
  <2>4. \/ block_round[x] > qc_round[b] + 1
        \/ block_round[x] = qc_round[b] + 1 /\ qc_round[x] >= qc_round[b]
    BY <1>0, <1>2, <2>1, <2>2, <2>3 DEF RankLeq, RankRound, TipExtend
  <2>5. Certified(qc_round[x], parent[x])
    BY <2>2 DEF ValidTip
  <2>6. CASE qc_round[x] > qc_round[b]
    <3>1. qc_round[x] >= qc_round[b] + 1
      BY <1>0, <2>3, <2>6
    <3>2. QED  BY <1>2, <2>3, <2>5, <3>1, LaterQCExtends
  <2>7. CASE qc_round[x] = qc_round[b]
    <3>1. parent[x] = parent[b]
      BY <1>0, <1>2, <2>3, <2>5, <2>7, QCsAgree
    <3>2. QED  BY <1>0, <1>2, <2>3, <3>1
  <2>8. CASE qc_round[x] < qc_round[b]
    <3>1. block_round[x] > qc_round[b] + 1 /\ block_round[x] # qc_round[x] + 1
      BY <1>0, <2>3, <2>4, <2>8
    <3>2. CASE NoEndorsed(block_round[x], qc_round[x])
      <4> DEFINE S == {n \in Honest : <<n, block_round[x], qc_round[x]>> \in no_endorsements}
      <4>1. Signed(S)
        BY <3>2 DEF NoEndorsed
      <4>2. \E n \in Honest : n \in S /\ n \in S
        BY <4>1, CommonHonest
      <4>3. PICK n \in Honest : <<n, block_round[x], qc_round[x]>> \in no_endorsements
        BY <4>2
      <4>4. block_round[x] \in Rounds
        BY <4>3 DEF IInv, TypeOK
      <4>5. PICK d \in Block : Certified(qc_round[x], d) /\ parent[b] \in ancestors[d]
        BY <2>3, <3>1, <4>3, <4>4 DEF Kept, NEsKeep
      <4>6. qc_round[x] \in 0..MaxRound
        BY <1>0, <1>2, <2>3, <2>8, BFTAssumption
      <4>7. d = parent[x]
        BY <2>3, <2>5, <4>5, <4>6, QCsAgree
      <4>8. QED  BY <1>2, <2>3, <4>5, <4>7
    <3>3. CASE TimedOut(block_round[x] - 1, QcExtend(qc_round[x], parent[x]))
      <4> DEFINE e == QcExtend(qc_round[x], parent[x])
      <4>1. e \in HighExtend /\ e.tip = NoTip /\ e.qc_round = qc_round[x]
        BY <2>3, ExtendTyped DEF QcExtend
      <4>2. block_round[x] - 1 \in Nat /\ block_round[x] - 1 >= qc_round[b] + 1
        BY <1>0, <2>3, <3>1
      <4> HIDE DEF e
      <4>3. TimedOut(block_round[x] - 1, e)
        BY <3>3 DEF e
      <4>4. RankLeq(TipExtend(b), e)
        BY <4>1, <4>2, <4>3, LaterTimeoutRanks
      <4>5. qc_round[x] >= qc_round[b] + 1
        BY <1>0, <1>2, <2>3, <4>1, <4>4 DEF RankLeq, RankRound, TipExtend
      <4>6. QED  BY <1>0, <2>3, <2>8, <4>5
    <3>4. QED  BY <2>2, <3>1, <3>2, <3>3 DEF ValidTip
  <2>9. QED  BY <1>0, <2>3, <2>6, <2>7, <2>8
<1>5. QED  BY <1>3, <1>4

-----------------------------------------------------------------------------
\* No-endorsements that were fine stay fine.
LEMMA OldNEsKeep ==
    ASSUME NEW b, NEsKeep(b), UNCHANGED no_endorsements, votes \subseteq votes'
    PROVE  NEsKeep(b)'
<1> SUFFICES ASSUME NEW n \in Honest, NEW k \in Rounds, NEW q \in Nat, <<n, k, q>> \in no_endorsements,
                    k > qc_round[b] + 1
             PROVE  \E d \in Block : Certified(q, d)' /\ parent[b] \in ancestors[d]
  BY DEF NEsKeep
<1>1. PICK d \in Block : Certified(q, d) /\ parent[b] \in ancestors[d]
  BY DEF NEsKeep
<1>2. QED  BY <1>1, CertifiedStable

\* A step of node n to state t: what is left to show of it.
LEMMA FinalityStep ==
    ASSUME IInv, behind = {}, FInv, NEW n \in Honest, NEW t, SetNode(n, t), votes \subseteq votes',
           \A m \in Honest : m # n => \A r, x : <<m, r, x>> \in votes' <=> <<m, r, x>> \in votes,
           \A m \in Honest : m # n => \A r, x : <<m, r, x>> \in timeouts' <=> <<m, r, x>> \in timeouts,
           VoteIncluded(n, t, votes'),
           \A b \in Block \ {GENESIS} : Undecided(n, t, votes', b) => Undecided(n, node[n], votes, b),
           \A b \in Block \ {GENESIS} : MayCommit(b) /\ Kept(b) =>
               NEsKeep(b)' /\ KeepsCommit(n, t, votes', timeouts', b)
    PROVE  FInv'
<1>0. /\ node \in [Honest -> NodeState] /\ node'[n] = t
      /\ \A m \in Honest : m # n => node'[m] = node[m]
  BY DEF IInv, TypeOK, SetNode
<1>1. ASSUME NEW m \in Honest PROVE VoteIncluded(m, node'[m], votes')
  <2>1. CASE m = n
    BY <1>0, <2>1
  <2>2. CASE m # n
    BY <1>0, <2>2 DEF FInv, VoteIncluded
  <2>3. QED  BY <2>1, <2>2
<1>2. ASSUME NEW b \in Block \ {GENESIS}, MayCommit(b)' PROVE Kept(b)'
  <2> DEFINE U1 == {m \in Honest : Undecided(m, node[m], votes, b)}
             U2 == {m \in Honest : Undecided(m, node'[m], votes', b)}
  <2>1. ASSUME NEW m \in U2 PROVE m \in U1
    <3>1. CASE m = n
      BY <1>0, <2>1, <3>1
    <3>2. CASE m # n
      BY <1>0, <2>1, <3>2 DEF Undecided, CommitVote
    <3>3. QED  BY <3>1, <3>2
  <2>2. U2 \cup Byzantine \in Supermajority
    BY <1>2 DEF MayCommit, Signed, Byzantine
  <2>3. U2 \cup Byzantine \subseteq U1 \cup Byzantine /\ U1 \cup Byzantine \in SUBSET Validators
    BY <2>1, BFTAssumption DEF Byzantine
  <2>4. MayCommit(b)
    BY <2>2, <2>3, BFTAssumption DEF MayCommit, Signed
  <2>5. Kept(b)
    BY <2>4 DEF FInv
  <2>6. ASSUME NEW m \in Honest PROVE KeepsCommit(m, node'[m], votes', timeouts', b)
    <3>1. CASE m = n
      BY <1>0, <2>4, <2>5, <3>1
    <3>2. CASE m # n
      <4>1. KeepsCommit(m, node[m], votes, timeouts, b) /\ node'[m] = node[m]
        BY <1>0, <2>5, <3>2 DEF Kept
      <4>2. /\ \A r, x : <<m, r, x>> \in votes' <=> <<m, r, x>> \in votes
            /\ \A r, x : <<m, r, x>> \in timeouts' <=> <<m, r, x>> \in timeouts
        BY <3>2
      <4>3. QED  BY <4>1, <4>2 DEF KeepsCommit, CommitVote
    <3>3. QED  BY <3>1, <3>2
  <2>7. QED  BY <2>4, <2>5, <2>6 DEF Kept
<1>3. QED  BY <1>1, <1>2 DEF FInv

\* A certificate leaves a node as undecided as it was.
LEMMA AdvanceUndecided ==
    ASSUME NEW n, NEW s \in NodeState, NEW cert \in Certificate, NEW V, NEW b
    PROVE  Undecided(n, ProcessCertificate(s, cert), V, b) <=> Undecided(n, s, V, b)
BY AdvanceKeeps DEF Undecided

\* A step that only processes a certificate.
LEMMA CertificateFinality ==
    ASSUME IInv, behind = {}, FInv, OnTime(votes), NEW n \in Honest, NEW cert \in Certificate,
           SetNode(n, ProcessCertificate(node[n], cert)),
           UNCHANGED <<votes, timeouts, no_endorsements, restarted, behind>>
    PROVE  FInv'
<1> DEFINE t == ProcessCertificate(node[n], cert)
<1>0. node[n] \in NodeState /\ Consistent(n, node[n], votes, timeouts, no_endorsements, restarted, {})
      /\ VoteIncluded(n, node[n], votes)
  BY DEF IInv, TypeOK, FInv
<1>1. /\ VoteIncluded(n, t, votes)
      /\ \A b \in Block \ {GENESIS} :
            KeepsCommit(n, node[n], votes, timeouts, b) => KeepsCommit(n, t, votes, timeouts, b)
  BY <1>0, AdvanceKeepsCommit
<1>2. \A b \in Block \ {GENESIS} : Undecided(n, t, votes, b) => Undecided(n, node[n], votes, b)
  BY <1>0, AdvanceUndecided
<1>3. SetNode(n, t)
  OBVIOUS
<1> HIDE DEF t
<1>4. \A b \in Block \ {GENESIS} : Kept(b) => NEsKeep(b)' /\ KeepsCommit(n, t, votes', timeouts', b)
  BY <1>1, OldNEsKeep DEF Kept
<1>5. QED  BY <1>1, <1>2, <1>3, <1>4, FinalityStep

\* A vote for block c, cast in a state s that certificates took the node to.
LEMMA VoteFinality ==
    ASSUME IInv, behind = {}, FInv, OnTime(votes'), NEW n \in Honest, NEW s \in NodeState, NEW c \in Block \ {GENESIS}, NEW tc_tip,
           Consistent(n, s, votes, timeouts, no_endorsements, restarted, {}),
           \A b \in Block \ {GENESIS} :
              /\ Undecided(n, s, votes, b) => Undecided(n, node[n], votes, b)
              /\ KeepsCommit(n, node[n], votes, timeouts, b) => KeepsCommit(n, s, votes, timeouts, b),
           VoteForProposal(n, s, CurrentRound(s), c, tc_tip),
           \A b \in Block \ {GENESIS} : MayCommit(b) /\ Kept(b) /\ CommitVote(n, b, votes)
              /\ CurrentRound(s) > qc_round[b] + 1 => Keeps(b, c)
    PROVE  FInv'
<1> DEFINE r == CurrentRound(s)
           t == Vote(s, r, c)
<1>0. /\ IsSafeToVote(s, r, tc_tip) /\ SetNode(n, t)
      /\ votes' = votes \cup {<<n, r, c>>} /\ UNCHANGED <<timeouts, no_endorsements, restarted, behind>>
  BY DEF VoteForProposal
<1>1. \A k, x : <<n, k, x>> \in votes => k \in Rounds
  BY DEF IInv, TypeOK
<1>2. PICK V2 : V2 = votes'
  OBVIOUS
<1>3. V2 = votes \cup {<<n, r, c>>} /\ OnTime(V2)
  BY <1>0, <1>2
<1>4. /\ VoteIncluded(n, t, V2)
      /\ \A b \in Block \ {GENESIS} :
            /\ Undecided(n, t, V2, b) => Undecided(n, s, votes, b)
            /\ KeepsCommit(n, s, votes, timeouts, b)
                 /\ (CommitVote(n, b, votes) /\ r > qc_round[b] + 1 => Keeps(b, c))
                 => KeepsCommit(n, t, V2, timeouts, b)
  BY <1>0, <1>1, <1>3, VoteKeepsCommit
<1> HIDE DEF t, r
<1>5. ASSUME NEW b \in Block \ {GENESIS}, MayCommit(b), Kept(b)
      PROVE  NEsKeep(b)' /\ KeepsCommit(n, t, votes', timeouts', b)
  <2>1. NEsKeep(b)'
    BY <1>0, <1>5, OldNEsKeep DEF Kept
  <2>2. KeepsCommit(n, s, votes, timeouts, b)
    BY <1>5 DEF Kept
  <2>3. CommitVote(n, b, votes) /\ r > qc_round[b] + 1 => Keeps(b, c)
    BY <1>5 DEF r
  <2>4. KeepsCommit(n, t, V2, timeouts, b)
    BY <1>4, <2>2, <2>3
  <2>5. QED  BY <1>0, <1>2, <2>1, <2>4
<1>6. /\ votes \subseteq votes'
      /\ \A m \in Honest : m # n => \A k, x : <<m, k, x>> \in votes' <=> <<m, k, x>> \in votes
      /\ \A m \in Honest : m # n => \A k, x : <<m, k, x>> \in timeouts' <=> <<m, k, x>> \in timeouts
  BY <1>0
<1>7. VoteIncluded(n, t, votes')
  BY <1>2, <1>4
<1>8. \A b \in Block \ {GENESIS} : Undecided(n, t, votes', b) => Undecided(n, node[n], votes, b)
  BY <1>2, <1>4
<1>9. QED  BY <1>0, <1>5, <1>6, <1>7, <1>8, FinalityStep

\* A timeout in state s that leaves the node in state t.
LEMMA TimeoutFinality ==
    ASSUME IInv, behind = {}, FInv, NEW n \in Honest, NEW s, NEW t, NEW V2, NEW T2,
           V2 = VotesAfter(n, s, votes),
           T2 = timeouts \cup {<<n, CurrentRound(s), ReportedExtend(s)>>},
           \A b \in Block \ {GENESIS} :
              /\ Undecided(n, t, V2, b) => Undecided(n, node[n], votes, b)
              /\ KeepsCommit(n, node[n], votes, timeouts, b) => KeepsCommit(n, t, V2, T2, b),
           VoteIncluded(n, t, V2),
           SendTimeout(n, s), SetNode(n, t), UNCHANGED <<no_endorsements, restarted, behind>>
    PROVE  FInv'
<1>1. votes' = V2 /\ timeouts' = T2
  BY DEF SendTimeout, VotesAfter
<1>2. /\ votes \subseteq votes'
      /\ \A m \in Honest : m # n => \A k, x : <<m, k, x>> \in votes' <=> <<m, k, x>> \in votes
      /\ \A m \in Honest : m # n => \A k, x : <<m, k, x>> \in timeouts' <=> <<m, k, x>> \in timeouts
  BY <1>1 DEF VotesAfter
<1>3. \A b \in Block \ {GENESIS} : Kept(b) => NEsKeep(b)' /\ KeepsCommit(n, t, votes', timeouts', b)
  BY <1>1, <1>2, OldNEsKeep DEF Kept
<1>4. VoteIncluded(n, t, votes')
      /\ \A b \in Block \ {GENESIS} : Undecided(n, t, votes', b) => Undecided(n, node[n], votes, b)
  BY <1>1
<1>5. QED  BY <1>2, <1>3, <1>4, FinalityStep

\* After a QC, too, a node holds the highest QC it has seen.
LEMMA QCKeepsHighest ==
    ASSUME NEW s \in NodeState, RoundsOK(s), HighestQC(s), NEW q \in 0..MaxRound - 1, NEW b \in Block
    PROVE  HighestQC(ProcessCertificate(s, QcCertificate(q, b)))
<1> DEFINE t == ProcessCertificate(s, QcCertificate(q, b))
<1>0. s.high_certificate.round \in Nat /\ s.high_certificate_qc_round \in Nat /\ q \in Nat
  BY BFTAssumption DEF NodeState, Certificate
<1>1. QcCertificate(q, b).round = q /\ QcCertificate(q, b).qc_round = q
  BY DEF QcCertificate
<1>2. CASE q <= s.high_certificate.round
  BY <1>1, <1>2 DEF ProcessCertificate
<1>3. CASE ~(q <= s.high_certificate.round)
  <2>1. q > s.high_certificate_qc_round
    BY <1>0, <1>3 DEF RoundsOK
  <2>2. t.high_certificate = QcCertificate(q, b) /\ t.high_certificate_qc_round = q
    BY <1>1, <1>3, <2>1 DEF ProcessCertificate, NodeState
  <2>3. QED  BY <1>0, <1>1, <2>2 DEF HighestQC
<1>4. QED  BY <1>2, <1>3

\* Nobody has signed anything at the start.
LEMMA InitFInv == Init => FInv
<1> SUFFICES ASSUME Init PROVE FInv
  OBVIOUS
<1>1. votes = {} /\ no_endorsements = {}
  BY DEF Init
<1>2. \A n \in Honest : node[n].maybe_high_tip = NoTip
  <2>1. Restored(QcCertificate(0, GENESIS)).maybe_high_tip = NoTip
    BY DEF Restored
  <2>2. Settled.maybe_high_tip = NoTip
    BY DEF Settled, Restored
  <2>3. QED  BY <2>1, <2>2 DEF Init
<1>3. QED  BY <1>1, <1>2 DEF FInv, VoteIncluded, Kept, NEsKeep, KeepsCommit, CommitVote

\* Every step of a steady network keeps the commits.
LEMMA StepFInv == IInv /\ VotesExtendQCs /\ FInv /\ Steady /\ Steady' /\ [Next]_vars => FInv'
<1> SUFFICES ASSUME IInv, VotesExtendQCs, FInv, Steady, Steady', [Next]_vars PROVE FInv'
  OBVIOUS
<1>a. restarted = {} /\ restarted' = {} /\ behind = {}
  BY DEF IInv, Steady
<1>b. ASSUME NEW n \in Honest
      PROVE  Consistent(n, node[n], votes, timeouts, no_endorsements, restarted, {})
  <2>1. Consistent(n, node[n], votes, timeouts, no_endorsements, restarted, behind)
    BY DEF IInv
  <2>2. QED  BY <1>a, <2>1
<1>0. /\ MaxRound \in Nat /\ Extends \subseteq HighExtend
      /\ OnTime(votes) /\ OnTime(votes') /\ restarted = {} /\ restarted' = {} /\ behind = {}
      /\ \A n \in Honest : /\ node[n] \in NodeState /\ HighestQC(node[n])
                           /\ node[n].high_certificate.round \in 0..MaxRound - 1
                           /\ CurrentRound(node[n]) = node[n].high_certificate.round + 1
                           /\ Consistent(n, node[n], votes, timeouts, no_endorsements, restarted, {})
                           /\ VoteIncluded(n, node[n], votes)
  BY <1>a, <1>b, BFTAssumption, ExtendTyped
     DEF IInv, TypeOK, NodeState, Certificate, CurrentRound, Steady, NoVoteBeforeBlockRound, OnTime, FInv
<1>1. ASSUME NEW n \in Honest, HandleQC(n) PROVE FInv'
  <2>1. PICK r \in CurrentRound(node[n])..MaxRound - 1, b \in Block :
           /\ SetNode(n, ProcessCertificate(node[n], QcCertificate(r, b)))
           /\ UNCHANGED <<votes, timeouts, no_endorsements, restarted, behind>>
    BY <1>1 DEF HandleQC
  <2>2. r \in 0..MaxRound - 1
    BY <1>0
  <2>3. QED  BY <1>0, <2>1, <2>2, CertTyped, CertificateFinality
<1>2. ASSUME NEW n \in Honest, HandleTC(n) PROVE FInv'
  <2>1. PICK r \in CurrentRound(node[n])..MaxRound - 1, ext \in Extends :
           /\ ext.qc_round < r
           /\ SetNode(n, ProcessCertificate(node[n], TcCertificate(r, ext)))
           /\ UNCHANGED <<votes, timeouts, no_endorsements, restarted, behind>>
    BY <1>2 DEF HandleTC, ValidTC
  <2>2. r \in 0..MaxRound - 1 /\ ext \in HighExtend
    BY <1>0
  <2>3. QED  BY <1>0, <2>1, <2>2, CertTyped, CertificateFinality
<1>3. ASSUME NEW n \in Honest, HandleProposal(n) PROVE FInv'
  <2>1. PICK c \in Block \ {GENESIS} :
           /\ qc_round[c] + 1 \in CurrentRound(node[n])..MaxRound
           /\ VoteForProposal(n, ProcessCertificate(node[n], QcCertificate(qc_round[c], parent[c])),
                              qc_round[c] + 1, c, NoTip)
    BY <1>3 DEF HandleProposal
  <2> DEFINE cert == QcCertificate(qc_round[c], parent[c])
             s == ProcessCertificate(node[n], cert)
  <2>2. /\ qc_round[c] \in 0..MaxRound - 1 /\ parent[c] \in Block /\ qc_round[c] \in Nat
        /\ block_round[c] \in Nat /\ block_round[c] > qc_round[c]
    BY <1>0, <2>1, ChainAssumption
  <2>3. cert \in Certificate /\ cert.qc_round <= cert.round
    BY <2>2, CertTyped
  <2> HIDE DEF cert
  <2>4. s \in NodeState /\ Consistent(n, s, votes, timeouts, no_endorsements, restarted, {})
    BY <1>0, <2>3, AdvanceOK
  <2>5. \A b \in Block \ {GENESIS} :
              /\ Undecided(n, s, votes, b) => Undecided(n, node[n], votes, b)
              /\ KeepsCommit(n, node[n], votes, timeouts, b) => KeepsCommit(n, s, votes, timeouts, b)
    BY <1>0, <2>3, AdvanceUndecided, AdvanceKeepsCommit
  <2>6. /\ CurrentRound(s) = qc_round[c] + 1
        /\ VoteForProposal(n, s, CurrentRound(s), c, NoTip) /\ ValidTip(c)
    BY <2>1 DEF VoteForProposal, cert
  <2> HIDE DEF s
  <2>7. ASSUME NEW b \in Block \ {GENESIS}, MayCommit(b), Kept(b), CommitVote(n, b, votes),
               CurrentRound(s) > qc_round[b] + 1
        PROVE  Keeps(b, c)
    <3>1. qc_round[b] \in Nat /\ block_round[b] = qc_round[b] + 1
      BY <1>0, <2>7, CommitBlock
    <3>2. Certified(qc_round[c], parent[c]) /\ qc_round[c] >= qc_round[b] + 1
      BY <2>2, <2>6, <2>7, <3>1 DEF ValidTip
    <3>3. parent[b] \in ancestors[parent[c]]
      BY <1>0, <2>2, <2>7, <3>2, LaterQCExtends
    <3>4. RankLeq(TipExtend(b), TipExtend(c))
      BY <2>2, <3>1, <3>2, ChainAssumption DEF RankLeq, RankRound, TipExtend
    <3>5. QED  BY <3>3, <3>4 DEF Keeps
  <2>8. QED  BY <1>0, <2>4, <2>5, <2>6, <2>7, VoteFinality
<1>4. ASSUME NEW n \in Honest, HandleProposalWithTC(n) PROVE FInv'
  <2> DEFINE C(c) == QcCertificate(qc_round[c], parent[c])
             D(r, ext) == TcCertificate(r - 1, ext)
             S(r, c, ext) == ProcessCertificate(ProcessCertificate(node[n], C(c)), D(r, ext))
  <2>1. PICK r \in CurrentRound(node[n])..MaxRound, c \in Block \ {GENESIS}, ext \in Extends :
           /\ WellFormedWithTC(r, c, ext)
           /\ VoteForProposal(n, S(r, c, ext), r, c, ext.tip)
           /\ ValidTC(r - 1, ext)
    BY <1>4 DEF HandleProposalWithTC
  <2> DEFINE s0 == ProcessCertificate(node[n], C(c))
             s == ProcessCertificate(s0, D(r, ext))
  <2>2. /\ r - 1 \in 0..MaxRound - 1 /\ parent[c] \in Block /\ ext \in HighExtend
        /\ ext.qc_round = qc_round[c] /\ ext.qc_round < r - 1 /\ ext.qc_block \in Block
        /\ qc_round[c] \in 0..MaxRound - 1 /\ qc_round[c] \in Nat
        /\ block_round[c] \in Nat /\ block_round[c] > qc_round[c]
    BY <1>0, <2>1, ChainAssumption DEF WellFormedWithTC, ValidTC, HighExtend
  <2>3. /\ C(c) \in Certificate /\ C(c).qc_round <= C(c).round
        /\ D(r, ext) \in Certificate /\ D(r, ext).qc_round <= D(r, ext).round
    BY <2>2, CertTyped
  <2> HIDE DEF C, D
  <2>4. s0 \in NodeState /\ Consistent(n, s0, votes, timeouts, no_endorsements, restarted, {})
    BY <1>0, <2>3, AdvanceOK
  <2>5. /\ VoteIncluded(n, s0, votes)
        /\ \A b \in Block \ {GENESIS} :
              /\ Undecided(n, s0, votes, b) => Undecided(n, node[n], votes, b)
              /\ KeepsCommit(n, node[n], votes, timeouts, b) => KeepsCommit(n, s0, votes, timeouts, b)
    BY <1>0, <2>3, AdvanceUndecided, AdvanceKeepsCommit
  <2> HIDE DEF s0
  <2>6. s \in NodeState /\ Consistent(n, s, votes, timeouts, no_endorsements, restarted, {})
    BY <2>3, <2>4, AdvanceOK
  <2>7. \A b \in Block \ {GENESIS} :
              /\ Undecided(n, s, votes, b) => Undecided(n, s0, votes, b)
              /\ KeepsCommit(n, s0, votes, timeouts, b) => KeepsCommit(n, s, votes, timeouts, b)
    BY <1>0, <2>3, <2>4, <2>5, AdvanceUndecided, AdvanceKeepsCommit
  <2>8. CurrentRound(s) = r /\ VoteForProposal(n, s, CurrentRound(s), c, ext.tip) /\ ValidTip(c)
    BY <2>1 DEF VoteForProposal, s0
  <2> HIDE DEF s
  <2>9. ASSUME NEW b \in Block \ {GENESIS}, MayCommit(b), Kept(b), CommitVote(n, b, votes),
               CurrentRound(s) > qc_round[b] + 1
        PROVE  Keeps(b, c)
    <3>1. qc_round[b] \in Nat /\ block_round[b] = qc_round[b] + 1
      BY <1>0, <2>9, CommitBlock
    <3>2. r - 1 \in Nat /\ r - 1 >= qc_round[b] + 1
      BY <2>2, <2>8, <2>9, <3>1
    <3>3. parent[b] \in ancestors[ext.qc_block] /\ RankLeq(TipExtend(b), ext)
      BY <1>0, <2>1, <2>9, <3>2, LaterTCExtends
    <3>4. ext.tip # NoTip => ext = TipExtend(ext.tip) /\ ValidTip(ext.tip)
      BY <2>1 DEF ValidTC, ValidExtend
    <3>5. Certified(ext.qc_round, ext.qc_block)
      <4>1. CASE ext.tip = NoTip
        BY <2>1, <4>1 DEF ValidTC, ValidExtend
      <4>2. CASE ext.tip # NoTip
        <5>1. PICK x : x = ext.tip
          OBVIOUS
        <5>2. ext.qc_round = qc_round[x] /\ ext.qc_block = parent[x] /\ ValidTip(x)
          BY <3>4, <4>2, <5>1 DEF TipExtend
        <5>3. QED  BY <5>2 DEF ValidTip
      <4>3. QED  BY <4>1, <4>2
    <3>6. ext.qc_block = parent[c]
      <4>1. Certified(qc_round[c], parent[c]) /\ qc_round[c] \in 0..MaxRound
        BY <1>0, <2>2, <2>8 DEF ValidTip
      <4>2. QED  BY <1>0, <2>2, <3>5, <4>1, QCsAgree
    <3>7. RankLeq(TipExtend(b), TipExtend(c))
      <4>1. CASE ext.tip = NoTip
        <5>1. qc_round[c] >= qc_round[b] + 1
          BY <2>2, <3>1, <3>3, <4>1, ChainAssumption DEF RankLeq, RankRound, TipExtend
        <5>2. QED  BY <2>2, <3>1, <5>1, ChainAssumption DEF RankLeq, RankRound, TipExtend
      <4>2. CASE ext.tip = c /\ ext.tip # NoTip
        BY <3>3, <3>4, <4>2
      <4>3. CASE block_round[c] = r
        BY <2>2, <3>1, <3>2, <4>3, ChainAssumption DEF RankLeq, RankRound, TipExtend
      <4>4. QED  BY <2>1, <4>1, <4>2, <4>3 DEF WellFormedWithTC
    <3>8. QED  BY <3>3, <3>6, <3>7 DEF Keeps
  <2>10. QED  BY <1>0, <2>5, <2>6, <2>7, <2>8, <2>9, VoteFinality
<1>5. ASSUME NEW n \in Honest, LocalTimeout(n) PROVE FInv'
  <2> DEFINE s == node[n]
             t == TimedOutState(s)
             W == VotesAfter(n, s, votes)
             U == timeouts \cup {<<n, CurrentRound(s), ReportedExtend(s)>>}
  <2>1. SendTimeout(n, s) /\ SetNode(n, t) /\ UNCHANGED <<no_endorsements, restarted, behind>>
    BY <1>5 DEF LocalTimeout
  <2>2. OnTime(W)
    BY <1>0, <2>1 DEF SendTimeout, VotesAfter
  <2>3. /\ VoteIncluded(n, t, W)
        /\ \A b \in Block \ {GENESIS} :
              /\ Undecided(n, t, W, b) => Undecided(n, s, votes, b)
              /\ KeepsCommit(n, s, votes, timeouts, b) => KeepsCommit(n, t, W, U, b)
    BY <1>0, <2>2, TimeoutKeepsCommit
  <2> HIDE DEF t
  <2>4. QED  BY <1>0, <2>1, <2>3, TimeoutFinality
<1>6. ASSUME NEW n \in Honest, HandleTimeoutWithTC(n) PROVE FInv'
  <2> DEFINE S(q, b) == ProcessCertificate(node[n], QcCertificate(q, b))
  <2>1. PICK q \in 0..MaxRound - 1, b \in Block, ext \in Extends :
           /\ CurrentRound(S(q, b)) < MaxRound /\ ext.qc_round < CurrentRound(S(q, b))
           /\ SendTimeout(n, S(q, b))
           /\ SetNode(n, ProcessCertificate(TimedOutState(S(q, b)), TcCertificate(CurrentRound(S(q, b)), ext)))
           /\ UNCHANGED <<no_endorsements, restarted, behind>>
    BY <1>6 DEF HandleTimeoutWithTC, ValidTC
  <2> DEFINE qc == QcCertificate(q, b)
             s == ProcessCertificate(node[n], qc)
             r == CurrentRound(s)
             u == TimedOutState(s)
             W == VotesAfter(n, s, votes)
             U == timeouts \cup {<<n, CurrentRound(s), ReportedExtend(s)>>}
             cert == TcCertificate(r, ext)
             t == ProcessCertificate(u, cert)
  <2>2. qc \in Certificate /\ qc.qc_round <= qc.round
    BY CertTyped
  <2>3. HighestQC(s)
    BY <1>0, QCKeepsHighest DEF Consistent
  <2>4. /\ SendTimeout(n, s) /\ SetNode(n, t) /\ UNCHANGED <<no_endorsements, restarted, behind>>
        /\ r < MaxRound /\ ext.qc_round < r
    BY <2>1
  <2> HIDE DEF qc
  <2>5. s \in NodeState /\ Consistent(n, s, votes, timeouts, no_endorsements, restarted, {})
    BY <1>0, <2>2, AdvanceOK
  <2>6. /\ VoteIncluded(n, s, votes)
        /\ \A c \in Block \ {GENESIS} :
              /\ Undecided(n, s, votes, c) => Undecided(n, node[n], votes, c)
              /\ KeepsCommit(n, node[n], votes, timeouts, c) => KeepsCommit(n, s, votes, timeouts, c)
    BY <1>0, <2>2, AdvanceUndecided, AdvanceKeepsCommit
  <2> HIDE DEF s
  <2>7. OnTime(W)
    BY <1>0, <2>4 DEF SendTimeout, VotesAfter
  <2>8. u \in NodeState /\ Consistent(n, u, W, U, no_endorsements, restarted, {})
    BY <2>5, TimeoutOK
  <2>9. /\ VoteIncluded(n, u, W)
        /\ \A c \in Block \ {GENESIS} :
              /\ Undecided(n, u, W, c) => Undecided(n, s, votes, c)
              /\ KeepsCommit(n, s, votes, timeouts, c) => KeepsCommit(n, u, W, U, c)
    BY <1>0, <2>3, <2>5, <2>6, <2>7, TimeoutKeepsCommit
  <2>10. r \in 0..MaxRound - 1 /\ ext \in HighExtend
    BY <1>0, <2>4, <2>5 DEF NodeState, Certificate, CurrentRound
  <2>11. cert \in Certificate
    BY <2>4, <2>10, CertTyped
  <2> HIDE DEF cert, u, W, U
  <2>12. /\ VoteIncluded(n, t, W)
         /\ \A c \in Block \ {GENESIS} :
               /\ Undecided(n, t, W, c) => Undecided(n, u, W, c)
               /\ KeepsCommit(n, u, W, U, c) => KeepsCommit(n, t, W, U, c)
    BY <2>7, <2>8, <2>9, <2>11, AdvanceUndecided, AdvanceKeepsCommit
  <2> HIDE DEF t
  <2>13. QED  BY <1>0, <2>4, <2>6, <2>9, <2>12, TimeoutFinality DEF W, U
<1>7. ASSUME NEW n \in Honest, HandleRoundRecovery(n) PROVE FInv'
  <2> DEFINE C(r, c) == TcCertificate(r - 1, TipExtend(c))
             S(r, c) == ProcessCertificate(node[n], C(r, c))
  <2>1. PICK r \in CurrentRound(node[n])..MaxRound, c \in Block \ {GENESIS} :
           /\ r = CurrentRound(S(r, c)) /\ IsSafeToNoEndorse(S(r, c), r)
           /\ ValidTC(r - 1, TipExtend(c))
           /\ SetNode(n, [S(r, c) EXCEPT !.highest_no_endorse = r, !.no_endorse_tip = c])
           /\ no_endorsements' = no_endorsements \cup {<<n, r, qc_round[c]>>}
           /\ UNCHANGED <<votes, timeouts, restarted, behind>>
    BY <1>7 DEF HandleRoundRecovery
  <2> DEFINE cert == C(r, c)
             s == ProcessCertificate(node[n], cert)
             t == [s EXCEPT !.highest_no_endorse = CurrentRound(s), !.no_endorse_tip = c]
  <2>2. /\ r - 1 \in 0..MaxRound - 1 /\ TipExtend(c) \in HighExtend /\ TipExtend(c).qc_round < r - 1
        /\ TipExtend(c).tip = c /\ TipExtend(c).qc_block = parent[c] /\ c # NoTip /\ TipExtend(c) \in Extends
    BY <1>0, <2>1, ExtendTyped, ChainAssumption DEF ValidTC, TipExtend, Extends
  <2>3. cert \in Certificate /\ cert.qc_round <= cert.round
    BY <2>2, CertTyped
  <2>4. IsSafeToNoEndorse(s, CurrentRound(s)) /\ SetNode(n, t)
    BY <2>1
  <2> HIDE DEF C
  <2>5. s \in NodeState
    BY <1>0, <2>3, AdvanceOK
  <2>6. \A b \in Block \ {GENESIS} :
              /\ Undecided(n, s, votes, b) => Undecided(n, node[n], votes, b)
              /\ KeepsCommit(n, node[n], votes, timeouts, b) => KeepsCommit(n, s, votes, timeouts, b)
    BY <1>0, <2>3, AdvanceUndecided, AdvanceKeepsCommit
  <2> HIDE DEF s
  <2>7. /\ VoteIncluded(n, t, votes)
        /\ \A b \in Block \ {GENESIS} :
              /\ Undecided(n, t, votes, b) => Undecided(n, s, votes, b)
              /\ KeepsCommit(n, s, votes, timeouts, b) => KeepsCommit(n, t, votes, timeouts, b)
    BY <2>4, <2>5, NoEndorseKeepsCommit
  <2> HIDE DEF t
  <2>8. ASSUME NEW b \in Block \ {GENESIS}, MayCommit(b), Kept(b)
        PROVE  NEsKeep(b)'
    <3> SUFFICES ASSUME NEW m \in Honest, NEW k \in Rounds, NEW q \in Nat, <<m, k, q>> \in no_endorsements',
                        k > qc_round[b] + 1
                 PROVE  \E d \in Block : Certified(q, d)' /\ parent[b] \in ancestors[d]
      BY DEF NEsKeep
    <3>1. CASE <<m, k, q>> \in no_endorsements
      <4>1. PICK d \in Block : Certified(q, d) /\ parent[b] \in ancestors[d]
        BY <2>8, <3>1 DEF Kept, NEsKeep
      <4>2. QED  BY <2>1, <4>1, CertifiedStable
    <3>2. CASE k = r /\ q = qc_round[c]
      <4>1. qc_round[b] \in Nat /\ r - 1 \in Nat /\ r - 1 >= qc_round[b] + 1
        BY <2>2, <3>2, ChainAssumption
      <4>2. parent[b] \in ancestors[parent[c]]
        BY <1>0, <2>1, <2>2, <2>8, <4>1, LaterTCExtends
      <4>3. ValidTip(c)
        BY <2>1, <2>2 DEF ValidTC, ValidExtend
      <4>4. Certified(q, parent[c]) /\ parent[c] \in Block
        BY <3>2, <4>3, ChainAssumption DEF ValidTip
      <4>5. QED  BY <2>1, <4>2, <4>4, CertifiedStable
    <3>3. QED  BY <2>1, <3>1, <3>2
  <2>9. \A b \in Block \ {GENESIS} : MayCommit(b) /\ Kept(b) =>
            NEsKeep(b)' /\ KeepsCommit(n, t, votes', timeouts', b)
    BY <2>1, <2>6, <2>7, <2>8 DEF Kept
  <2>10. QED  BY <1>0, <2>1, <2>4, <2>6, <2>7, <2>9, FinalityStep
<1>8. CASE UNCHANGED vars
  <2>1. UNCHANGED <<node, votes, timeouts, no_endorsements>>
    BY <1>8 DEF vars
  <2>2. QED
    BY <2>1 DEF FInv, MayCommit, Kept, NEsKeep, Signed, Byzantine, Certified
<1>9. ASSUME NEW n \in Honest, Restart(n) PROVE FInv'
  BY <1>0, <1>9 DEF Restart
<1>10. QED
  BY <1>1, <1>2, <1>3, <1>4, <1>5, <1>6, <1>7, <1>8, <1>9 DEF Next

\* What is voted, reported and held in a steady network keeps every block that may
\* still be committed.
LEMMA FinalityInvariance == Spec /\ []Steady => []FInv
BY InitFInv, StepFInv, Invariance, VotesExtendQCsInvariant, PTL DEF Spec

\* A QC that commits is one that may be formed.
LEMMA CommitsMayCommit ==
    ASSUME NEW b \in Block, Commits(b)
    PROVE  MayCommit(b) /\ b # GENESIS /\ \E n \in Honest : CommitVote(n, b, votes)
<1> DEFINE S == {n \in Honest : <<n, qc_round[b] + 1, b>> \in votes}
           U == {n \in Honest : Undecided(n, node[n], votes, b)}
<1>1. b # GENESIS /\ S \cup Byzantine \in Supermajority
  BY DEF Commits, Certified, Signed
<1>2. S \cup Byzantine \subseteq U \cup Byzantine /\ U \cup Byzantine \in SUBSET Validators
  BY BFTAssumption DEF Byzantine, Undecided, CommitVote
<1>3. MayCommit(b)
  BY <1>1, <1>2, BFTAssumption DEF MayCommit, Signed
<1>4. \E n \in Honest : n \in S /\ n \in S
  BY <1>1, CommonHonest DEF Signed
<1>5. QED  BY <1>1, <1>3, <1>4 DEF CommitVote

\* Finality: in a steady network a block that some QC commits is extended by every
\* block that gets a QC in the same or in any later round, and by what every TC of a
\* later round asks to build on, whatever proposals, timeouts, TCs and NECs led there.
THEOREM CommitsAreFinal == Spec /\ []Steady => []CommittedStays
<1>1. ASSUME IInv, behind = {}, VotesExtendQCs, FInv, NEW b \in Block, Commits(b),
             NEW r \in 0..MaxRound, NEW c \in Block, r >= qc_round[b], Certified(r, c)
      PROVE  parent[b] \in ancestors[c]
  <2>1. MayCommit(b) /\ b \in Block \ {GENESIS}
    BY <1>1, CommitsMayCommit
  <2>2. Kept(b)
    BY <1>1, <2>1 DEF FInv
  <2>3. qc_round[b] \in Nat /\ parent[b] \in Block /\ r \in Nat /\ \A d \in Block : d \in ancestors[d]
    BY ChainAssumption
  <2>4. CASE r = qc_round[b]
    <3>1. PICK n \in Honest : CommitVote(n, b, votes)
      BY <1>1, CommitsMayCommit
    <3>2. Certified(r, parent[b])
      BY <1>1, <2>4, <3>1 DEF VotesExtendQCs, CommitVote
    <3>3. c = parent[b]
      BY <1>1, <2>3, <3>2, QCsAgree
    <3>4. QED  BY <2>3, <3>3
  <2>5. CASE r >= qc_round[b] + 1
    BY <1>1, <2>1, <2>2, <2>3, <2>5, LaterQCExtends
  <2>6. QED  BY <1>1, <2>3, <2>4, <2>5
<1>2. ASSUME IInv, behind = {}, VotesExtendQCs, FInv, Steady, NEW b \in Block, Commits(b),
             NEW r \in 0..MaxRound, NEW ext \in Extends, r > qc_round[b], ValidTC(r, ext)
      PROVE  parent[b] \in ancestors[ext.qc_block]
  <2>1. MayCommit(b) /\ b \in Block \ {GENESIS}
    BY <1>2, CommitsMayCommit
  <2>2. Kept(b) /\ OnTime(votes)
    BY <1>2, <2>1 DEF FInv, Steady, NoVoteBeforeBlockRound, OnTime
  <2>3. r \in Nat /\ r >= qc_round[b] + 1
    BY <1>2, ChainAssumption
  <2>4. QED  BY <1>2, <2>1, <2>2, <2>3, LaterTCExtends
<1>3. IInv /\ VotesExtendQCs /\ FInv /\ Steady => CommittedStays
  <2>1. IInv /\ Steady => behind = {}
    BY DEF IInv, Steady
  <2>2. QED  BY <1>1, <1>2, <2>1 DEF CommittedStays
<1>4. QED  BY <1>3, Invariance, VotesExtendQCsInvariant, FinalityInvariance, PTL

\* No fork: in a steady network any two committed blocks are on one chain.
THEOREM CommitsNeverFork == Spec /\ []Steady => []CommitsAgree
<1>1. ASSUME IInv, VotesExtendQCs, CommittedStays, NEW b \in Block, NEW c \in Block, Commits(b), Commits(c),
             qc_round[b] <= qc_round[c]
      PROVE  parent[b] \in ancestors[parent[c]]
  <2>1. PICK n \in Honest : CommitVote(n, c, votes)
    BY <1>1, CommitsMayCommit
  <2>2. Certified(qc_round[c], parent[c]) /\ qc_round[c] + 1 \in Rounds
    BY <1>1, <2>1 DEF VotesExtendQCs, CommitVote, IInv, TypeOK
  <2>3. qc_round[c] \in 0..MaxRound /\ parent[c] \in Block
    BY <2>2, ChainAssumption, BFTAssumption DEF Rounds
  <2>4. QED  BY <1>1, <2>2, <2>3 DEF CommittedStays
<1>2. IInv /\ VotesExtendQCs /\ CommittedStays => CommitsAgree
  <2>1. \A b, c \in Block : qc_round[b] <= qc_round[c] \/ qc_round[c] <= qc_round[b]
    BY ChainAssumption
  <2>2. QED  BY <1>1, <2>1 DEF CommitsAgree
<1>3. QED  BY <1>2, Invariance, VotesExtendQCsInvariant, CommitsAreFinal, PTL
=============================================================================
