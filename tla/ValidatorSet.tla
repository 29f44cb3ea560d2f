------------------------------ MODULE ValidatorSet ------------------------------
(***************************************************************************)
(* The stakes of an epoch (validator/src/validator_set.rs), the thresholds *)
(* every certificate rests on, and the election of leaders by stake        *)
(* (validator/src/weighted_round_robin.rs).  The set is built one          *)
(* validator at a time by ValidatorSetFactory::create from a list that may *)
(* repeat a validator or hold one without stake.                           *)
(***************************************************************************)
EXTENDS Integers, FiniteSets, FiniteSetsExt

CONSTANTS Nodes,     \* node ids, numbered in the order of their public keys
          MaxStake,  \* bound: the largest stake of a validator
          MaxWord    \* U256::MAX, the largest random word

ASSUME ValidatorSetAssumption ==
    /\ Nodes \subseteq Nat
    /\ MaxStake \in Nat \ {0}
    /\ MaxWord \in Nat

VARIABLES
    validators,  \* ValidatorSet::validators, a map from members to stakes
    total_stake, \* ValidatorSet::total_stake
    result       \* what create returns: "building" until it does

set_vars == <<validators, total_stake, result>>

Members == DOMAIN validators

\* calculate_current_stake: the stake of some distinct nodes; those that are not
\* members count nothing.
Weight(addrs) == MapThenSumSet(LAMBDA v : validators[v], addrs \cap Members)

\* Mutant: division before multiplication loses up to two votes.
SuperMajorityThreshold_DivFirst(total) == (total \div 3) * 2 + 1

\* Mutant: the threshold is rounded up twice.
SuperMajorityThreshold_Higher(total) == (total * 2) \div 3 + 2

\* The stake that has_super_majority_votes asks for.
SuperMajorityThreshold(total) == (total * 2) \div 3 + 1

\* The stake that has_honest_vote asks for.
HonestThreshold(total) == total \div 3 + 1

HasSuperMajority(addrs) == Weight(addrs) >= SuperMajorityThreshold(total_stake)
HasHonestVote(addrs) == Weight(addrs) >= HonestThreshold(total_stake)

-----------------------------------------------------------------------------
\* Mutant: no word is refused.
LastAcceptedWord_All(m) == MaxWord

\* randomize_256_with_rng: words above the last whole multiple of m are drawn again.
LastAcceptedWord(m) == MaxWord - ((MaxWord - m + 1) % m)

\* Upper bound of a member's part of 0..total - 1, members in their order.
StakeBound(v) == Weight({u \in Members : u <= v})

\* generate_random_validator_with_randomizer: the first member whose bound is
\* greater than the index.
LeaderOfIndex(index) ==
    CHOOSE v \in Members :
        /\ StakeBound(v) > index
        /\ \A u \in Members : StakeBound(u) > index => v <= u

Leader(word) == LeaderOfIndex(word % total_stake)

-----------------------------------------------------------------------------
CreateInit ==
    /\ validators = [v \in {} |-> 0]
    /\ total_stake = 0
    /\ result = "building"

\* One turn of the loop of create.
Insert(v, stake) ==
    \/ /\ stake = 0
       /\ result' = "zero"
       /\ UNCHANGED <<validators, total_stake>>
    \/ /\ stake > 0
       /\ v \in Members
       /\ result' = "duplicate"
       /\ UNCHANGED <<validators, total_stake>>
    \/ /\ stake > 0
       /\ v \notin Members
       /\ validators' = [u \in Members \cup {v} |-> IF u = v THEN stake ELSE validators[u]]
       /\ total_stake' = total_stake + stake
       /\ UNCHANGED result

Create ==
    \E v \in Nodes, stake \in 0..MaxStake :
        /\ result = "building"
        /\ total_stake + stake <= MaxWord
        /\ Insert(v, stake)

\* The list has ended.
Finish ==
    /\ result = "building"
    /\ result' = IF Members = {} THEN "empty" ELSE "ok"
    /\ UNCHANGED <<validators, total_stake>>

CreateNext == Create \/ Finish

CreateSpec == CreateInit /\ [][CreateNext]_set_vars

-----------------------------------------------------------------------------
\* Less than a third of the stake is faulty.
Tolerated(faulty) == 3 * Weight(faulty) < total_stake

\* Two supermajorities have a member in common that is not faulty: what every
\* safety argument rests on, with the thresholds as has_super_majority_votes and
\* has_honest_vote round them.  A set that has_honest_vote accepts is not faulty
\* throughout either.
QuorumsShareHonest ==
    result = "ok" =>
        \A faulty \in SUBSET Members : Tolerated(faulty) =>
            /\ \A A, B \in SUBSET Members :
                  HasSuperMajority(A) /\ HasSuperMajority(B) => ~(A \cap B \subseteq faulty)
            /\ \A A \in SUBSET Members : HasHonestVote(A) => ~(A \subseteq faulty)

\* The validators that are not faulty are a supermajority: rounding up the
\* threshold never asks for a faulty one.
HonestAreEnough ==
    result = "ok" =>
        \A faulty \in SUBSET Members : Tolerated(faulty) => HasSuperMajority(Members \ faulty)

\* Among the random words that randomize_256_with_rng accepts, each member is
\* elected by exactly the share that its stake has of the total.
LeadersByStake ==
    result = "ok" =>
        LET words == 0..LastAcceptedWord(total_stake)
        IN  /\ words # {}
            /\ \A v \in Members :
                  Cardinality({w \in words : Leader(w) = v}) * total_stake
                      = validators[v] * Cardinality(words)
=============================================================================
