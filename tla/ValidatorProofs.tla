--------------------------- MODULE ValidatorProofs ---------------------------
(***************************************************************************)
(* The thresholds of validator_set.rs and the election of leaders, proved  *)
(* for every list of validators, distribution of stake and width of the    *)
(* random words; and the epochs of a node across commits, crashes and      *)
(* restarts, proved for every chain, epoch length and number of starts.    *)
(*                                                                         *)
(* First the thresholds, for any measure W of sets that adds up; then that *)
(* the sum calculate_current_stake computes is such a measure, by          *)
(* induction over finite sets; then that create keeps the total equal to   *)
(* it; then who is elected by how many words.                              *)
(*                                                                         *)
(* For epochs, first the arithmetic of boundary blocks and start rounds;   *)
(* then what each event does to the epochs lo..hi that a node knows, to    *)
(* what it still has to write and to its two files.                        *)
(***************************************************************************)
EXTENDS ValidatorSet, Epochs, FiniteSetTheorems, TLAPS

\* The stake of the union and of the intersection of two sets is the stake of both.
Additive(M, W) ==
    /\ W \in [SUBSET M -> Nat]
    /\ W[{}] = 0
    /\ \A A, B \in SUBSET M : W[A \cup B] + W[A \cap B] = W[A] + W[B]

\* A part of a set has at most its stake.
LEMMA WeightMonotone ==
    ASSUME NEW M, NEW W, Additive(M, W), NEW A \in SUBSET M, NEW B \in SUBSET M, A \subseteq B
    PROVE  W[A] <= W[B]
  <1>1. A \cup (B \ A) = B /\ A \cap (B \ A) = {} /\ B \ A \in SUBSET M
    OBVIOUS
  <1>2. W[A \cup (B \ A)] + W[A \cap (B \ A)] = W[A] + W[B \ A]
    BY <1>1 DEF Additive
  <1>3. W[A] \in Nat /\ W[B] \in Nat /\ W[B \ A] \in Nat /\ W[{}] = 0
    BY <1>1 DEF Additive
  <1> QED
    BY <1>1, <1>2, <1>3

\* Arithmetic of the two thresholds: total * 2 / 3 + 1 and total / 3 + 1 with the
\* remainder dropped.
LEMMA Thresholds ==
    ASSUME NEW total \in Nat
    PROVE  /\ SuperMajorityThreshold(total) \in Nat
           /\ 3 * SuperMajorityThreshold(total) > 2 * total
           /\ 3 * SuperMajorityThreshold(total) <= 2 * total + 3
           /\ HonestThreshold(total) \in Nat
           /\ 3 * HonestThreshold(total) > total
  BY SMT DEF SuperMajorityThreshold, HonestThreshold

\* Two supermajorities share a validator outside every set with less than a third
\* of the stake.
THEOREM SupermajoritiesShareHonest ==
    ASSUME NEW M, NEW W, Additive(M, W),
           NEW A \in SUBSET M, NEW B \in SUBSET M, NEW faulty \in SUBSET M,
           3 * W[faulty] < W[M],
           W[A] >= SuperMajorityThreshold(W[M]), W[B] >= SuperMajorityThreshold(W[M])
    PROVE  ~(A \cap B \subseteq faulty)
  <1> SUFFICES ASSUME A \cap B \subseteq faulty PROVE FALSE
    OBVIOUS
  <1>1. M \in SUBSET M /\ A \cup B \in SUBSET M /\ A \cap B \in SUBSET M
    OBVIOUS
  <1>2. W[A \cap B] <= W[faulty] /\ W[A \cup B] <= W[M]
    BY <1>1, WeightMonotone
  <1>3. W[A \cup B] + W[A \cap B] = W[A] + W[B]
    BY DEF Additive
  <1>4. /\ W[A] \in Nat /\ W[B] \in Nat /\ W[M] \in Nat /\ W[faulty] \in Nat
        /\ W[A \cup B] \in Nat /\ W[A \cap B] \in Nat
    BY <1>1 DEF Additive
  <1>5. 3 * SuperMajorityThreshold(W[M]) > 2 * W[M] /\ SuperMajorityThreshold(W[M]) \in Nat
    BY <1>4, Thresholds
  <1>6. 3 * W[A] > 2 * W[M] /\ 3 * W[B] > 2 * W[M]
    BY <1>4, <1>5
  <1> QED
    BY <1>2, <1>3, <1>4, <1>6

\* A set that has_honest_vote accepts is not faulty throughout.
THEOREM HonestVoteIsHonest ==
    ASSUME NEW M, NEW W, Additive(M, W),
           NEW A \in SUBSET M, NEW faulty \in SUBSET M,
           3 * W[faulty] < W[M], W[A] >= HonestThreshold(W[M])
    PROVE  ~(A \subseteq faulty)
  <1> SUFFICES ASSUME A \subseteq faulty PROVE FALSE
    OBVIOUS
  <1>1. W[A] <= W[faulty]
    BY WeightMonotone
  <1>2. W[A] \in Nat /\ W[M] \in Nat /\ W[faulty] \in Nat
    BY DEF Additive
  <1>3. 3 * HonestThreshold(W[M]) > W[M] /\ HonestThreshold(W[M]) \in Nat
    BY <1>2, Thresholds
  <1> QED
    BY <1>1, <1>2, <1>3

\* The validators outside a set with less than a third of the stake are a
\* supermajority: the honest ones never wait for a faulty one.
THEOREM HonestReachQuorum ==
    ASSUME NEW M, NEW W, Additive(M, W), NEW faulty \in SUBSET M, 3 * W[faulty] < W[M]
    PROVE  W[M \ faulty] >= SuperMajorityThreshold(W[M])
  <1>1. PICK rest \in SUBSET M :
           rest = M \ faulty /\ faulty \cup rest = M /\ faulty \cap rest = {}
    <2>1. /\ M \ faulty \in SUBSET M
          /\ faulty \cup (M \ faulty) = M /\ faulty \cap (M \ faulty) = {}
      OBVIOUS
    <2> QED
      BY <2>1, Zenon
  <1>2. W[faulty \cup rest] + W[faulty \cap rest] = W[faulty] + W[rest]
    BY DEF Additive
  <1>3. W[M] \in Nat /\ W[faulty] \in Nat /\ W[rest] \in Nat /\ W[{}] = 0
    BY DEF Additive
  <1>4. W[M] + 0 = W[faulty] + W[rest]
    BY <1>1, <1>2, <1>3
  <1>5. /\ SuperMajorityThreshold(W[M]) \in Nat
        /\ 3 * SuperMajorityThreshold(W[M]) <= 2 * W[M] + 3
    BY <1>3, Thresholds
  <1>6. 3 * W[rest] > 2 * W[M]
    BY <1>3, <1>4
  <1>7. W[rest] >= SuperMajorityThreshold(W[M])
    BY <1>3, <1>5, <1>6
  <1> QED
    BY <1>1, <1>7

-----------------------------------------------------------------------------
(* Induction.                                                              *)

\* What holds of a subset of a finite set whenever it holds of the smaller ones holds of all.
LEMMA SubsetInduction ==
    ASSUME NEW S, IsFiniteSet(S), NEW Good,
           \A T \in SUBSET S : (\A U \in SUBSET T : U # T => U \in Good) => T \in Good
    PROVE  SUBSET S \subseteq Good
  <1> DEFINE Bad == (SUBSET S) \ Good
  <1> SUFFICES ASSUME Bad # {} PROVE FALSE
    OBVIOUS
  <1>1. IsWellFoundedOn(StrictSubsetOrdering(S), SUBSET S)
    <2>1. FiniteSubsetsOf(S) = SUBSET S
      BY FS_FiniteSubsetsOfFinite
    <2>2. IsWellFoundedOn(StrictSubsetOrdering(S), FiniteSubsetsOf(S))
      BY FS_StrictSubsetOrderingWellFounded
    <2> QED
      BY <2>1, <2>2, Zenon
  <1>2. Bad \subseteq SUBSET S
    OBVIOUS
  <1>3. PICK T \in Bad : \A U \in Bad : ~(<<U, T>> \in StrictSubsetOrdering(S))
    <2> HIDE DEF Bad
    <2> QED BY <1>1, <1>2, WFMin
  <1>4. \A U \in SUBSET T : U # T => U \notin Bad
    BY <1>2, <1>3 DEF StrictSubsetOrdering
  <1>5. T \in SUBSET S /\ T \notin Good
    BY <1>3
  <1>6. \A U \in SUBSET T : U # T => U \in Good
    BY <1>4, <1>5
  <1> QED
    BY <1>5, <1>6

\* A set of numbers that is not empty has a least one.
LEMMA NatMin ==
    ASSUME NEW T \in SUBSET Nat, T # {}
    PROVE  \E n \in T : \A m \in T : n <= m
  <1> DEFINE less == {ss \in Nat \X Nat : ss[1] < ss[2]}
  <1>1. IsWellFoundedOn(less, Nat)
    BY NatLessThanWellFounded DEF OpToRel
  <1>2. PICK n \in T : \A m \in T : ~(<<m, n>> \in less)
    <2> HIDE DEF less
    <2> QED BY <1>1, WFMin
  <1>3. \A m \in T : ~(m < n)
    BY <1>2
  <1> QED
    BY <1>3

\* Induction over numbers.
LEMMA NumberInduction ==
    ASSUME NEW Good, 0 \in Good, \A n \in Nat : n \in Good => n + 1 \in Good
    PROVE  Nat \subseteq Good
  <1> DEFINE Bad == Nat \ Good
  <1> SUFFICES ASSUME Bad # {} PROVE FALSE
    OBVIOUS
  <1>1. PICK n \in Bad : \A m \in Bad : n <= m
    <2>1. Bad \in SUBSET Nat
      OBVIOUS
    <2> HIDE DEF Bad
    <2> QED BY <2>1, NatMin
  <1>2. n \in Nat /\ n # 0 /\ n - 1 \in Nat /\ ~(n <= n - 1)
    OBVIOUS
  <1>3. n - 1 \in Good
    BY <1>1, <1>2
  <1>4. (n - 1) + 1 \in Good
    BY <1>2, <1>3
  <1> QED
    BY <1>2, <1>4

-----------------------------------------------------------------------------
(* The sum of stakes.  MapThenSumSet takes the members out of the set one  *)
(* after the other, as CHOOSE has it; the result does not depend on that.  *)

\* The member that is taken out first, and what the fold satisfies.
pick(s) == CHOOSE x \in s : TRUE
IsSum(f, S, it) ==
    it = [s \in SUBSET S |-> IF s = {} THEN 0 ELSE f[pick(s)] + it[s \ {pick(s)}]]

\* The element that the fold takes out first is one of the set.
LEMMA Pick == ASSUME NEW s, s # {} PROVE pick(s) \in s
  BY Zenon DEF pick

\* The fold of calculate_current_stake is well defined on a finite set.
LEMMA SumExists ==
    ASSUME NEW S, IsFiniteSet(S), NEW f
    PROVE  \E it : IsSum(f, S, it)
  <1> DEFINE Works(g, n) == \A s \in SUBSET S : Cardinality(s) <= n =>
                              g[s] = IF s = {} THEN 0 ELSE f[pick(s)] + g[s \ {pick(s)}]
  <1> DEFINE Good == {n \in Nat : \E g : Works(g, n)}
  <1>1. \A s \in SUBSET S : IsFiniteSet(s) /\ Cardinality(s) \in Nat /\ (Cardinality(s) = 0 <=> s = {})
    BY FS_Subset, FS_CardinalityType, FS_EmptySet
  <1>2. 0 \in Good
    <2> DEFINE g == [s \in SUBSET S |-> 0]
    <2>1. Works(g, 0)
      BY <1>1
    <2> HIDE DEF g, Works
    <2> QED BY <2>1
  <1>3. ASSUME NEW n \in Nat, n \in Good PROVE n + 1 \in Good
    <2>1. PICK g : Works(g, n)
      BY <1>3
    <2> DEFINE h == [s \in SUBSET S |-> IF Cardinality(s) <= n THEN g[s]
                                         ELSE f[pick(s)] + g[s \ {pick(s)}]]
    <2>2. ASSUME NEW s \in SUBSET S, Cardinality(s) <= n + 1
          PROVE  h[s] = IF s = {} THEN 0 ELSE f[pick(s)] + h[s \ {pick(s)}]
      <3>1. CASE s = {}
        <4>1. Cardinality(s) <= n
          BY <1>1, <3>1
        <4> QED
          BY <2>1, <3>1, <4>1
      <3>2. CASE s # {}
        <4> DEFINE r == s \ {pick(s)}
        <4>1. r \in SUBSET S /\ Cardinality(r) = Cardinality(s) - 1
          BY <1>1, <3>2, Pick, FS_RemoveElement
        <4>2. Cardinality(r) <= n
          BY <1>1, <2>2, <4>1
        <4> HIDE DEF r
        <4>3. h[r] = g[r]
          BY <4>1, <4>2
        <4>4. h[s] = f[pick(s)] + g[r]
          BY <2>1, <3>2 DEF r
        <4> QED
          BY <3>2, <4>3, <4>4 DEF r
      <3> QED
        BY <3>1, <3>2
    <2> HIDE DEF h
    <2>3. Works(h, n + 1)
      BY <2>2
    <2> HIDE DEF Works
    <2> QED
      BY <2>3
  <1>4. Cardinality(S) \in Good
    <2> HIDE DEF Good
    <2>1. Nat \subseteq Good
      BY <1>2, <1>3, NumberInduction
    <2> QED
      BY <2>1, FS_CardinalityType
  <1>5. PICK g : Works(g, Cardinality(S))
    BY <1>4
  <1>6. \A s \in SUBSET S : g[s] = IF s = {} THEN 0 ELSE f[pick(s)] + g[s \ {pick(s)}]
    BY <1>5, FS_Subset
  <1> DEFINE it == [s \in SUBSET S |-> g[s]]
  <1>7. \A s \in SUBSET S : it[s] = g[s] /\ it[s \ {pick(s)}] = g[s \ {pick(s)}]
    OBVIOUS
  <1>8. IsSum(f, S, it)
    BY <1>6, <1>7 DEF IsSum
  <1> QED
    BY <1>8

\* It depends on the stakes of the members summed only.
LEMMA SumSame ==
    ASSUME NEW S, NEW T, NEW f, NEW g, NEW i, NEW j, IsSum(f, S, i), IsSum(g, T, j),
           NEW A, IsFiniteSet(A), A \subseteq S, A \subseteq T, \A x \in A : f[x] = g[x]
    PROVE  i[A] = j[A]
  <1> DEFINE Good == {s \in SUBSET A : i[s] = j[s]}
  <1>1. ASSUME NEW s \in SUBSET A, \A u \in SUBSET s : u # s => u \in Good PROVE s \in Good
    <2>0. s \in SUBSET S /\ s \in SUBSET T
      OBVIOUS
    <2>1. /\ i[s] = IF s = {} THEN 0 ELSE f[pick(s)] + i[s \ {pick(s)}]
          /\ j[s] = IF s = {} THEN 0 ELSE g[pick(s)] + j[s \ {pick(s)}]
      BY <2>0 DEF IsSum
    <2>2. CASE s = {}
      BY <2>1, <2>2
    <2>3. CASE s # {}
      <3>1. pick(s) \in s /\ s \ {pick(s)} \in SUBSET s /\ s \ {pick(s)} # s
        BY <2>3, Pick
      <3> QED
        BY <1>1, <2>1, <2>3, <3>1
    <2> QED
      BY <2>2, <2>3
  <1>2. SUBSET A \subseteq Good
    <2> HIDE DEF Good
    <2> QED BY <1>1, SubsetInduction
  <1> QED
    BY <1>2

\* It is a number.
LEMMA SumType ==
    ASSUME NEW S, IsFiniteSet(S), NEW f, \A x \in S : f[x] \in Nat, NEW it, IsSum(f, S, it)
    PROVE  it \in [SUBSET S -> Nat] /\ it[{}] = 0
  <1> DEFINE Good == {s \in SUBSET S : it[s] \in Nat}
  <1>1. ASSUME NEW s \in SUBSET S, \A u \in SUBSET s : u # s => u \in Good PROVE s \in Good
    <2>1. it[s] = IF s = {} THEN 0 ELSE f[pick(s)] + it[s \ {pick(s)}]
      BY DEF IsSum
    <2>2. CASE s = {}
      BY <2>1, <2>2
    <2>3. CASE s # {}
      <3>1. pick(s) \in s /\ s \ {pick(s)} \in SUBSET s /\ s \ {pick(s)} # s
        BY <2>3, Pick
      <3> QED
        BY <1>1, <2>1, <2>3, <3>1
    <2> QED
      BY <2>2, <2>3
  <1>2. SUBSET S \subseteq Good
    <2> HIDE DEF Good
    <2> QED BY <1>1, SubsetInduction
  <1> QED
    BY <1>2 DEF IsSum

\* Any member may be taken out first.
LEMMA SumTakeOut ==
    ASSUME NEW S, IsFiniteSet(S), NEW f, \A x \in S : f[x] \in Nat, NEW it, IsSum(f, S, it),
           NEW A \in SUBSET S, NEW x \in A
    PROVE  it[A] = f[x] + it[A \ {x}]
  <1> DEFINE Good == {s \in SUBSET S : \A y \in s : it[s] = f[y] + it[s \ {y}]}
  <1>0. it \in [SUBSET S -> Nat]
    BY SumType
  <1>1. ASSUME NEW s \in SUBSET S, \A u \in SUBSET s : u # s => u \in Good PROVE s \in Good
    <2> SUFFICES ASSUME NEW y \in s PROVE it[s] = f[y] + it[s \ {y}]
      OBVIOUS
    <2> DEFINE p == pick(s)
    <2>1. p \in s
      BY Pick
    <2>2. it[s] = f[p] + it[s \ {p}]
      BY DEF IsSum
    <2> HIDE DEF p
    <2>3. CASE y # p
      <3> DEFINE r == (s \ {y}) \ {p}
      <3>1. s \ {p} \in Good /\ s \ {y} \in Good
        BY <1>1, <2>1
      <3>2. it[s \ {p}] = f[y] + it[(s \ {p}) \ {y}]
        BY <2>3, <3>1
      <3>3. it[s \ {y}] = f[p] + it[r]
        BY <2>1, <2>3, <3>1
      <3>4. (s \ {p}) \ {y} = r /\ r \in SUBSET S
        OBVIOUS
      <3> HIDE DEF r
      <3>5. it[r] \in Nat /\ f[y] \in Nat /\ f[p] \in Nat
        BY <1>0, <2>1, <3>4
      <3>6. f[p] + (f[y] + it[r]) = f[y] + (f[p] + it[r])
        BY <3>5
      <3> QED
        BY <2>2, <3>2, <3>3, <3>4, <3>6, Zenon
    <2> QED
      BY <2>2, <2>3
  <1>2. SUBSET S \subseteq Good
    <2> HIDE DEF Good
    <2> QED BY <1>1, SubsetInduction
  <1> QED
    BY <1>2

\* The stake of two sets is the stake of their union and of their intersection.
LEMMA SumAdditive ==
    ASSUME NEW S, IsFiniteSet(S), NEW f, \A x \in S : f[x] \in Nat, NEW it, IsSum(f, S, it)
    PROVE  Additive(S, it)
  <1>1. it \in [SUBSET S -> Nat] /\ it[{}] = 0
    BY SumType
  <1> SUFFICES ASSUME NEW A \in SUBSET S
               PROVE  \A B \in SUBSET S : it[A \cup B] + it[A \cap B] = it[A] + it[B]
    BY <1>1 DEF Additive
  <1> DEFINE Good == {B \in SUBSET S : it[A \cup B] + it[A \cap B] = it[A] + it[B]}
  <1>2. ASSUME NEW B \in SUBSET S, \A U \in SUBSET B : U # B => U \in Good PROVE B \in Good
    <2>1. CASE B = {}
      <3>1. A \cup B = A /\ A \cap B = B
        BY <2>1
      <3> QED
        BY <1>1, <3>1
    <2>2. CASE B # {}
      <3>1. PICK x \in B : TRUE
        BY <2>2
      <3> DEFINE C == B \ {x}
      <3>2. C \in Good /\ C \in SUBSET S
        BY <1>2
      <3>3. it[A \cup C] + it[A \cap C] = it[A] + it[C]
        BY <3>2
      <3>4. it[B] = f[x] + it[C]
        BY SumTakeOut
      <3>5. A \cup C \in SUBSET S /\ A \cap C \in SUBSET S /\ A \cup B \in SUBSET S /\ A \cap B \in SUBSET S
        OBVIOUS
      <3>6. /\ it[A] \in Nat /\ it[C] \in Nat /\ f[x] \in Nat
            /\ it[A \cup C] \in Nat /\ it[A \cap C] \in Nat
        <4> HIDE DEF C
        <4> QED BY <1>1, <3>2, <3>5
      <3>7. CASE x \in A
        <4>1. A \cup B = A \cup C /\ x \in A \cap B /\ (A \cap B) \ {x} = A \cap C
          BY <3>7
        <4>2. it[A \cap B] = f[x] + it[A \cap C]
          BY <3>5, <4>1, SumTakeOut
        <4>3. it[A \cup B] = it[A \cup C]
          BY <4>1
        <4> HIDE DEF C
        <4> QED
          BY <3>3, <3>4, <3>6, <4>2, <4>3
      <3>8. CASE x \notin A
        <4>1. A \cap B = A \cap C /\ x \in A \cup B /\ (A \cup B) \ {x} = A \cup C
          BY <3>8
        <4>2. it[A \cup B] = f[x] + it[A \cup C]
          BY <3>5, <4>1, SumTakeOut
        <4>3. it[A \cap B] = it[A \cap C]
          BY <4>1
        <4> HIDE DEF C
        <4> QED
          BY <3>3, <3>4, <3>6, <4>2, <4>3
      <3> QED
        BY <3>7, <3>8
    <2> QED
      BY <2>1, <2>2
  <1>3. SUBSET S \subseteq Good
    <2> HIDE DEF Good
    <2> QED BY <1>2, SubsetInduction
  <1> QED
    BY <1>3

\* The stake of the nodes in A under the stakes f.
StakeOf(f, A) == (CHOOSE it : IsSum(f, A, it))[A]

\* That is what calculate_current_stake computes.
LEMMA WeightIs ==
    ASSUME NEW A PROVE Weight(A) = StakeOf(validators, A \cap Members)
  BY DEF Weight, MapThenSumSet, MapThenFoldSet, StakeOf, IsSum, pick

\* One sum over a set gives the stakes of all of its parts.
LEMMA StakeOfIs ==
    ASSUME NEW S, IsFiniteSet(S), NEW f, NEW g, NEW it, IsSum(f, S, it),
           NEW A \in SUBSET S, \A x \in A : f[x] = g[x]
    PROVE  StakeOf(g, A) = it[A]
  <1>1. IsFiniteSet(A)
    BY FS_Subset
  <1> DEFINE i == CHOOSE j : IsSum(g, A, j)
  <1>2. IsSum(g, A, i)
    <2>1. \E j : IsSum(g, A, j)
      BY <1>1, SumExists
    <2> QED
      BY <2>1, Zenon
  <1>3. StakeOf(g, A) = i[A]
    BY DEF StakeOf
  <1> HIDE DEF i
  <1> QED
    BY <1>1, <1>2, <1>3, SumSame

\* So the stakes of the sets of members add up.
LEMMA WeightAdditive ==
    ASSUME validators \in [Members -> Nat], IsFiniteSet(Members)
    PROVE  Additive(Members, [A \in SUBSET Members |-> Weight(A)])
  <1>1. PICK it : IsSum(validators, Members, it)
    BY SumExists
  <1>2. \A x \in Members : validators[x] \in Nat
    OBVIOUS
  <1>3. Additive(Members, it) /\ it \in [SUBSET Members -> Nat]
    BY <1>1, <1>2, SumAdditive, SumType
  <1>4. ASSUME NEW A \in SUBSET Members PROVE Weight(A) = it[A]
    <2>1. A \cap Members = A
      OBVIOUS
    <2>2. StakeOf(validators, A) = it[A]
      BY <1>1, StakeOfIs
    <2> QED
      BY <2>1, <2>2, WeightIs
  <1>5. [A \in SUBSET Members |-> Weight(A)] = it
    BY <1>3, <1>4
  <1> QED
    BY <1>3, <1>5

-----------------------------------------------------------------------------
(* What create has built at any time.                                      *)

\* Every member has a stake, and the total is the stake of them all, in a word.
Built ==
    /\ validators \in [Members -> Nat \ {0}]
    /\ Members \subseteq Nodes /\ IsFiniteSet(Members)
    /\ total_stake = Weight(Members)
    /\ total_stake \in 0..MaxWord
    /\ result = "ok" => Members # {}

\* A validator is added: the total grows by its stake.
LEMMA InsertWeight ==
    ASSUME validators \in [Members -> Nat], IsFiniteSet(Members),
           NEW v, v \notin Members, NEW stake \in Nat,
           validators' = [u \in Members \cup {v} |-> IF u = v THEN stake ELSE validators[u]]
    PROVE  /\ Members' = Members \cup {v}
           /\ Weight(Members)' = Weight(Members) + stake
  <1> DEFINE M == Members
  <1> DEFINE N == Members \cup {v}
  <1> DEFINE f == validators
  <1> DEFINE g == validators'
  <1>1. DOMAIN g = N /\ g \in [N -> Nat] /\ g[v] = stake /\ \A x \in M : g[x] = f[x]
    OBVIOUS
  <1>2. M = DOMAIN f /\ Members' = N
    BY <1>1 DEF Members
  <1>3. IsFiniteSet(N) /\ M \in SUBSET N /\ v \in N /\ N \ {v} = M
    BY FS_AddElement
  <1>4. PICK it : IsSum(g, N, it)
    BY <1>3, SumExists
  <1>5. it[N] = stake + it[M] /\ it[M] \in Nat
    <2> HIDE DEF M, N, g
    <2>1. \A x \in N : g[x] \in Nat
      BY <1>1
    <2>2. it \in [SUBSET N -> Nat]
      BY <1>3, <1>4, <2>1, SumType
    <2>3. N \in SUBSET N
      OBVIOUS
    <2>4. it[N] = g[v] + it[N \ {v}]
      BY <1>3, <1>4, <2>1, <2>3, SumTakeOut
    <2> QED
      BY <1>1, <1>3, <2>2, <2>4
  <1>6. StakeOf(f, M) = it[M]
    <2> HIDE DEF M, N, g, f
    <2> QED BY <1>1, <1>3, <1>4, StakeOfIs
  <1>7. StakeOf(g, N) = it[N]
    <2> HIDE DEF M, N, g
    <2> QED BY <1>3, <1>4, StakeOfIs
  <1>8. Weight(Members) = StakeOf(f, M)
    <2>1. Members \cap Members = M
      OBVIOUS
    <2> QED
      BY <2>1, WeightIs
  <1>9. Weight(Members)' = StakeOf(g, N)
    <2>1. (Members \cap Members)' = N
      BY <1>2
    <2>2. Weight(Members)' = StakeOf(g, (Members \cap Members)')
      BY DEF Weight, MapThenSumSet, MapThenFoldSet, StakeOf, IsSum, pick
    <2> QED
      BY <2>1, <2>2
  <1> QED
    BY <1>2, <1>5, <1>6, <1>7, <1>8, <1>9

\* create keeps the total exact and refuses validators without stake and repeated
\* ones.
THEOREM BuiltInvariant == CreateSpec => []Built
  <1>1. CreateInit => Built
    <2> SUFFICES ASSUME CreateInit PROVE Built
      OBVIOUS
    <2>1. Members = {} /\ validators \in [Members -> Nat \ {0}] /\ IsFiniteSet(Members)
      BY FS_EmptySet DEF CreateInit, Members
    <2>2. Weight(Members) = 0
      <3> DEFINE W == [A \in SUBSET Members |-> Weight(A)]
      <3>1. validators \in [Members -> Nat]
        BY <2>1
      <3>2. Additive(Members, W)
        BY <2>1, <3>1, WeightAdditive
      <3>3. W[{}] = 0 /\ W[{}] = Weight({})
        BY <3>2 DEF Additive
      <3> QED
        BY <2>1, <3>3
    <2> QED
      BY <2>1, <2>2, ValidatorSetAssumption DEF CreateInit, Built
  <1>2. Built /\ [CreateNext]_set_vars => Built'
    <2> SUFFICES ASSUME Built, [CreateNext]_set_vars PROVE Built'
      OBVIOUS
    <2>1. CASE UNCHANGED <<validators, total_stake>> /\ (result' = "ok" => Members # {} \/ result = "ok")
      <3>1. Members' = Members
        BY <2>1 DEF Members
      <3>2. Weight(Members)' = Weight(Members)
        BY <2>1, <3>1 DEF Weight, MapThenSumSet, MapThenFoldSet
      <3> QED
        BY <2>1, <3>1, <3>2 DEF Built
    <2>2. ASSUME NEW v \in Nodes, NEW stake \in 0..MaxStake,
                 total_stake + stake <= MaxWord, Insert(v, stake)
          PROVE  Built'
      <3>1. CASE v \in Members \/ stake = 0
        <4>1. UNCHANGED <<validators, total_stake>> /\ result' # "ok"
          BY <2>2, <3>1, ValidatorSetAssumption DEF Insert
        <4> QED
          BY <2>1, <4>1
      <3>2. CASE v \notin Members /\ stake # 0
        <4>1. /\ validators' = [u \in Members \cup {v} |-> IF u = v THEN stake ELSE validators[u]]
              /\ total_stake' = total_stake + stake
          BY <2>2, <3>2 DEF Insert
        <4>2. stake \in Nat \ {0} /\ validators \in [Members -> Nat \ {0}] /\ validators \in [Members -> Nat]
          BY <3>2, ValidatorSetAssumption DEF Built
        <4>3. Members' = Members \cup {v} /\ Weight(Members)' = Weight(Members) + stake
          BY <3>2, <4>1, <4>2, InsertWeight DEF Built
        <4>4. validators' \in [Members' -> Nat \ {0}]
          BY <4>1, <4>2, <4>3
        <4>5. Members' \subseteq Nodes /\ IsFiniteSet(Members')
          BY <4>3, FS_AddElement DEF Built
        <4>6. total_stake' = Weight(Members)' /\ total_stake' \in 0..MaxWord
          BY <2>2, <4>1, <4>2, <4>3, ValidatorSetAssumption DEF Built
        <4>7. Members' # {}
          BY <4>3
        <4> QED
          BY <4>4, <4>5, <4>6, <4>7 DEF Built
      <3> QED
        BY <3>1, <3>2
    <2>3. CASE Finish
      BY <2>1, <2>3 DEF Finish
    <2>4. CASE UNCHANGED set_vars
      BY <2>1, <2>4 DEF set_vars
    <2> QED
      BY <2>2, <2>3, <2>4 DEF CreateNext, Create
  <1> QED
    BY <1>1, <1>2, PTL DEF CreateSpec

\* What Built gives to the theorems about thresholds.
LEMMA BuiltWeights ==
    ASSUME Built
    PROVE  \E W : /\ Additive(Members, W) /\ W[Members] = total_stake
                  /\ \A A \in SUBSET Members : W[A] = Weight(A)
                  /\ \A A \in SUBSET Members : \A x \in A : W[A] = validators[x] + W[A \ {x}]
  <1>1. IsFiniteSet(Members) /\ \A x \in Members : validators[x] \in Nat
    BY DEF Built
  <1>2. PICK W : IsSum(validators, Members, W)
    BY <1>1, SumExists
  <1>3. Additive(Members, W)
    BY <1>1, <1>2, SumAdditive
  <1>4. ASSUME NEW A \in SUBSET Members, NEW x \in A PROVE W[A] = validators[x] + W[A \ {x}]
    BY <1>1, <1>2, SumTakeOut
  <1>5. ASSUME NEW A \in SUBSET Members PROVE W[A] = Weight(A)
    <2>1. A \cap Members = A
      OBVIOUS
    <2>2. StakeOf(validators, A) = W[A]
      BY <1>1, <1>2, StakeOfIs
    <2> QED
      BY <2>1, <2>2, WeightIs
  <1>6. W[Members] = total_stake
    BY <1>5 DEF Built
  <1> QED
    BY <1>3, <1>4, <1>5, <1>6

\* In every validator set that create returns, two supermajorities share a
\* validator that is not faulty, and has_honest_vote needs an honest vote.
THEOREM QuorumsShareHonestHolds == CreateSpec => []QuorumsShareHonest
  <1>1. Built => QuorumsShareHonest
    <2> SUFFICES ASSUME Built, NEW faulty \in SUBSET Members, Tolerated(faulty)
                 PROVE  /\ \A A, B \in SUBSET Members :
                             HasSuperMajority(A) /\ HasSuperMajority(B) => ~(A \cap B \subseteq faulty)
                        /\ \A A \in SUBSET Members : HasHonestVote(A) => ~(A \subseteq faulty)
      BY DEF QuorumsShareHonest
    <2>1. PICK W : /\ Additive(Members, W) /\ W[Members] = total_stake
                   /\ \A A \in SUBSET Members : W[A] = Weight(A)
      BY BuiltWeights
    <2>2. 3 * W[faulty] < W[Members]
      BY <2>1 DEF Tolerated
    <2>3. ASSUME NEW A \in SUBSET Members, NEW B \in SUBSET Members,
                 HasSuperMajority(A), HasSuperMajority(B)
          PROVE  ~(A \cap B \subseteq faulty)
      <3>1. W[A] >= SuperMajorityThreshold(W[Members]) /\ W[B] >= SuperMajorityThreshold(W[Members])
        BY <2>1, <2>3 DEF HasSuperMajority
      <3> QED
        BY <2>1, <2>2, <3>1, SupermajoritiesShareHonest
    <2>4. ASSUME NEW A \in SUBSET Members, HasHonestVote(A) PROVE ~(A \subseteq faulty)
      <3>1. W[A] >= HonestThreshold(W[Members])
        BY <2>1, <2>4 DEF HasHonestVote
      <3> QED
        BY <2>1, <2>2, <3>1, HonestVoteIsHonest
    <2> QED
      BY <2>3, <2>4
  <1> QED
    BY <1>1, BuiltInvariant, PTL

\* And the validators that are not faulty are a supermajority.
THEOREM HonestAreEnoughHolds == CreateSpec => []HonestAreEnough
  <1>1. Built => HonestAreEnough
    <2> SUFFICES ASSUME Built, NEW faulty \in SUBSET Members, Tolerated(faulty)
                 PROVE  HasSuperMajority(Members \ faulty)
      BY DEF HonestAreEnough
    <2>1. PICK W : /\ Additive(Members, W) /\ W[Members] = total_stake
                   /\ \A A \in SUBSET Members : W[A] = Weight(A)
      BY BuiltWeights
    <2>2. 3 * W[faulty] < W[Members]
      BY <2>1 DEF Tolerated
    <2>3. W[Members \ faulty] >= SuperMajorityThreshold(W[Members])
      BY <2>1, <2>2, HonestReachQuorum
    <2>4. Members \ faulty \in SUBSET Members
      OBVIOUS
    <2> QED
      BY <2>1, <2>3, <2>4 DEF HasSuperMajority
  <1> QED
    BY <1>1, BuiltInvariant, PTL

-----------------------------------------------------------------------------
(* The election of leaders.                                                *)

\* Division with remainder.
LEMMA DivMod ==
    ASSUME NEW m \in Nat \ {0}, NEW w \in Nat
    PROVE  w \div m \in Nat /\ w % m \in Nat /\ w = m * (w \div m) + (w % m) /\ w % m < m
  OBVIOUS

\* The remainder of a number between two multiples of m.
LEMMA Modulus ==
    ASSUME NEW m \in Nat \ {0}, NEW k \in Nat, NEW w \in Nat, k * m <= w, w < k * m + m
    PROVE  w % m = w - k * m
  <1> DEFINE q == w \div m
  <1>1. q \in Nat /\ w % m \in Nat /\ w = m * q + (w % m) /\ w % m < m
    BY DivMod
  <1> HIDE DEF q
  <1>2. CASE q < k
    <2>1. PICK d \in Nat : k = q + 1 + d
      BY <1>1, <1>2
    <2>2. k * m = q * m + m + d * m /\ d * m \in Nat /\ q * m \in Nat /\ m * q = q * m
      BY <1>1, <2>1
    <2> QED
      BY <1>1, <2>2
  <1>3. CASE q > k
    <2>1. PICK d \in Nat : q = k + 1 + d
      BY <1>1, <1>3
    <2>2. q * m = k * m + m + d * m /\ d * m \in Nat /\ k * m \in Nat /\ m * q = q * m
      BY <1>1, <2>1
    <2> QED
      BY <1>1, <2>2
  <1>4. CASE q = k
    BY <1>1, <1>4
  <1> QED
    BY <1>1, <1>2, <1>3, <1>4

\* randomize_256_with_rng accepts a whole multiple of m words, and at least m.
LEMMA WholeMultiple ==
    ASSUME NEW m \in Nat \ {0}, m <= MaxWord
    PROVE  \E k \in Nat \ {0} : LastAcceptedWord(m) + 1 = k * m /\ LastAcceptedWord(m) \in Nat
  <1> DEFINE x == MaxWord - m + 1
  <1>1. x \in Nat /\ MaxWord \in Nat
    BY ValidatorSetAssumption
  <1> DEFINE q == x \div m
  <1> DEFINE r == x % m
  <1> HIDE DEF x
  <1>2. q \in Nat /\ r \in Nat /\ x = m * q + r /\ r < m
    BY <1>1, DivMod
  <1>3. LastAcceptedWord(m) = MaxWord - r
    BY DEF LastAcceptedWord, x
  <1> HIDE DEF q, r
  <1>4. x = MaxWord - m + 1
    BY DEF x
  <1>5. (q + 1) * m = m * q + m
    BY <1>2
  <1>6. m * q \in Nat
    BY <1>2
  <1>7. LastAcceptedWord(m) + 1 = (q + 1) * m /\ LastAcceptedWord(m) \in Nat
    BY <1>1, <1>2, <1>3, <1>4, <1>5, <1>6
  <1>8. q + 1 \in Nat \ {0}
    BY <1>2
  <1> QED
    BY <1>7, <1>8

\* The words among the first n * m that give an index from lo to hi - 1.
Share(m, lo, hi, n) == {w \in 0..(n * m - 1) : lo <= w % m /\ w % m < hi}

\* There are n of them for each index.
LEMMA ShareCount ==
    ASSUME NEW m \in Nat \ {0}, NEW lo \in Nat, NEW hi \in Nat, lo <= hi, hi <= m, NEW n \in Nat
    PROVE  Cardinality(Share(m, lo, hi, n)) = n * (hi - lo)
  <1> DEFINE T(k) == Share(m, lo, hi, k)
  <1> DEFINE Good == {k \in Nat : IsFiniteSet(T(k)) /\ Cardinality(T(k)) = k * (hi - lo)}
  <1>1. 0 \in Good
    <2>1. T(0) = {}
      BY DEF Share
    <2>2. 0 * (hi - lo) = 0
      OBVIOUS
    <2> HIDE DEF T
    <2> QED
      BY <2>1, <2>2, FS_EmptySet
  <1>2. ASSUME NEW k \in Nat, k \in Good PROVE k + 1 \in Good
    <2> DEFINE a == k * m
    <2> DEFINE U == (a + lo)..(a + hi - 1)
    <2>1. a \in Nat /\ (k + 1) * m = a + m
      OBVIOUS
    <2>2. \A w \in Nat : a <= w /\ w < a + m => w % m = w - a
      BY Modulus
    <2>3. T(k + 1) = T(k) \cup U /\ T(k) \cap U = {}
      <3>1. T(k + 1) = {w \in 0..(a + m - 1) : lo <= w % m /\ w % m < hi}
        BY <2>1 DEF Share
      <3>2. T(k) = {w \in 0..(a - 1) : lo <= w % m /\ w % m < hi}
        BY DEF Share
      <3> HIDE DEF a, T
      <3> QED
        BY <2>1, <2>2, <3>1, <3>2
    <2> HIDE DEF T, a
    <2>4. IsFiniteSet(U) /\ Cardinality(U) = hi - lo
      <3> DEFINE c == a + lo
      <3> DEFINE d == a + hi - 1
      <3>1. c \in Int /\ d \in Int /\ (c > d => hi = lo) /\ d - c + 1 = hi - lo
        BY <2>1
      <3>2. U = c..d
        OBVIOUS
      <3> HIDE DEF c, d
      <3>3. IsFiniteSet(c..d) /\ Cardinality(c..d) = IF c > d THEN 0 ELSE d - c + 1
        BY <3>1, FS_Interval
      <3>4. CASE c > d
        BY <3>1, <3>2, <3>3, <3>4
      <3>5. CASE ~(c > d)
        BY <3>1, <3>2, <3>3, <3>5
      <3> QED
        BY <3>4, <3>5
    <2>5. IsFiniteSet(T(k)) /\ Cardinality(T(k)) = k * (hi - lo)
      BY <1>2
    <2> HIDE DEF U
    <2>6. IsFiniteSet(T(k + 1)) /\ Cardinality(T(k + 1)) = Cardinality(T(k)) + Cardinality(U) - 0
      <3> DEFINE V == T(k)
      <3> HIDE DEF V
      <3>1. IsFiniteSet(V)
        BY <2>5 DEF V
      <3>2. IsFiniteSet(V \cup U) /\ Cardinality(V \cup U) = Cardinality(V) + Cardinality(U) - Cardinality(V \cap U)
        BY <2>4, <3>1, FS_Union
      <3>3. V \cap U = {} /\ V \cup U = T(k + 1)
        BY <2>3 DEF V
      <3>4. Cardinality({}) = 0
        BY FS_EmptySet
      <3> QED
        BY <3>2, <3>3, <3>4, Zenon DEF V
    <2>7. (k + 1) * (hi - lo) = k * (hi - lo) + (hi - lo) /\ k * (hi - lo) \in Int
      OBVIOUS
    <2> QED
      BY <2>4, <2>5, <2>6, <2>7
  <1>3. Nat \subseteq Good
    <2> HIDE DEF Good
    <2> QED BY <1>1, <1>2, NumberInduction
  <1> HIDE DEF T
  <1>4. n \in Good
    BY <1>3
  <1> QED
    BY <1>4 DEF T

\* A finite set of numbers that is not empty has a greatest one.
LEMMA FiniteMax ==
    ASSUME NEW S \in SUBSET Nat, IsFiniteSet(S), S # {}
    PROVE  \E x \in S : \A y \in S : y <= x
  <1> DEFINE Good == {T \in SUBSET S : T # {} => \E x \in T : \A y \in T : y <= x}
  <1>1. ASSUME NEW T \in SUBSET S, \A U \in SUBSET T : U # T => U \in Good PROVE T \in Good
    <2> SUFFICES ASSUME T # {} PROVE \E x \in T : \A y \in T : y <= x
      OBVIOUS
    <2>1. PICK z \in T : TRUE
      OBVIOUS
    <2>2. T \ {z} \in Good
      BY <1>1
    <2>3. CASE T \ {z} = {}
      BY <2>3
    <2>4. CASE T \ {z} # {}
      <3>1. PICK x \in T \ {z} : \A y \in T \ {z} : y <= x
        BY <2>2, <2>4
      <3>2. CASE z <= x
        BY <3>1, <3>2
      <3>3. CASE ~(z <= x)
        <4>1. \A y \in T : y <= z
          BY <3>1, <3>3
        <4> QED
          BY <4>1
      <3> QED
        BY <3>2, <3>3
    <2> QED
      BY <2>3, <2>4
  <1>2. SUBSET S \subseteq Good
    <2> HIDE DEF Good
    <2> QED BY <1>1, SubsetInduction
  <1>3. S \in SUBSET S
    OBVIOUS
  <1> QED
    BY <1>2, <1>3

\* The members before v.
Before(v) == {u \in Members : u < v}

\* A member's part of 0..total_stake - 1 begins where the parts of those before it end.
LEMMA StakeBounds ==
    ASSUME Built, NEW v \in Members
    PROVE  /\ v \in Nat /\ validators[v] \in Nat /\ Weight(Before(v)) \in Nat
           /\ StakeBound(v) = Weight(Before(v)) + validators[v]
           /\ StakeBound(v) <= total_stake
           /\ \A u \in Members : u < v => StakeBound(u) <= Weight(Before(v))
           /\ (\A u \in Members : u <= v) => StakeBound(v) = total_stake
           /\ Before(v) = {} => Weight(Before(v)) = 0
           /\ \A u \in Before(v) : (\A y \in Before(v) : y <= u) => StakeBound(u) = Weight(Before(v))
  <1>1. PICK W : /\ Additive(Members, W) /\ W[Members] = total_stake
                 /\ \A A \in SUBSET Members : W[A] = Weight(A)
                 /\ \A A \in SUBSET Members : \A x \in A : W[A] = validators[x] + W[A \ {x}]
    BY BuiltWeights
  <1>2. (\A u \in Members : u \in Nat) /\ validators[v] \in Nat
    BY ValidatorSetAssumption DEF Built
  <1> DEFINE Upto(u) == {y \in Members : y <= u}
  <1>3. \A u \in Members : Upto(u) \in SUBSET Members /\ StakeBound(u) = W[Upto(u)]
    BY <1>1 DEF StakeBound
  <1>4. Before(v) \in SUBSET Members /\ Weight(Before(v)) = W[Before(v)]
    BY <1>1 DEF Before
  <1>5. W \in [SUBSET Members -> Nat] /\ W[{}] = 0
    BY <1>1 DEF Additive
  <1>6. v \in Upto(v) /\ Upto(v) \ {v} = Before(v)
    BY <1>2 DEF Before
  <1>7. \A u \in Members : u < v => Upto(u) \subseteq Before(v)
    BY <1>2 DEF Before
  <1>8. (\A u \in Members : u <= v) => Upto(v) = Members
    OBVIOUS
  <1>9. \A u \in Before(v) : (\A y \in Before(v) : y <= u) => Upto(u) = Before(v)
    BY <1>2 DEF Before
  <1>10. \A u \in Before(v) : u \in Members
    BY DEF Before
  <1> HIDE DEF Upto
  <1>11. W[Upto(v)] = W[Before(v)] + validators[v]
    <2>1. W[Upto(v)] = validators[v] + W[Before(v)]
      BY <1>1, <1>3, <1>6
    <2> QED
      BY <1>2, <1>4, <1>5, <2>1
  <1>12. W[Upto(v)] <= W[Members]
    BY <1>1, <1>3, WeightMonotone
  <1>13. ASSUME NEW u \in Members, u < v PROVE W[Upto(u)] <= W[Before(v)]
    BY <1>13, <1>1, <1>3, <1>4, <1>7, WeightMonotone
  <1>14. v \in Nat /\ Weight(Before(v)) \in Nat /\ (Before(v) = {} => Weight(Before(v)) = 0)
    BY <1>2, <1>4, <1>5
  <1>15. StakeBound(v) = Weight(Before(v)) + validators[v] /\ StakeBound(v) <= total_stake
    BY <1>1, <1>3, <1>4, <1>11, <1>12
  <1>16. \A u \in Members : u < v => StakeBound(u) <= Weight(Before(v))
    BY <1>3, <1>4, <1>13
  <1>17. (\A u \in Members : u <= v) => StakeBound(v) = total_stake
    BY <1>1, <1>3, <1>8
  <1>18. \A u \in Before(v) : (\A y \in Before(v) : y <= u) => StakeBound(u) = Weight(Before(v))
    BY <1>3, <1>4, <1>9, <1>10
  <1> QED
    BY <1>2, <1>14, <1>15, <1>16, <1>17, <1>18

\* generate_random_validator_with_randomizer finds the member in whose part the index is.
LEMMA LeaderOfIndexIs ==
    ASSUME Built, NEW v \in Members, NEW index \in Nat, index < total_stake
    PROVE  LeaderOfIndex(index) = v <=> Weight(Before(v)) <= index /\ index < StakeBound(v)
  <1> DEFINE Elected(x) == /\ StakeBound(x) > index
                           /\ \A u \in Members : StakeBound(u) > index => x <= u
  <1>1. Members \subseteq Nat /\ IsFiniteSet(Members) /\ total_stake \in Nat
    BY ValidatorSetAssumption DEF Built
  <1>2. \A u \in Members : StakeBound(u) \in Nat /\ Weight(Before(u)) \in Nat
    BY StakeBounds
  <1>3. \E x \in Members : Elected(x)
    <2>1. \E x \in Members : StakeBound(x) > index
      <3>1. PICK x \in Members : \A y \in Members : y <= x
        BY <1>1, FiniteMax
      <3>2. StakeBound(x) = total_stake
        BY <3>1, StakeBounds
      <3> QED
        BY <1>1, <3>2
    <2> DEFINE C == {x \in Members : StakeBound(x) > index}
    <2>2. C # {} /\ C \in SUBSET Nat
      BY <1>1, <2>1
    <2>3. PICK x \in C : \A y \in C : x <= y
      <3> HIDE DEF C
      <3> QED BY <2>2, NatMin
    <2> QED
      BY <2>3
  <1>4. \A x, y \in Members : Elected(x) /\ Elected(y) => x = y
    BY <1>1
  <1>5. LeaderOfIndex(index) = CHOOSE x \in Members : Elected(x)
    BY DEF LeaderOfIndex
  <1>6. ASSUME NEW x \in Members, Elected(x) PROVE LeaderOfIndex(index) = x
    <2> HIDE DEF Elected
    <2> QED BY <1>4, <1>5, <1>6, Zenon
  <1>7. ASSUME Weight(Before(v)) <= index, index < StakeBound(v) PROVE Elected(v)
    <2> SUFFICES ASSUME NEW u \in Members, StakeBound(u) > index, ~(v <= u) PROVE FALSE
      BY <1>2, <1>7
    <2>1. u < v
      BY <1>1
    <2>2. StakeBound(u) <= Weight(Before(v))
      BY <2>1, StakeBounds
    <2> QED
      BY <1>2, <1>7, <2>2
  <1>8. ASSUME LeaderOfIndex(index) = v PROVE Weight(Before(v)) <= index /\ index < StakeBound(v)
    <2>1. Elected(v)
      <3>1. PICK x \in Members : Elected(x)
        BY <1>3
      <3>2. x = v
        BY <1>6, <1>8, <3>1
      <3> QED
        BY <3>1, <3>2
    <2>2. CASE Before(v) = {}
      BY <1>2, <2>1, <2>2, StakeBounds
    <2>3. CASE Before(v) # {}
      <3>1. Before(v) \in SUBSET Members /\ Before(v) \in SUBSET Nat
        BY <1>1 DEF Before
      <3>2. IsFiniteSet(Before(v))
        BY <1>1, <3>1, FS_Subset
      <3>3. PICK p \in Before(v) : \A y \in Before(v) : y <= p
        BY <2>3, <3>1, <3>2, FiniteMax
      <3>4. StakeBound(p) = Weight(Before(v)) /\ p \in Members /\ p < v
        BY <3>3, StakeBounds DEF Before
      <3>5. ~(StakeBound(p) > index)
        BY <1>1, <2>1, <3>4
      <3> QED
        BY <1>2, <2>1, <3>4, <3>5
    <2> QED
      BY <2>2, <2>3
  <1> QED
    BY <1>6, <1>7, <1>8

\* Every member is elected by its share of the random words, whatever the stakes and
\* the width of the words.
THEOREM LeadersByStakeHolds == CreateSpec => []LeadersByStake
  <1>1. Built => LeadersByStake
    <2> DEFINE m == total_stake
    <2> DEFINE words == 0..LastAcceptedWord(m)
    <2> SUFFICES ASSUME Built, result = "ok"
                 PROVE  /\ words # {}
                        /\ \A v \in Members : Cardinality({w \in words : Leader(w) = v}) * m
                                                = validators[v] * Cardinality(words)
      BY DEF LeadersByStake
    <2>1. m \in Nat /\ m <= MaxWord /\ m # 0
      <3>1. PICK v \in Members : TRUE
        BY DEF Built
      <3>2. validators[v] \in Nat \ {0} /\ m \in 0..MaxWord
        BY DEF Built
      <3> QED
        BY <3>2, StakeBounds, ValidatorSetAssumption
    <2>2. PICK k \in Nat \ {0} : LastAcceptedWord(m) + 1 = k * m /\ LastAcceptedWord(m) \in Nat
      BY <2>1, WholeMultiple
    <2>3. words = 0..(k * m - 1) /\ Cardinality(words) = k * m /\ words # {}
      <3>1. LastAcceptedWord(m) = k * m - 1 /\ 0 \in words
        BY <2>1, <2>2
      <3>2. Cardinality(words) = LastAcceptedWord(m) - 0 + 1
        BY <2>2, FS_Interval
      <3> QED
        BY <2>2, <3>1, <3>2
    <2>4. ASSUME NEW v \in Members
          PROVE  Cardinality({w \in words : Leader(w) = v}) * m = validators[v] * Cardinality(words)
      <3> DEFINE lo == Weight(Before(v))
      <3> DEFINE hi == StakeBound(v)
      <3> DEFINE T == Share(m, lo, hi, k)
      <3>1. lo \in Nat /\ hi \in Nat /\ lo <= hi /\ hi <= m /\ hi - lo = validators[v] /\ validators[v] \in Nat
        BY <2>1, StakeBounds
      <3>2. \A w \in words : w \in Nat /\ w % m \in Nat /\ w % m < m
        BY <2>1, DivMod
      <3>3. \A w \in words : Leader(w) = v <=> lo <= w % m /\ w % m < hi
        BY <3>2, LeaderOfIndexIs DEF Leader
      <3>4. {w \in words : Leader(w) = v} = T
        BY <2>3, <3>3 DEF Share
      <3> HIDE DEF lo, hi
      <3>5. Cardinality(T) = k * (hi - lo)
        <4>1. m \in Nat \ {0} /\ k \in Nat
          BY <2>1
        <4> HIDE DEF m
        <4> QED BY <3>1, <4>1, ShareCount
      <3>6. (k * validators[v]) * m = validators[v] * (k * m)
        BY <2>1, <3>1
      <3> QED
        BY <2>3, <3>1, <3>4, <3>5, <3>6
    <2> QED
      BY <2>3, <2>4
  <1> QED
    BY <1>1, BuiltInvariant, PTL

-----------------------------------------------------------------------------
(* Epochs.                                                                 *)

\* What the chain fixes, as functions of the chain.
StartIn(c, e) == IF e = 1 THEN 0 ELSE c[Boundary(e)] + EpochStartDelay
EpochIn(c, r) == Max({e \in ChainEpochs : StartIn(c, e) <= r})

\* The rounds of the committed blocks, from genesis on.
ChainOK(c) ==
    /\ c \in [Seqs -> Nat]
    /\ c[0] = 0
    /\ \A m, n \in Seqs : m < n => c[m] < c[n]

\* Some epochs with the start rounds that the chain fixes.
StartsOK(c, starts) ==
    /\ DOMAIN starts \subseteq ChainEpochs
    /\ \A e \in DOMAIN starts : starts[e] = StartIn(c, e)

\* A forkpoint that a node can start from: the epoch of its root, perhaps the
\* next one, and the one of its high certificate among them.
ForkpointOK(c, f) ==
    /\ f.root \in Seqs /\ f.high \in Nat /\ c[f.root] <= f.high
    /\ StartsOK(c, f.sets)
    /\ DOMAIN f.sets \in {{EpochIn(c, c[f.root])}, {EpochIn(c, c[f.root]), EpochIn(c, c[f.root]) + 1}}
    /\ \A e \in DOMAIN f.sets : Boundary(e) <= f.root
    /\ EpochIn(c, f.high) \in DOMAIN f.sets

\* A running node knows the epochs lo..hi, and the validators of lo..v.
ViewOK(c, s, asked, lo, v, hi) ==
    /\ lo \in Nat \ {0} /\ v \in Nat /\ hi \in {v, v + 1} /\ lo <= v
    /\ DOMAIN s.starts = lo..hi
    /\ s.vals = lo..v
    /\ asked \subseteq lo..hi
    /\ s.status = "sync" => hi = v /\ asked = {}
    /\ Boundary(hi) <= s.root
    /\ c[s.root] <= s.high
    /\ lo <= EpochIn(c, c[s.root])
    /\ EpochIn(c, s.high) <= v

\* What the config-file executor has to write, and what it has written: the last
\* set it wrote is the newest the node has, or is about to be.
Pending(s, w, file, lo, v) ==
    \/ w = <<>> /\ s.last = v
    \/ /\ \E e \in lo..v : /\ w = <<WriteValidators(e)>>
                           /\ \/ e = v /\ s.last = v - 1
                              \/ e = v /\ s.last = 0 /\ lo = v
                              \/ s.last = v
                           /\ e < StakingActivation => e \in file
    \/ /\ w = <<WriteValidators(lo), WriteValidators(v)>>
       /\ s.status = "sync" /\ s.last = 0 /\ v = lo + 1 /\ {lo, v} \subseteq file
    \/ /\ w = <<WriteForkpoint(Head(w))>> /\ Head(w).root = s.root
       /\ s.status = "live" /\ s.last = v
       /\ DOMAIN Head(w).sets \subseteq lo..v

\* From the first forkpoint on, validators.toml covers the one on disk.
FilesOK(c, s, w, d, lo, v) ==
    /\ s.last # 0 => s.last \in lo..v /\ {s.last - 1, s.last} \cap (lo..v) \subseteq d.file
    /\ s.status = "sync" => ~s.saved
    /\ s.saved =>
         /\ s.last # 0
         /\ DOMAIN d.forkpoint.sets \subseteq {s.last - 1, s.last} \cap (lo..v)
         /\ (w = <<>> \/ Head(w).file = "validators") => d.forkpoint.root = s.root

Statuses == {"sync", "live", "down", "no_validators", "epoch_not_next", "no_leader"}

EpochsType ==
    /\ node = [status |-> node.status, root |-> node.root, high |-> node.high, starts |-> node.starts,
               vals |-> node.vals, last |-> node.last, saved |-> node.saved]
    /\ node.status \in Statuses /\ node.root \in Seqs /\ node.high \in Nat
    /\ node.last \in Nat /\ node.saved \in BOOLEAN
    /\ disk = [forkpoint |-> disk.forkpoint, file |-> disk.file]

EpochsInv ==
    /\ EpochsType
    /\ ChainOK(chain)
    /\ StartsOK(chain, node.starts)
    /\ ForkpointOK(chain, disk.forkpoint)
    /\ Running =>
         /\ \A i \in DOMAIN writes : writes[i].file = "forkpoint" => ForkpointOK(chain, writes[i])
         /\ \E lo, v, hi \in ChainEpochs :
              /\ ViewOK(chain, node, requests, lo, v, hi)
              /\ Pending(node, writes, disk.file, lo, v)
              /\ FilesOK(chain, node, writes, disk, lo, v)

-----------------------------------------------------------------------------
(* Arithmetic of epochs.                                                   *)

\* The constants are numbers, with a start delay that leaves room for the blocks that
\* a start commits again and is shorter than an epoch.
LEMMA EpochConstants ==
    /\ EpochLength \in Nat /\ EpochStartDelay \in Nat /\ ExecutionDelay \in Nat
    /\ MaxSeq \in Nat \ {0} /\ MaxRound \in Nat /\ ResyncThreshold \in Nat
    /\ 0 < EpochStartDelay /\ EpochStartDelay < EpochLength
    /\ 2 * ExecutionDelay < EpochStartDelay
    /\ 0 \in Seqs
  BY EpochAssumption DEF Seqs

\* Boundary blocks are an epoch apart.
LEMMA BoundaryStep ==
    ASSUME NEW e \in Nat, NEW k \in Nat
    PROVE  /\ Boundary(e) \in Int
           /\ Boundary(1) = -1
           /\ Boundary(e + 1) = Boundary(e) + EpochLength
           /\ Boundary(e) + k <= Boundary(e + k)
           /\ k > 0 => Boundary(e) + EpochLength <= Boundary(e + k)
  <1>1. EpochLength \in Nat /\ EpochLength > 0
    BY EpochConstants
  <1>2. /\ (e + k - 1) * EpochLength = (e - 1) * EpochLength + k * EpochLength
        /\ (e - 1) * EpochLength \in Int /\ k * EpochLength \in Nat
        /\ (e + 1 - 1) * EpochLength = (e - 1) * EpochLength + EpochLength
    BY <1>1
  <1>3. k <= k * EpochLength
    BY <1>1
  <1>4. k > 0 => EpochLength <= k * EpochLength
    <2> SUFFICES ASSUME k > 0 PROVE EpochLength <= k * EpochLength
      OBVIOUS
    <2>1. k * EpochLength = (k - 1) * EpochLength + EpochLength /\ (k - 1) * EpochLength \in Nat
      BY <1>1
    <2> QED
      BY <1>1, <2>1
  <1>5. (1 - 1) * EpochLength = 0
    BY <1>1
  <1> QED
    BY <1>1, <1>2, <1>3, <1>4, <1>5 DEF Boundary

\* Boundary blocks come in the order of the epochs they fix.
LEMMA BoundaryOrder ==
    ASSUME NEW e \in Nat, NEW f \in Nat
    PROVE  /\ Boundary(e) \in Int /\ Boundary(f) \in Int
           /\ e < f => Boundary(e) + EpochLength <= Boundary(f)
           /\ e <= f <=> Boundary(e) <= Boundary(f)
  <1>1. EpochLength \in Nat /\ EpochLength > 0
    BY EpochConstants
  <1>2. Boundary(e) \in Int /\ Boundary(f) \in Int
    BY BoundaryStep
  <1>3. ASSUME e < f PROVE Boundary(e) + EpochLength <= Boundary(f)
    <2>1. f - e \in Nat /\ f - e > 0 /\ e + (f - e) = f
      BY <1>3
    <2>2. PICK k \in Nat : k > 0 /\ e + k = f
      BY <2>1
    <2> QED
      BY <2>2, BoundaryStep
  <1>4. ASSUME f < e PROVE Boundary(f) + EpochLength <= Boundary(e)
    <2>1. e - f \in Nat /\ e - f > 0 /\ f + (e - f) = e
      BY <1>4
    <2>2. PICK k \in Nat : k > 0 /\ f + k = e
      BY <2>1
    <2> QED
      BY <2>2, BoundaryStep
  <1> QED
    BY <1>1, <1>2, <1>3, <1>4

\* The epochs that the chain reaches are those whose boundary block it has.
LEMMA ChainEpochsAre ==
    /\ 1 \in ChainEpochs
    /\ \A e \in ChainEpochs : e \in Nat \ {0} /\ Boundary(e) <= MaxSeq
    /\ \A e \in Nat \ {0} : Boundary(e) <= MaxSeq => e \in ChainEpochs
    /\ \A e \in ChainEpochs : e # 1 => Boundary(e) \in Seqs
    /\ IsFiniteSet(ChainEpochs)
  <1> DEFINE q == MaxSeq \div EpochLength
  <1>1. EpochLength \in Nat \ {0} /\ MaxSeq \in Nat \ {0}
    BY EpochConstants
  <1>2. q \in Nat /\ MaxSeq = EpochLength * q + (MaxSeq % EpochLength)
        /\ MaxSeq % EpochLength \in Nat /\ MaxSeq % EpochLength < EpochLength
    BY <1>1, DivMod
  <1>3. to_epoch(MaxSeq) + 1 = q + 2
    BY <1>2 DEF to_epoch
  <1> HIDE DEF q
  <1>4. Boundary(1) = -1
    BY BoundaryStep
  <1>5. ASSUME NEW e \in Nat \ {0}, Boundary(e) <= MaxSeq PROVE e <= q + 2
    <2> SUFFICES ASSUME e > q + 2 PROVE FALSE
      BY <1>2
    <2>1. Boundary(q + 2) + EpochLength <= Boundary(e)
      BY <1>2, BoundaryOrder
    <2>2. Boundary(q + 2) = (q + 1) * EpochLength - 1 /\ (q + 1) * EpochLength = EpochLength * q + EpochLength
          /\ EpochLength * q \in Nat
      BY <1>1, <1>2 DEF Boundary
    <2>3. Boundary(e) \in Int
      BY BoundaryOrder
    <2> QED
      BY <1>1, <1>2, <1>5, <2>1, <2>2, <2>3
  <1>6. ASSUME NEW e \in Nat, e >= 2 PROVE Boundary(e) >= 0 /\ Boundary(e) \in Int
    <2>1. Boundary(1) + EpochLength <= Boundary(e) /\ Boundary(e) \in Int
      BY <1>6, BoundaryOrder
    <2> QED
      BY <1>1, <1>4, <2>1
  <1>7. /\ ChainEpochs \subseteq 1..q + 2
        /\ \A e \in ChainEpochs : e = 1 \/ Boundary(e) <= MaxSeq
        /\ \A e \in 1..q + 2 : e = 1 \/ Boundary(e) <= MaxSeq => e \in ChainEpochs
    BY <1>3 DEF ChainEpochs
  <1>8. IsFiniteSet(ChainEpochs)
    <2>1. IsFiniteSet(1..q + 2)
      BY <1>2, FS_Interval
    <2> QED
      BY <1>7, <2>1, FS_Subset
  <1>9. 1 \in 1..q + 2
    BY <1>2
  <1>10. \A e \in ChainEpochs : e \in Nat \ {0} /\ Boundary(e) <= MaxSeq
    BY <1>1, <1>2, <1>4, <1>7
  <1>11. \A e \in ChainEpochs : e # 1 => Boundary(e) \in Seqs
    BY <1>1, <1>6, <1>10 DEF Seqs
  <1> QED
    BY <1>2, <1>5, <1>7, <1>8, <1>9, <1>10, <1>11

\* A boundary block fixes the epoch whose boundary block it is.
LEMMA LockedByAre ==
    ASSUME NEW from \in Nat, NEW to \in Seqs, NEW e \in LockedBy(from, to)
    PROVE  e \in ChainEpochs /\ e >= 2 /\ e \in Nat /\ from <= Boundary(e) /\ Boundary(e) <= to
  <1>1. EpochLength \in Nat \ {0} /\ MaxSeq \in Nat /\ to \in Nat /\ to <= MaxSeq
    BY EpochConstants DEF Seqs
  <1>2. PICK n \in from..to : is_boundary_block(n) /\ e = get_locked_epoch(n)
    BY DEF LockedBy
  <1>3. n \in Nat
    BY <1>1, <1>2
  <1> DEFINE q == n \div EpochLength
  <1>4. q \in Nat /\ n = EpochLength * q + (n % EpochLength)
    BY <1>1, <1>3, DivMod
  <1>5. n % EpochLength = EpochLength - 1
    BY <1>2 DEF is_boundary_block
  <1>6. e = q + 1 + 1
    BY <1>2 DEF get_locked_epoch, to_epoch
  <1> HIDE DEF q
  <1>7. (e - 1) * EpochLength = EpochLength * q + EpochLength /\ EpochLength * q \in Nat
    BY <1>1, <1>4, <1>6
  <1>8. Boundary(e) = n
    BY <1>1, <1>4, <1>5, <1>7 DEF Boundary
  <1>9. e \in Nat \ {0} /\ e >= 2
    BY <1>4, <1>6
  <1>10. e \in ChainEpochs
    BY <1>1, <1>2, <1>8, <1>9, ChainEpochsAre
  <1> QED
    BY <1>2, <1>8, <1>9, <1>10

-----------------------------------------------------------------------------
(* What a chain fixes.                                                     *)

\* Every block takes a round of its own.
LEMMA ChainGap ==
    ASSUME NEW c, ChainOK(c), NEW m \in Seqs, NEW n \in Seqs, m <= n
    PROVE  c[m] \in Nat /\ c[n] \in Nat /\ c[m] + (n - m) <= c[n]
  <1> DEFINE Good == {k \in Nat : m + k \in Seqs => c[m] + k <= c[m + k]}
  <1>1. m \in Nat /\ n \in Nat /\ n - m \in Nat /\ m + (n - m) = n /\ MaxSeq \in Nat
    BY EpochConstants DEF Seqs
  <1>2. c[m] \in Nat /\ c[n] \in Nat
    BY DEF ChainOK
  <1>3. 0 \in Good
    BY <1>1, <1>2
  <1>4. ASSUME NEW k \in Nat, k \in Good PROVE k + 1 \in Good
    <2> SUFFICES ASSUME m + (k + 1) \in Seqs PROVE c[m] + (k + 1) <= c[m + (k + 1)]
      BY <1>4
    <2>1. m + k \in Seqs /\ m + k < m + (k + 1)
      BY <1>1, <1>4 DEF Seqs
    <2>2. c[m] + k <= c[m + k]
      BY <1>4, <2>1
    <2>3. c[m + k] < c[m + (k + 1)] /\ c[m + k] \in Nat /\ c[m + (k + 1)] \in Nat
      BY <2>1 DEF ChainOK
    <2> QED
      BY <1>2, <2>2, <2>3
  <1>5. Nat \subseteq Good
    <2> HIDE DEF Good
    <2> QED BY <1>3, <1>4, NumberInduction
  <1>6. n - m \in Good
    BY <1>1, <1>5
  <1> QED
    BY <1>1, <1>2, <1>6

\* Epochs start one after the other.
LEMMA StartsGrow ==
    ASSUME NEW c, ChainOK(c), NEW e \in ChainEpochs
    PROVE  /\ StartIn(c, e) \in Nat
           /\ \A f \in ChainEpochs : e < f => StartIn(c, e) < StartIn(c, f)
  <1>1. \A f \in ChainEpochs : f \in Nat \ {0} /\ (f # 1 => Boundary(f) \in Seqs)
    BY ChainEpochsAre
  <1>2. EpochStartDelay \in Nat /\ 0 < EpochStartDelay /\ EpochLength \in Nat /\ EpochStartDelay < EpochLength
    BY EpochConstants
  <1>3. \A n \in Seqs : c[n] \in Nat
    BY DEF ChainOK
  <1>4. StartIn(c, e) \in Nat
    BY <1>1, <1>2, <1>3 DEF StartIn
  <1>5. ASSUME NEW f \in ChainEpochs, e < f PROVE StartIn(c, e) < StartIn(c, f)
    <2>1. f # 1 /\ Boundary(f) \in Seqs /\ StartIn(c, f) = c[Boundary(f)] + EpochStartDelay /\ c[Boundary(f)] \in Nat
      BY <1>1, <1>3, <1>5 DEF StartIn
    <2>2. CASE e = 1
      BY <1>2, <2>1, <2>2 DEF StartIn
    <2>3. CASE e # 1
      <3>1. Boundary(e) \in Seqs /\ StartIn(c, e) = c[Boundary(e)] + EpochStartDelay /\ c[Boundary(e)] \in Nat
        BY <1>1, <1>3, <2>3 DEF StartIn
      <3>2. Boundary(e) + EpochLength <= Boundary(f) /\ Boundary(e) \in Int /\ Boundary(f) \in Int
        BY <1>1, <1>5, BoundaryOrder
      <3>3. Boundary(e) < Boundary(f)
        BY <1>2, <3>2
      <3>4. c[Boundary(e)] < c[Boundary(f)]
        BY <2>1, <3>1, <3>3 DEF ChainOK
      <3> QED
        BY <1>2, <2>1, <3>1, <3>4
    <2> QED
      BY <2>2, <2>3
  <1> QED
    BY <1>4, <1>5

\* The epoch of a round is the last that has started.
LEMMA EpochInIs ==
    ASSUME NEW c, ChainOK(c), NEW r \in Nat
    PROVE  /\ EpochIn(c, r) \in ChainEpochs /\ EpochIn(c, r) \in Nat \ {0}
           /\ StartIn(c, EpochIn(c, r)) <= r
           /\ \A e \in ChainEpochs : StartIn(c, e) <= r => e <= EpochIn(c, r)
  <1> DEFINE T == {e \in ChainEpochs : StartIn(c, e) <= r}
  <1>1. T \subseteq ChainEpochs /\ T \in SUBSET Nat /\ IsFiniteSet(ChainEpochs)
    BY ChainEpochsAre
  <1>2. IsFiniteSet(T)
    BY <1>1, FS_Subset
  <1>3. 1 \in T
    BY ChainEpochsAre DEF StartIn
  <1>4. EpochIn(c, r) = CHOOSE x \in T : \A y \in T : x >= y
    BY DEF EpochIn, Max
  <1>5. \E x \in T : \A y \in T : y <= x
    <2> HIDE DEF T
    <2> QED BY <1>1, <1>2, <1>3, FiniteMax
  <1>6. \E x \in T : \A y \in T : x >= y
    BY <1>1, <1>5
  <1>7. EpochIn(c, r) \in T /\ \A y \in T : EpochIn(c, r) >= y
    <2> HIDE DEF T
    <2> QED BY <1>4, <1>6
  <1> QED
    BY <1>1, <1>7, ChainEpochsAre

\* A later round is not of an earlier epoch.
LEMMA EpochInMonotone ==
    ASSUME NEW c, ChainOK(c), NEW r \in Nat, NEW q \in Nat, r <= q
    PROVE  EpochIn(c, r) <= EpochIn(c, q)
  <1>1. EpochIn(c, r) \in ChainEpochs /\ StartIn(c, EpochIn(c, r)) <= r
    BY EpochInIs
  <1>2. StartIn(c, EpochIn(c, r)) \in Nat
    BY <1>1, StartsGrow
  <1>3. StartIn(c, EpochIn(c, r)) <= q
    BY <1>1, <1>2
  <1> QED
    BY <1>1, <1>3, EpochInIs

\* The block that fixes an epoch is of the epoch before, and the chain is in that
\* one from there on; a block of an epoch comes after the one that fixed it.
LEMMA EpochOfBlock ==
    ASSUME NEW c, ChainOK(c), NEW n \in Seqs, NEW e \in ChainEpochs
    PROVE  /\ c[n] \in Nat /\ EpochIn(c, c[n]) \in Nat \ {0}
           /\ Boundary(e) <= n => e - 1 <= EpochIn(c, c[n])
           /\ e <= EpochIn(c, c[n]) => Boundary(e) < n
  <1>1. c[n] \in Nat /\ n \in Nat
    BY EpochConstants DEF ChainOK, Seqs
  <1>2. e \in Nat \ {0} /\ (e # 1 => Boundary(e) \in Seqs) /\ Boundary(1) = -1 /\ Boundary(e) \in Int
        /\ Boundary(e) <= MaxSeq
    BY ChainEpochsAre, BoundaryStep
  <1>3. /\ EpochIn(c, c[n]) \in ChainEpochs /\ EpochIn(c, c[n]) \in Nat \ {0}
        /\ StartIn(c, EpochIn(c, c[n])) <= c[n]
        /\ \A f \in ChainEpochs : StartIn(c, f) <= c[n] => f <= EpochIn(c, c[n])
    BY <1>1, EpochInIs
  <1>4. /\ EpochStartDelay \in Nat /\ 0 < EpochStartDelay /\ EpochLength \in Nat
        /\ EpochStartDelay < EpochLength /\ MaxSeq \in Nat
    BY EpochConstants
  <1>5. ASSUME Boundary(e) <= n PROVE e - 1 <= EpochIn(c, c[n])
    <2>1. CASE e <= 2
      BY <1>2, <1>3, <2>1
    <2>2. CASE e > 2
      <3>1. PICK f \in Nat \ {0} : f + 1 = e /\ f # 1
        <4>1. e - 1 \in Nat \ {0} /\ (e - 1) + 1 = e /\ e - 1 # 1
          BY <1>2, <2>2
        <4> QED
          BY <4>1
      <3>2. Boundary(e) = Boundary(f) + EpochLength /\ Boundary(f) \in Int
        BY <3>1, BoundaryStep
      <3>3. f \in ChainEpochs
        BY <1>2, <1>4, <3>1, <3>2, ChainEpochsAre
      <3>4. Boundary(f) \in Seqs /\ StartIn(c, f) = c[Boundary(f)] + EpochStartDelay
        BY <3>1, <3>3, ChainEpochsAre DEF StartIn
      <3>5. Boundary(f) <= n /\ n - Boundary(f) >= EpochLength
        BY <1>1, <1>4, <1>5, <3>2
      <3>6. c[Boundary(f)] \in Nat /\ c[Boundary(f)] + (n - Boundary(f)) <= c[n]
        BY <3>4, <3>5, ChainGap
      <3>7. StartIn(c, f) <= c[n]
        BY <1>1, <1>4, <3>2, <3>4, <3>5, <3>6
      <3> QED
        BY <1>3, <3>1, <3>3, <3>7
    <2> QED
      BY <1>2, <2>1, <2>2
  <1>6. ASSUME e <= EpochIn(c, c[n]) PROVE Boundary(e) < n
    <2>1. CASE e = 1
      BY <1>1, <1>2, <2>1
    <2>2. CASE e # 1
      <3>1. StartIn(c, e) \in Nat /\ StartIn(c, EpochIn(c, c[n])) \in Nat
        BY <1>3, StartsGrow
      <3>2. StartIn(c, e) <= StartIn(c, EpochIn(c, c[n]))
        <4>1. CASE e = EpochIn(c, c[n])
          BY <3>1, <4>1
        <4>2. CASE e < EpochIn(c, c[n])
          BY <1>3, <3>1, <4>2, StartsGrow
        <4> QED
          BY <1>2, <1>3, <1>6, <4>1, <4>2
      <3>3. StartIn(c, e) = c[Boundary(e)] + EpochStartDelay /\ Boundary(e) \in Seqs /\ c[Boundary(e)] \in Nat
        BY <1>2, <2>2 DEF StartIn, ChainOK
      <3>4. c[Boundary(e)] < c[n]
        BY <1>1, <1>3, <1>4, <3>1, <3>2, <3>3
      <3>5. ~(n <= Boundary(e))
        <4> SUFFICES ASSUME n <= Boundary(e) PROVE FALSE
          OBVIOUS
        <4>1. c[n] <= c[Boundary(e)]
          <5>1. c[n] + (Boundary(e) - n) <= c[Boundary(e)]
            BY <3>3, ChainGap
          <5> QED
            BY <1>1, <1>2, <3>3, <5>1
        <4> QED
          BY <1>1, <3>3, <3>4, <4>1
      <3> QED
        BY <1>1, <1>2, <3>5
    <2> QED
      BY <2>1, <2>2
  <1> QED
    BY <1>1, <1>3, <1>5, <1>6

\* The definitions of the module at the chain of the current state.
LEMMA OfChain ==
    /\ \A e : EpochStart(e) = StartIn(chain, e)
    /\ \A r : EpochOf(r) = EpochIn(chain, r)
  BY DEF EpochStart, StartIn, EpochOf, EpochIn

-----------------------------------------------------------------------------
(* The first state.                                                        *)

\* The members of a set of rounds below r.
Below(S, r) == {x \in S : x < r}

\* A finite set of rounds has one with n below it, for every n less than its size.
LEMMA RankExists ==
    ASSUME NEW S \in SUBSET Nat, IsFiniteSet(S), NEW n \in Nat, n < Cardinality(S)
    PROVE  \E r \in S : Cardinality(Below(S, r)) = n
  <1> DEFINE Good == {k \in Nat : k < Cardinality(S) => \E r \in S : Cardinality(Below(S, r)) = k}
  <1>0. \A x \in S : x \in Nat
    OBVIOUS
  <1>1. Cardinality(S) \in Nat
    BY FS_CardinalityType
  <1>2. 0 \in Good
    <2> SUFFICES ASSUME 0 < Cardinality(S) PROVE \E r \in S : Cardinality(Below(S, r)) = 0
      OBVIOUS
    <2>1. S # {}
      BY <1>1, FS_EmptySet
    <2>2. PICK r \in S : \A m \in S : r <= m
      BY <2>1, NatMin
    <2>3. Below(S, r) = {}
      <3>1. \A x \in S : ~(x < r)
        BY <1>0, <2>2
      <3> QED
        BY <3>1 DEF Below
    <2> QED
      BY <2>3, FS_EmptySet
  <1>3. ASSUME NEW k \in Nat, k \in Good PROVE k + 1 \in Good
    <2> SUFFICES ASSUME k + 1 < Cardinality(S) PROVE \E r \in S : Cardinality(Below(S, r)) = k + 1
      BY <1>3
    <2>1. PICK r \in S : Cardinality(Below(S, r)) = k
      BY <1>1, <1>3
    <2>2. Below(S, r) \subseteq S /\ IsFiniteSet(Below(S, r)) /\ r \notin Below(S, r)
      BY FS_Subset DEF Below
    <2>3. /\ IsFiniteSet(Below(S, r) \cup {r})
          /\ Cardinality(Below(S, r) \cup {r}) = k + 1
      BY <2>1, <2>2, FS_AddElement
    <2> DEFINE T == {x \in S : r < x}
    <2>4. T # {}
      <3> SUFFICES ASSUME T = {} PROVE FALSE
        OBVIOUS
      <3>1. \A x \in S : ~(r < x)
        OBVIOUS
      <3>2. \A x \in S : x \in Below(S, r) \cup {r}
        BY <1>0, <3>1 DEF Below
      <3>3. S = Below(S, r) \cup {r}
        BY <2>2, <3>2
      <3> QED
        BY <2>3, <3>3, <1>1
    <2>5. PICK q \in T : \A m \in T : q <= m
      <3>1. T \in SUBSET Nat
        OBVIOUS
      <3> HIDE DEF T
      <3> QED BY <2>4, <3>1, NatMin
    <2>6. Below(S, q) = Below(S, r) \cup {r}
      <3>1. q \in S /\ r < q /\ q \in Nat /\ r \in Nat
        BY <1>0, <2>5
      <3>2. \A x \in S : r < x => q <= x
        BY <2>5
      <3>3. \A x \in S : x < q <=> x < r \/ x = r
        BY <1>0, <3>1, <3>2
      <3> QED
        BY <3>1, <3>3 DEF Below
    <2> QED
      BY <2>3, <2>5, <2>6
  <1>4. Nat \subseteq Good
    <2> HIDE DEF Good
    <2> QED BY <1>2, <1>3, NumberInduction
  <1> QED
    BY <1>4

\* The chain that Init lists from a set of rounds starts at 0 and grows.
LEMMA InitChain ==
    ASSUME NEW c, NEW R \in kSubset(MaxSeq, 1..MaxRound),
           c = [n \in Seqs |-> CHOOSE r \in R \cup {0} : Cardinality({x \in R \cup {0} : x < r}) = n]
    PROVE  ChainOK(c)
  <1> DEFINE S == R \cup {0}
  <1>1. R \in SUBSET (1..MaxRound) /\ Cardinality(R) = MaxSeq
    BY DEF kSubset
  <1>2. MaxRound \in Nat /\ MaxSeq \in Nat /\ IsFiniteSet(1..MaxRound)
    BY EpochConstants, FS_Interval
  <1>3. IsFiniteSet(R) /\ 0 \notin R
    <2>1. IsFiniteSet(R)
      BY <1>1, <1>2, FS_Subset
    <2>2. 0 \notin 1..MaxRound
      BY <1>2
    <2> QED
      BY <1>1, <2>1, <2>2
  <1>4. IsFiniteSet(S) /\ Cardinality(S) = MaxSeq + 1 /\ S \in SUBSET Nat /\ 0 \in S
    BY <1>1, <1>2, <1>3, FS_AddElement
  <1>5. c = [n \in Seqs |-> CHOOSE r \in S : Cardinality(Below(S, r)) = n]
    BY DEF Below
  <1> HIDE DEF S
  <1>6. ASSUME NEW n \in Seqs PROVE c[n] \in S /\ Cardinality(Below(S, c[n])) = n
    <2>1. n \in Nat /\ n < Cardinality(S)
      BY <1>2, <1>4 DEF Seqs
    <2>2. \E r \in S : Cardinality(Below(S, r)) = n
      BY <1>4, <2>1, RankExists
    <2>3. c[n] = CHOOSE r \in S : Cardinality(Below(S, r)) = n
      BY <1>5
    <2> QED
      BY <2>2, <2>3
  <1>7. c \in [Seqs -> Nat]
    BY <1>4, <1>5, <1>6
  <1>8. ASSUME NEW m \in Seqs, NEW n \in Seqs, m < n PROVE c[m] < c[n]
    <2> SUFFICES ASSUME ~(c[m] < c[n]) PROVE FALSE
      OBVIOUS
    <2>1. c[m] \in Nat /\ c[n] \in Nat
      BY <1>7
    <2>2. Below(S, c[n]) \subseteq Below(S, c[m])
      <3>1. \A x \in S : x \in Nat
        BY <1>4
      <3>2. \A x \in S : x < c[n] => x < c[m]
        BY <2>1, <3>1
      <3> QED
        BY <3>2 DEF Below
    <2>3. IsFiniteSet(Below(S, c[m]))
      BY <1>4, FS_Subset DEF Below
    <2>4. Cardinality(Below(S, c[n])) <= Cardinality(Below(S, c[m]))
      BY <2>2, <2>3, FS_Subset
    <2> QED
      BY <1>2, <1>6, <1>8, <2>4 DEF Seqs
  <1>9. c[0] = 0
    <2> SUFFICES ASSUME c[0] # 0 PROVE FALSE
      OBVIOUS
    <2>1. 0 \in Seqs /\ c[0] \in Nat /\ Cardinality(Below(S, c[0])) = 0
      BY <1>6, <1>7, EpochConstants
    <2>2. 0 \in Below(S, c[0])
      BY <1>4, <2>1 DEF Below
    <2>3. IsFiniteSet(Below(S, c[0]))
      BY <1>4, FS_Subset DEF Below
    <2> QED
      BY <2>1, <2>2, <2>3, FS_EmptySet
  <1> QED
    BY <1>7, <1>8, <1>9 DEF ChainOK

\* A node can start from the genesis forkpoint.
LEMMA GenesisForkpoint ==
    ASSUME NEW c, ChainOK(c)
    PROVE  /\ ForkpointOK(c, [root |-> 0, high |-> 0, sets |-> [e \in {1} |-> 0]])
           /\ StartsOK(c, [e \in {1} |-> 0])
  <1> DEFINE f == [root |-> 0, high |-> 0, sets |-> [e \in {1} |-> 0]]
  <1>1. 0 \in Seqs /\ c[0] = 0
    BY EpochConstants DEF ChainOK
  <1>2. /\ EpochIn(c, 0) \in ChainEpochs /\ EpochIn(c, 0) \in Nat \ {0}
        /\ StartIn(c, EpochIn(c, 0)) <= 0
    BY EpochInIs
  <1>3. 1 \in ChainEpochs /\ StartIn(c, 1) = 0
    BY ChainEpochsAre DEF StartIn
  <1>4. EpochIn(c, 0) = 1
    <2> SUFFICES ASSUME 1 < EpochIn(c, 0) PROVE FALSE
      BY <1>2
    <2>1. StartIn(c, 1) < StartIn(c, EpochIn(c, 0)) /\ StartIn(c, EpochIn(c, 0)) \in Nat
      BY <1>2, <1>3, StartsGrow
    <2> QED
      BY <1>2, <1>3, <2>1
  <1>5. StartsOK(c, [e \in {1} |-> 0])
    BY <1>3 DEF StartsOK
  <1>6. Boundary(1) <= 0
    BY BoundaryStep
  <1> QED
    BY <1>1, <1>4, <1>5, <1>6 DEF ForkpointOK

\* The invariant holds before the first start.
LEMMA EpochsInit == Init => EpochsInv
  <1> SUFFICES ASSUME Init PROVE EpochsInv
    OBVIOUS
  <1>1. ChainOK(chain)
    BY InitChain DEF Init
  <1>2. /\ disk.forkpoint = [root |-> 0, high |-> 0, sets |-> [e \in {1} |-> 0]]
        /\ node.starts = [e \in {1} |-> 0]
        /\ node.status = "down"
    BY DEF Init
  <1>3. ForkpointOK(chain, disk.forkpoint) /\ StartsOK(chain, node.starts)
    BY <1>1, <1>2, GenesisForkpoint
  <1>4. EpochsType
    BY EpochConstants DEF Init, EpochsType, Statuses
  <1>5. ~Running
    BY <1>2 DEF Running
  <1> QED
    BY <1>1, <1>3, <1>4, <1>5 DEF EpochsInv

-----------------------------------------------------------------------------
(* The view of a running node.                                             *)

\* The root's epoch and the one of the high certificate are among those whose
\* validators the node has, and not far from the newest.
LEMMA ViewFacts ==
    ASSUME NEW c, ChainOK(c), NEW s, s.root \in Seqs, s.high \in Nat, NEW asked,
           NEW lo \in ChainEpochs, NEW v \in ChainEpochs, NEW hi \in ChainEpochs, ViewOK(c, s, asked, lo, v, hi)
    PROVE  /\ EpochIn(c, c[s.root]) \in lo..v
           /\ EpochIn(c, s.high) \in lo..v
           /\ v - 1 <= EpochIn(c, c[s.root]) /\ hi - 1 <= EpochIn(c, c[s.root])
           /\ EpochIn(c, s.high) \in {EpochIn(c, c[s.root]), EpochIn(c, c[s.root]) + 1}
           /\ \A e \in lo..hi : e \in ChainEpochs /\ Boundary(e) <= s.root
           /\ c[s.root] \in Nat
  <1>1. c[s.root] \in Nat /\ c[s.root] <= s.high /\ s.root \in Nat /\ s.root <= MaxSeq /\ MaxSeq \in Nat
    BY EpochConstants DEF ChainOK, ViewOK, Seqs
  <1>2. EpochIn(c, c[s.root]) \in Nat \ {0} /\ EpochIn(c, s.high) \in Nat \ {0} /\ EpochIn(c, s.high) \in ChainEpochs
    BY <1>1, EpochInIs
  <1>3. EpochIn(c, c[s.root]) <= EpochIn(c, s.high)
    BY <1>1, EpochInMonotone
  <1>4. /\ lo \in Nat \ {0} /\ v \in Nat /\ hi \in Nat /\ lo <= v /\ v <= hi /\ Boundary(hi) <= s.root
        /\ lo <= EpochIn(c, c[s.root]) /\ EpochIn(c, s.high) <= v
    BY DEF ViewOK
  <1>5. \A e \in lo..hi : e \in Nat \ {0} /\ Boundary(e) \in Int /\ Boundary(hi) \in Int /\ Boundary(e) <= Boundary(hi)
    BY <1>4, BoundaryOrder
  <1>6. \A e \in lo..hi : e \in ChainEpochs /\ Boundary(e) <= s.root
    BY <1>1, <1>4, <1>5, ChainEpochsAre
  <1>7. \A e \in lo..hi : e - 1 <= EpochIn(c, c[s.root])
    BY <1>6, EpochOfBlock
  <1>8. v \in lo..hi /\ hi \in lo..hi /\ EpochIn(c, s.high) \in lo..hi
    BY <1>2, <1>3, <1>4
  <1>9. v - 1 <= EpochIn(c, c[s.root]) /\ hi - 1 <= EpochIn(c, c[s.root])
        /\ EpochIn(c, s.high) - 1 <= EpochIn(c, c[s.root])
    BY <1>7, <1>8
  <1> QED
    BY <1>1, <1>2, <1>3, <1>4, <1>6, <1>9

\* Blocks that a certificate of a known epoch commits fix at most one new epoch,
\* the one after the newest, and only when its predecessor's validators are known.
LEMMA NewLocked ==
    ASSUME NEW c, ChainOK(c), NEW s, s.root \in Seqs, s.high \in Nat, NEW asked,
           NEW lo \in ChainEpochs, NEW v \in ChainEpochs, NEW hi \in ChainEpochs, ViewOK(c, s, asked, lo, v, hi),
           NEW n \in Seqs, NEW r \in Nat, s.root <= n, c[n] < r, EpochIn(c, r) <= v,
           NEW from \in Nat, from = s.root + 1, NEW e \in LockedBy(from, n)
    PROVE  hi = v /\ e = v + 1
  <1>1. s.root + 1 \in Nat /\ s.root \in Nat
    BY DEF Seqs
  <1>2. e \in ChainEpochs /\ e \in Nat /\ s.root + 1 <= Boundary(e) /\ Boundary(e) <= n
    BY <1>1, LockedByAre
  <1>3. c[n] \in Nat /\ EpochIn(c, c[n]) \in Nat /\ e - 1 <= EpochIn(c, c[n])
    BY <1>2, EpochOfBlock
  <1>4. EpochIn(c, c[n]) <= EpochIn(c, r) /\ EpochIn(c, r) \in Nat
    BY <1>3, EpochInMonotone, EpochInIs
  <1>5. v \in Nat /\ hi \in {v, v + 1} /\ Boundary(hi) <= s.root
    BY DEF ViewOK
  <1>6. ~(e <= hi)
    <2> SUFFICES ASSUME e <= hi PROVE FALSE
      OBVIOUS
    <2>1. Boundary(e) <= Boundary(hi) /\ Boundary(e) \in Int /\ Boundary(hi) \in Int
      BY <1>2, <1>5, BoundaryOrder
    <2> QED
      BY <1>1, <1>2, <1>5, <2>1
  <1> QED
    BY <1>2, <1>3, <1>4, <1>5, <1>6

\* The greater of two numbers.
LEMMA MaxOfTwo ==
    ASSUME NEW a \in Int, NEW b \in Int
    PROVE  Max({a, b}) \in Int /\ Max({a, b}) >= a /\ Max({a, b}) >= b
  <1>1. \E x \in {a, b} : \A y \in {a, b} : x >= y
    OBVIOUS
  <1>2. Max({a, b}) \in {a, b} /\ \A y \in {a, b} : Max({a, b}) >= y
    BY <1>1, Zenon DEF Max
  <1> QED
    BY <1>2

\* The blocks that a start commits again fix the root's epoch or the next, if any.
LEMMA Recommitted ==
    ASSUME NEW c, ChainOK(c), NEW s, s.root \in Seqs, s.high \in Nat, NEW asked,
           NEW lo \in ChainEpochs, NEW v \in ChainEpochs, NEW hi \in ChainEpochs, ViewOK(c, s, asked, lo, v, hi),
           NEW e \in LockedBy(Max({1, s.root - 2 * ExecutionDelay + 1}), s.root)
    PROVE  e \in lo..v + 1 /\ e \in ChainEpochs /\ Boundary(e) <= s.root
  <1> DEFINE from == Max({1, s.root - 2 * ExecutionDelay + 1})
             base == EpochIn(c, c[s.root])
  <1>1. /\ s.root \in Nat /\ s.root <= MaxSeq /\ MaxSeq \in Nat /\ ExecutionDelay \in Nat /\ EpochLength \in Nat
        /\ 2 * ExecutionDelay < EpochLength
    BY EpochConstants DEF Seqs
  <1>2. from \in Nat /\ s.root - 2 * ExecutionDelay + 1 <= from
    <2>1. s.root - 2 * ExecutionDelay + 1 \in Int /\ 1 \in Int
      BY <1>1
    <2>2. from \in Int /\ from >= 1 /\ from >= s.root - 2 * ExecutionDelay + 1
      BY <2>1, MaxOfTwo
    <2> HIDE DEF from
    <2> QED
      BY <1>1, <2>2
  <1>3. e \in LockedBy(from, s.root)
    OBVIOUS
  <1> HIDE DEF from
  <1>4. e \in ChainEpochs /\ e \in Nat /\ from <= Boundary(e) /\ Boundary(e) <= s.root
    BY <1>2, <1>3, LockedByAre
  <1>5. base \in lo..v /\ base \in Nat /\ base \in ChainEpochs
    <2>1. base \in lo..v /\ c[s.root] \in Nat
      BY ViewFacts
    <2> QED
      BY <2>1, EpochInIs
  <1>6. e - 1 <= base
    BY <1>4, EpochOfBlock
  <1>7. lo \in Nat /\ v \in Nat
    BY DEF ViewOK
  <1>8. ~(e + 1 <= base)
    <2> SUFFICES ASSUME e + 1 <= base PROVE FALSE
      OBVIOUS
    <2> HIDE DEF base
    <2>1. Boundary(e + 1) = Boundary(e) + EpochLength /\ Boundary(e) \in Int
      BY <1>4, BoundaryStep
    <2>2. Boundary(e + 1) <= Boundary(base) /\ Boundary(base) \in Int
      BY <1>4, <1>5, BoundaryOrder
    <2>3. Boundary(base) < s.root
      <3>1. base <= EpochIn(c, c[s.root])
        BY <1>5 DEF base
      <3> QED
        BY <1>5, <3>1, EpochOfBlock
    <2> QED
      BY <1>1, <1>2, <1>4, <2>1, <2>2, <2>3
  <1> HIDE DEF base
  <1> QED
    BY <1>4, <1>5, <1>6, <1>7, <1>8

\* An interval of epochs with at most the next one more.
LEMMA IntervalGrows ==
    ASSUME NEW lo \in Nat, NEW hi \in Nat, lo <= hi, NEW K, K \subseteq lo..hi + 1
    PROVE  (lo..hi) \cup K = lo..(IF hi + 1 \in K THEN hi + 1 ELSE hi)
  <1>1. CASE hi + 1 \in K
    <2>1. \A e : e \in lo..hi + 1 <=> e \in lo..hi \/ e = hi + 1
      OBVIOUS
    <2> QED
      BY <1>1, <2>1
  <1>2. CASE hi + 1 \notin K
    <2>1. \A e : e \in lo..hi + 1 <=> e \in lo..hi \/ e = hi + 1
      OBVIOUS
    <2> QED
      BY <1>2, <2>1
  <1> QED
    BY <1>1, <1>2

IsNode(s) ==
    s = [status |-> s.status, root |-> s.root, high |-> s.high, starts |-> s.starts,
         vals |-> s.vals, last |-> s.last, saved |-> s.saved]

\* schedule_epoch_start adds the epochs its blocks fix, with their starts, and
\* meets no other start round for an epoch it knows.
LEMMA Schedules ==
    ASSUME ChainOK(chain), NEW s, IsNode(s), StartsOK(chain, s.starts), NEW from \in Nat, NEW to \in Seqs,
           NEW u, u = schedule_epoch_start(s, from, to)
    PROVE  /\ IsNode(u) /\ u.status = s.status /\ u.root = s.root /\ u.high = s.high
           /\ u.vals = s.vals /\ u.last = s.last /\ u.saved = s.saved
           /\ DOMAIN u.starts = DOMAIN s.starts \cup LockedBy(from, to)
           /\ StartsOK(chain, u.starts)
  <1> DEFINE due == [e \in LockedBy(from, to) |-> chain[Boundary(e)] + EpochStartDelay]
             all == [e \in DOMAIN s.starts \cup DOMAIN due |-> IF e \in DOMAIN s.starts THEN s.starts[e] ELSE due[e]]
             t == [s EXCEPT !.starts = all]
  <1>1. \A e \in LockedBy(from, to) : e \in ChainEpochs /\ e # 1
    BY LockedByAre
  <1>2. \A e \in DOMAIN due : due[e] = StartIn(chain, e)
    BY <1>1 DEF StartIn
  <1>3. ~ \E e \in DOMAIN due \cap DOMAIN s.starts : due[e] # s.starts[e]
    BY <1>2 DEF StartsOK
  <1>4. schedule_epoch_start(s, from, to) = t
    BY <1>3 DEF schedule_epoch_start
  <1>5. DOMAIN all = DOMAIN s.starts \cup LockedBy(from, to)
    OBVIOUS
  <1>6. StartsOK(chain, all)
    BY <1>1, <1>2 DEF StartsOK
  <1> HIDE DEF all
  <1>7. IsNode(t) /\ t.status = s.status /\ t.root = s.root /\ t.high = s.high
               /\ t.vals = s.vals /\ t.last = s.last /\ t.saved = s.saved /\ t.starts = all
    BY DEF IsNode
  <1> QED
    BY <1>4, <1>5, <1>6, <1>7

\* What checkpoint writes is a forkpoint a node can start from.
LEMMA CheckpointOK ==
    ASSUME ChainOK(chain), NEW s, s.root \in Seqs, s.high \in Nat, StartsOK(chain, s.starts), NEW asked,
           NEW lo \in ChainEpochs, NEW v \in ChainEpochs, NEW hi \in ChainEpochs, ViewOK(chain, s, asked, lo, v, hi)
    PROVE  LET w == WriteForkpoint(checkpoint(s))
           IN  /\ checkpoint(s).possible
               /\ w.file = "forkpoint" /\ w.root = s.root /\ w = WriteForkpoint(w)
               /\ DOMAIN w.sets \subseteq lo..v
               /\ ForkpointOK(chain, w)
  <1> DEFINE base == EpochIn(chain, chain[s.root])
             locked == {e \in {base, base + 1} : e \in s.vals /\ e \in DOMAIN s.starts}
             sets == [e \in locked |-> s.starts[e]]
             w == [file |-> "forkpoint", root |-> s.root, high |-> s.high, sets |-> sets]
  <1>1. checkpoint(s) = [possible |-> base \in locked, root |-> s.root, high |-> s.high, sets |-> sets]
    BY OfChain DEF checkpoint
  <1>2. WriteForkpoint(checkpoint(s)) = w
    BY <1>1 DEF WriteForkpoint
  <1>3. /\ base \in lo..v
        /\ EpochIn(chain, s.high) \in lo..v
        /\ EpochIn(chain, s.high) \in {base, base + 1}
        /\ \A e \in lo..hi : e \in ChainEpochs /\ Boundary(e) <= s.root
    BY ViewFacts
  <1>4. /\ lo \in Nat /\ v \in Nat /\ hi \in Nat /\ v <= hi /\ s.vals = lo..v /\ DOMAIN s.starts = lo..hi
        /\ chain[s.root] <= s.high
    BY DEF ViewOK
  <1> HIDE DEF base
  <1>5. locked \subseteq lo..v /\ lo..v \subseteq lo..hi
    BY <1>4
  <1>6. base \in locked /\ EpochIn(chain, s.high) \in locked /\ (locked = {base} \/ locked = {base, base + 1})
    BY <1>3, <1>4, <1>5
  <1> HIDE DEF locked
  <1>7. StartsOK(chain, sets)
    BY <1>3, <1>4, <1>5 DEF StartsOK
  <1>8. DOMAIN sets = locked
    OBVIOUS
  <1> HIDE DEF sets
  <1>9. \A e \in DOMAIN sets : Boundary(e) <= s.root
    BY <1>3, <1>5, <1>8
  <1>10. w.root = s.root /\ w.high = s.high /\ w.sets = sets /\ w.file = "forkpoint"
    OBVIOUS
  <1>11. ForkpointOK(chain, w)
    BY <1>4, <1>6, <1>7, <1>8, <1>9, <1>10 DEF ForkpointOK, base
  <1>12. w = WriteForkpoint(w)
    BY DEF WriteForkpoint
  <1>13. checkpoint(s).possible
    <2>1. (base \in locked) = TRUE
      BY <1>6
    <2>2. checkpoint(s) = [possible |-> TRUE, root |-> s.root, high |-> s.high, sets |-> sets]
      BY <1>1, <2>1, Zenon
    <2> QED
      BY <2>2
  <1> HIDE DEF w
  <1> QED
    BY <1>2, <1>5, <1>8, <1>10, <1>11, <1>12, <1>13

-----------------------------------------------------------------------------
(* Steps.                                                                  *)

\* The parts of the invariant that hold at all times, and those of a running node.
AlwaysOK(c, s, d) ==
    /\ IsNode(s)
    /\ s.status \in Statuses /\ s.root \in Seqs /\ s.high \in Nat /\ s.last \in Nat /\ s.saved \in BOOLEAN
    /\ d = [forkpoint |-> d.forkpoint, file |-> d.file]
    /\ ChainOK(c) /\ StartsOK(c, s.starts) /\ ForkpointOK(c, d.forkpoint)

WritesOK(c, w) == \A i \in DOMAIN w : w[i].file = "forkpoint" => ForkpointOK(c, w[i])

\* The invariant in terms of the parts that a step may change on their own.
LEMMA InvIs ==
    EpochsInv <=> /\ AlwaysOK(chain, node, disk)
                  /\ Running => /\ WritesOK(chain, writes)
                                /\ \E lo, v, hi \in ChainEpochs :
                                     /\ ViewOK(chain, node, requests, lo, v, hi)
                                     /\ Pending(node, writes, disk.file, lo, v)
                                     /\ FilesOK(chain, node, writes, disk, lo, v)
  BY DEF EpochsInv, EpochsType, AlwaysOK, WritesOK, IsNode

\* The same after a step.
LEMMA InvIsNext ==
    EpochsInv' <=> /\ AlwaysOK(chain', node', disk')
                   /\ Running' => /\ WritesOK(chain', writes')
                                  /\ \E lo, v, hi \in ChainEpochs :
                                       /\ ViewOK(chain', node', requests', lo, v, hi)
                                       /\ Pending(node', writes', disk'.file, lo, v)
                                       /\ FilesOK(chain', node', writes', disk', lo, v)
  BY DEF EpochsInv, EpochsType, AlwaysOK, WritesOK, IsNode, ViewOK, Pending, FilesOK, ForkpointOK, StartsOK, ChainOK

\* A node that died or gave up only has to keep what holds at all times.
LEMMA Stopped ==
    ASSUME NEW s, AlwaysOK(chain, s, disk), NEW why \in Statuses \ {"sync", "live"},
           chain' = chain, node' = Panic(s, why), disk' = disk
    PROVE  EpochsInv'
  <1>1. AlwaysOK(chain', node', disk')
    BY DEF AlwaysOK, IsNode, Panic
  <1>2. ~Running'
    BY DEF AlwaysOK, IsNode, Panic, Running
  <1> QED
    BY <1>1, <1>2, InvIsNext

\* A crash leaves the chain and the files, which is all that counts while the node is down.
LEMMA CrashStep == ASSUME EpochsInv, Crash PROVE EpochsInv'
  <1>1. chain' = chain /\ node' = Panic(node, "down") /\ disk' = disk
    BY DEF Crash
  <1>2. "down" \in Statuses \ {"sync", "live"}
    BY DEF Statuses
  <1> QED
    BY <1>1, <1>2, InvIs, Stopped

\* A commit schedules at most the next epoch, which the node asks for, and its
\* checkpoint lists epochs whose validators are in the file.
LEMMA HandleCertificateStep ==
    ASSUME EpochsInv, NEW r \in Rounds, NEW n \in Seqs, HandleCertificate(r, n)
    PROVE  EpochsInv'
  <1>1. AlwaysOK(chain, node, disk) /\ node.status = "live" /\ writes = <<>> /\ Running
    BY InvIs DEF HandleCertificate, Idle, Running
  <1>2. PICK lo, v, hi \in ChainEpochs :
           /\ ViewOK(chain, node, requests, lo, v, hi)
           /\ Pending(node, writes, disk.file, lo, v)
           /\ FilesOK(chain, node, writes, disk, lo, v)
    BY <1>1, InvIs
  <1>3. /\ IsNode(node) /\ node.root \in Seqs /\ node.high \in Nat /\ ChainOK(chain)
        /\ StartsOK(chain, node.starts) /\ r \in Nat /\ node.root \in Nat /\ n \in Nat
    BY <1>1, EpochConstants DEF AlwaysOK, Rounds, Seqs
  <1>4. /\ EpochIn(chain, r) \in node.vals /\ n >= node.root /\ chain[n] < r
        /\ chain' = chain /\ disk' = disk
    BY OfChain DEF HandleCertificate, CanVerify
  <1>5. /\ lo \in Nat \ {0} /\ v \in Nat /\ hi \in {v, v + 1} /\ lo <= v /\ node.vals = lo..v
        /\ DOMAIN node.starts = lo..hi /\ requests \subseteq lo..hi /\ Boundary(hi) <= node.root
        /\ lo <= EpochIn(chain, chain[node.root])
    BY <1>2 DEF ViewOK
  <1>6. EpochIn(chain, r) <= v /\ EpochIn(chain, r) \in Nat
    BY <1>4, <1>5
  <1>10. PICK from \in Nat : from = node.root + 1
    BY <1>3
  <1> DEFINE K == LockedBy(from, n)
             hi2 == IF hi + 1 \in K THEN hi + 1 ELSE hi
  <1>7. PICK s : s = [node EXCEPT !.high = r, !.root = n]
    OBVIOUS
  <1>8. /\ IsNode(s) /\ s.status = "live" /\ s.root = n /\ s.high = r /\ s.starts = node.starts
        /\ s.vals = node.vals /\ s.last = node.last /\ s.saved = node.saved
    BY <1>1, <1>3, <1>7 DEF IsNode
  <1>9. PICK t : t = schedule_epoch_start(s, from, n)
    OBVIOUS
  <1>11. /\ IsNode(t) /\ t.status = "live" /\ t.root = n /\ t.high = r
         /\ t.vals = lo..v /\ t.last = node.last /\ t.saved = node.saved
         /\ DOMAIN t.starts = (lo..hi) \cup K
         /\ StartsOK(chain, t.starts)
    <2>1. ChainOK(chain) /\ IsNode(s) /\ StartsOK(chain, s.starts)
      BY <1>3, <1>8
    <2>2. t = schedule_epoch_start(s, from, n)
      BY <1>9
    <2>3. /\ IsNode(t) /\ t.status = s.status /\ t.root = s.root /\ t.high = s.high
          /\ t.vals = s.vals /\ t.last = s.last /\ t.saved = s.saved
          /\ DOMAIN t.starts = DOMAIN s.starts \cup LockedBy(from, n)
          /\ StartsOK(chain, t.starts)
      BY <2>1, <2>2, Schedules
    <2> QED
      BY <1>5, <1>8, <2>3
  <1>12. \A e \in K : hi = v /\ e = v + 1 /\ e \in ChainEpochs /\ Boundary(e) <= n
    <2>1. ASSUME NEW e \in K PROVE hi = v /\ e = v + 1
      <3>1. node.root <= n
        BY <1>3, <1>4
      <3>2. e \in LockedBy(from, n)
        OBVIOUS
      <3> QED
        BY <1>2, <1>3, <1>4, <1>6, <1>10, <3>1, <3>2, NewLocked
    <2> QED
      BY <1>3, <1>10, <2>1, LockedByAre
  <1> HIDE DEF K
  <1>13. K \subseteq lo..hi + 1
    BY <1>5, <1>12
  <1>14. hi2 \in ChainEpochs /\ hi2 \in {v, v + 1} /\ (lo..hi) \cup K = lo..hi2 /\ Boundary(hi2) <= n
    <2>1. hi \in Nat /\ lo <= hi /\ lo \in Nat
      BY <1>5
    <2>2. (lo..hi) \cup K = lo..hi2
      BY <1>13, <2>1, IntervalGrows
    <2>3. Boundary(hi) \in Int
      BY <2>1, BoundaryStep
    <2>4. Boundary(hi) <= n
      BY <1>3, <1>4, <1>5, <2>3
    <2> QED
      BY <1>5, <1>12, <2>2, <2>4
  <1> HIDE DEF hi2
  <1>15. ViewOK(chain, t, requests \cup K, lo, v, hi2)
    <2>1. requests \cup K \subseteq lo..hi2
      BY <1>5, <1>14
    <2>2. chain[node.root] \in Nat /\ chain[n] \in Nat /\ chain[node.root] <= chain[n]
      <3>1. chain[node.root] \in Nat /\ chain[n] \in Nat /\ chain[node.root] + (n - node.root) <= chain[n]
        BY <1>3, <1>4, ChainGap
      <3> QED
        BY <1>3, <1>4, <3>1
    <2>3. EpochIn(chain, chain[node.root]) <= EpochIn(chain, chain[n])
      BY <1>3, <2>2, EpochInMonotone
    <2>4. EpochIn(chain, chain[node.root]) \in Nat /\ EpochIn(chain, chain[n]) \in Nat
      BY <1>3, <2>2, EpochInIs
    <2>5. lo <= EpochIn(chain, chain[n]) /\ chain[n] <= r
      BY <1>3, <1>4, <1>5, <2>2, <2>3, <2>4
    <2> QED
      BY <1>5, <1>6, <1>11, <1>14, <2>1, <2>5 DEF ViewOK
  <1>16. PICK w : w = WriteForkpoint(checkpoint(t))
    OBVIOUS
  <1>17. /\ checkpoint(t).possible
         /\ w.file = "forkpoint" /\ w.root = n /\ w = WriteForkpoint(w)
         /\ DOMAIN w.sets \subseteq lo..v
         /\ ForkpointOK(chain, w)
    <2>1. t.root \in Seqs /\ t.high \in Nat
      BY <1>3, <1>11
    <2> QED
      BY <1>3, <1>11, <1>14, <1>15, <1>16, <2>1, CheckpointOK
  <1>18. \/ node' = t /\ writes' = <<w>> /\ requests' = requests \cup K
         \/ node' = Panic(t, "no_leader")
    BY <1>1, <1>7, <1>9, <1>10, <1>11, <1>16, <1>17 DEF HandleCertificate, NotifyFinalized, K
  <1>19. node.last = v
    BY <1>1, <1>2 DEF Pending
  <1>20. Pending(t, <<w>>, disk.file, lo, v)
    BY <1>11, <1>17, <1>19 DEF Pending
  <1>21. FilesOK(chain, t, <<w>>, disk, lo, v)
    <2>1. Head(<<w>>) = w /\ <<w>> # <<>>
      OBVIOUS
    <2> QED
      BY <1>1, <1>2, <1>11, <1>17, <2>1 DEF FilesOK
  <1>22. AlwaysOK(chain, t, disk)
    BY <1>1, <1>3, <1>11 DEF AlwaysOK, Statuses
  <1>23. WritesOK(chain, <<w>>)
    BY <1>17 DEF WritesOK
  <1>24. CASE node' = t /\ writes' = <<w>> /\ requests' = requests \cup K
    BY <1>4, <1>14, <1>15, <1>20, <1>21, <1>22, <1>23, <1>24, InvIsNext
  <1>25. CASE node' = Panic(t, "no_leader")
    <2>1. "no_leader" \in Statuses \ {"sync", "live"}
      BY DEF Statuses
    <2> QED
      BY <1>4, <1>22, <1>25, <2>1, Stopped
  <1> QED
    BY <1>18, <1>24, <1>25

\* The blocks that a start commits again lock no epoch but those the node knows, or
\* the next one.
LEMMA StartConsensusStep == ASSUME EpochsInv, StartConsensus PROVE EpochsInv'
  <1>1. AlwaysOK(chain, node, disk) /\ node.status = "sync" /\ writes = <<>> /\ Running
    BY InvIs DEF StartConsensus, Idle, Running
  <1>2. PICK lo, v, hi \in ChainEpochs :
           /\ ViewOK(chain, node, requests, lo, v, hi)
           /\ Pending(node, writes, disk.file, lo, v)
           /\ FilesOK(chain, node, writes, disk, lo, v)
    BY <1>1, InvIs
  <1>3. /\ IsNode(node) /\ node.root \in Seqs /\ node.high \in Nat /\ ChainOK(chain)
        /\ StartsOK(chain, node.starts) /\ node.root \in Nat
    BY <1>1, EpochConstants DEF AlwaysOK, Seqs
  <1>4. chain' = chain /\ disk' = disk /\ writes' = writes
    BY DEF StartConsensus
  <1>5. /\ lo \in Nat \ {0} /\ v \in Nat /\ hi = v /\ lo <= v /\ node.vals = lo..v
        /\ DOMAIN node.starts = lo..hi /\ requests = {} /\ Boundary(hi) <= node.root
        /\ chain[node.root] <= node.high /\ lo <= EpochIn(chain, chain[node.root])
        /\ EpochIn(chain, node.high) <= v
    BY <1>1, <1>2 DEF ViewOK
  <1>6. PICK from : from = Max({1, node.root - 2 * ExecutionDelay + 1})
    OBVIOUS
  <1>7. from \in Nat
    <2>1. node.root - 2 * ExecutionDelay + 1 \in Int /\ 1 \in Int
      BY <1>3, EpochConstants
    <2>2. from \in Int /\ from >= 1
      BY <1>6, <2>1, MaxOfTwo
    <2> QED
      BY <2>2
  <1> DEFINE K == LockedBy(from, node.root)
             hi2 == IF hi + 1 \in K THEN hi + 1 ELSE hi
  <1>8. PICK s : s = [node EXCEPT !.status = "live"]
    OBVIOUS
  <1>9. /\ IsNode(s) /\ s.status = "live" /\ s.root = node.root /\ s.high = node.high /\ s.starts = node.starts
        /\ s.vals = node.vals /\ s.last = node.last /\ s.saved = node.saved
    BY <1>3, <1>8 DEF IsNode
  <1>10. PICK t : t = schedule_epoch_start(s, from, node.root)
    OBVIOUS
  <1>11. /\ IsNode(t) /\ t.status = "live" /\ t.root = node.root /\ t.high = node.high
         /\ t.vals = lo..v /\ t.last = node.last /\ t.saved = node.saved
         /\ DOMAIN t.starts = (lo..hi) \cup K
         /\ StartsOK(chain, t.starts)
    <2>1. ChainOK(chain) /\ IsNode(s) /\ StartsOK(chain, s.starts) /\ node.root \in Seqs
      BY <1>3, <1>9
    <2>2. t = schedule_epoch_start(s, from, node.root)
      BY <1>10
    <2>3. /\ IsNode(t) /\ t.status = s.status /\ t.root = s.root /\ t.high = s.high
          /\ t.vals = s.vals /\ t.last = s.last /\ t.saved = s.saved
          /\ DOMAIN t.starts = DOMAIN s.starts \cup LockedBy(from, node.root)
          /\ StartsOK(chain, t.starts)
      BY <1>7, <2>1, <2>2, Schedules
    <2> QED
      BY <1>5, <1>9, <2>3
  <1>12. \A e \in K : e \in lo..v + 1 /\ e \in ChainEpochs /\ Boundary(e) <= node.root
    <2>1. ASSUME NEW e \in K
          PROVE  e \in lo..v + 1 /\ e \in ChainEpochs /\ Boundary(e) <= node.root
      <3>1. e \in LockedBy(Max({1, node.root - 2 * ExecutionDelay + 1}), node.root)
        BY <1>6
      <3> QED
        BY <1>2, <1>3, <3>1, Recommitted
    <2> QED
      BY <2>1
  <1>13. node' = t /\ requests' = K
    BY <1>5, <1>6, <1>8, <1>10 DEF StartConsensus, NotifyFinalized
  <1> HIDE DEF K
  <1>14. hi2 \in ChainEpochs /\ hi2 \in {v, v + 1} /\ (lo..hi) \cup K = lo..hi2 /\ Boundary(hi2) <= node.root
    <2>1. hi \in Nat /\ lo <= hi /\ lo \in Nat /\ K \subseteq lo..hi + 1
      BY <1>5, <1>12
    <2>2. (lo..hi) \cup K = lo..hi2
      BY <2>1, IntervalGrows
    <2> QED
      BY <1>5, <1>12, <2>2
  <1> HIDE DEF hi2
  <1>15. ViewOK(chain, t, K, lo, v, hi2)
    <2>1. K \subseteq lo..hi2
      BY <1>14
    <2> QED
      BY <1>5, <1>11, <1>14, <2>1 DEF ViewOK
  <1>16. node.last = v /\ ~node.saved
    BY <1>1, <1>2 DEF Pending, FilesOK
  <1>17. Pending(t, writes, disk.file, lo, v)
    BY <1>1, <1>11, <1>16 DEF Pending
  <1>18. FilesOK(chain, t, writes, disk, lo, v)
    BY <1>2, <1>11, <1>16 DEF FilesOK
  <1>19. AlwaysOK(chain, t, disk)
    BY <1>1, <1>3, <1>11 DEF AlwaysOK, Statuses
  <1>20. WritesOK(chain, writes)
    BY <1>1 DEF WritesOK
  <1> QED
    BY <1>4, <1>13, <1>14, <1>15, <1>17, <1>18, <1>19, <1>20, InvIsNext

\* A newer root keeps the epochs: the certificate could be checked with them.
LEMMA RequestSyncStep ==
    ASSUME EpochsInv, NEW r \in Rounds, NEW n \in Seqs, RequestSync(r, n)
    PROVE  EpochsInv'
  <1>1. AlwaysOK(chain, node, disk) /\ node.status = "sync" /\ writes = <<>> /\ Running
    BY InvIs DEF RequestSync, Idle, Running
  <1>2. PICK lo, v, hi \in ChainEpochs :
           /\ ViewOK(chain, node, requests, lo, v, hi)
           /\ Pending(node, writes, disk.file, lo, v)
           /\ FilesOK(chain, node, writes, disk, lo, v)
    BY <1>1, InvIs
  <1>3. /\ IsNode(node) /\ node.root \in Seqs /\ node.high \in Nat /\ ChainOK(chain)
        /\ StartsOK(chain, node.starts) /\ r \in Nat /\ node.root \in Nat /\ n \in Nat
    BY <1>1, EpochConstants DEF AlwaysOK, Rounds, Seqs
  <1>4. /\ EpochIn(chain, r) \in node.vals /\ n > node.root + ResyncThreshold /\ chain[n] < r
        /\ node' = [node EXCEPT !.high = r, !.root = n]
        /\ chain' = chain /\ disk' = disk /\ writes' = writes /\ requests' = requests
    BY OfChain DEF RequestSync, CanVerify
  <1>5. /\ lo \in Nat \ {0} /\ v \in Nat /\ hi = v /\ lo <= v /\ node.vals = lo..v
        /\ DOMAIN node.starts = lo..hi /\ requests = {} /\ Boundary(hi) <= node.root
        /\ lo <= EpochIn(chain, chain[node.root])
    BY <1>1, <1>2 DEF ViewOK
  <1>6. /\ IsNode(node') /\ node'.status = "sync" /\ node'.root = n /\ node'.high = r /\ node'.starts = node.starts
        /\ node'.vals = node.vals /\ node'.last = node.last /\ node'.saved = node.saved
    BY <1>1, <1>3, <1>4 DEF IsNode
  <1>7. node.root <= n
    BY <1>3, <1>4, EpochConstants
  <1>8. chain[node.root] \in Nat /\ chain[n] \in Nat /\ chain[node.root] <= chain[n]
    <2>1. chain[node.root] \in Nat /\ chain[n] \in Nat /\ chain[node.root] + (n - node.root) <= chain[n]
      BY <1>3, <1>7, ChainGap
    <2> QED
      BY <1>3, <1>7, <2>1
  <1>9. EpochIn(chain, chain[node.root]) <= EpochIn(chain, chain[n])
    BY <1>3, <1>8, EpochInMonotone
  <1>10. EpochIn(chain, chain[node.root]) \in Nat /\ EpochIn(chain, chain[n]) \in Nat
    BY <1>3, <1>8, EpochInIs
  <1>11. ViewOK(chain, node', requests, lo, v, hi)
    <2>1. lo <= EpochIn(chain, chain[n]) /\ chain[n] <= r /\ EpochIn(chain, r) <= v
      BY <1>3, <1>4, <1>5, <1>8, <1>9, <1>10
    <2>2. Boundary(hi) \in Int
      BY <1>5, BoundaryStep
    <2>3. Boundary(hi) <= n
      BY <1>3, <1>5, <1>7, <2>2
    <2> QED
      BY <1>5, <1>6, <2>1, <2>3 DEF ViewOK
  <1>12. Pending(node', writes, disk.file, lo, v)
    BY <1>1, <1>2, <1>6 DEF Pending
  <1>13. FilesOK(chain, node', writes, disk, lo, v)
    BY <1>1, <1>2, <1>6 DEF FilesOK
  <1>14. AlwaysOK(chain, node', disk)
    BY <1>1, <1>3, <1>6 DEF AlwaysOK
  <1>15. WritesOK(chain, writes)
    BY <1>1 DEF WritesOK
  <1> QED
    BY <1>4, <1>11, <1>12, <1>13, <1>14, <1>15, InvIsNext

\* The validators that arrive are those of the newest epoch or are known already.
LEMMA UpdateValidatorsStep == ASSUME EpochsInv, UpdateValidators PROVE EpochsInv'
  <1>1. AlwaysOK(chain, node, disk) /\ node.status \in {"sync", "live"} /\ writes = <<>> /\ Running
    BY InvIs DEF UpdateValidators, Idle, Running
  <1>2. PICK lo, v, hi \in ChainEpochs :
           /\ ViewOK(chain, node, requests, lo, v, hi)
           /\ Pending(node, writes, disk.file, lo, v)
           /\ FilesOK(chain, node, writes, disk, lo, v)
    BY <1>1, InvIs
  <1>3. requests # {} /\ chain' = chain /\ disk' = disk
    BY DEF UpdateValidators
  <1>4. /\ lo \in Nat \ {0} /\ v \in Nat /\ hi \in {v, v + 1} /\ lo <= v /\ node.vals = lo..v
        /\ DOMAIN node.starts = lo..hi /\ requests \subseteq lo..hi /\ node.status = "live"
    BY <1>1, <1>2, <1>3 DEF ViewOK
  <1>5. PICK e : e = Min(requests)
    OBVIOUS
  <1>6. e \in requests /\ e \in lo..hi
    <2>1. requests \in SUBSET Nat
      BY <1>4
    <2>2. \E x \in requests : \A y \in requests : x <= y
      BY <1>3, <2>1, NatMin
    <2>3. e \in requests
      BY <1>5, <2>2, Zenon DEF Min
    <2> QED
      BY <1>4, <2>3
  <1>7. CASE e < StakingActivation /\ e \notin disk.file
    <2>1. node' = Panic(node, "no_validators")
      BY <1>5, <1>7 DEF UpdateValidators
    <2>2. "no_validators" \in Statuses \ {"sync", "live"}
      BY DEF Statuses
    <2> QED
      BY <1>1, <1>3, <2>1, <2>2, Stopped
  <1>8. CASE ~(e < StakingActivation /\ e \notin disk.file)
    <2>1. /\ node' = [node EXCEPT !.vals = @ \cup {e}]
          /\ writes' = <<WriteValidators(e)>> /\ requests' = requests \ {e}
      BY <1>5, <1>8 DEF UpdateValidators
    <2>2. /\ IsNode(node') /\ node'.status = "live" /\ node'.root = node.root /\ node'.high = node.high
          /\ node'.starts = node.starts /\ node'.vals = (lo..v) \cup {e} /\ node'.last = node.last
          /\ node'.saved = node.saved
      BY <1>1, <1>4, <2>1 DEF IsNode, AlwaysOK
    <2> DEFINE v2 == IF v + 1 \in {e} THEN v + 1 ELSE v
    <2>3. (lo..v) \cup {e} = lo..v2
      <3>1. {e} \subseteq lo..v + 1
        BY <1>4, <1>6
      <3> QED
        BY <1>4, <3>1, IntervalGrows
    <2>4. v2 \in ChainEpochs /\ v2 \in Nat /\ hi \in {v2, v2 + 1} /\ lo <= v2 /\ v <= v2 /\ e \in lo..v2
      BY <1>4, <1>6
    <2>5. v2 = v \/ (v2 = e /\ v2 = v + 1)
      OBVIOUS
    <2> HIDE DEF v2
    <2>6. node.last = v
      BY <1>1, <1>2 DEF Pending
    <2>7. Pending(node', writes', disk.file, lo, v2)
      <3>1. \/ e = v2 /\ node'.last = v2 - 1
            \/ node'.last = v2
        BY <1>4, <2>2, <2>4, <2>5, <2>6
      <3> QED
        BY <1>8, <2>1, <2>4, <3>1 DEF Pending
    <2>8. ViewOK(chain, node', requests', lo, v2, hi)
      <3>1. requests' \subseteq lo..hi
        BY <1>4, <2>1
      <3>2. /\ Boundary(hi) <= node.root /\ chain[node.root] <= node.high
            /\ lo <= EpochIn(chain, chain[node.root]) /\ EpochIn(chain, node.high) <= v
        BY <1>2 DEF ViewOK
      <3>3. EpochIn(chain, node.high) \in Nat
        BY <1>1, EpochInIs DEF AlwaysOK
      <3>4. EpochIn(chain, node.high) <= v2
        BY <1>4, <2>4, <3>2, <3>3
      <3> QED
        BY <1>4, <2>2, <2>3, <2>4, <3>1, <3>2, <3>4 DEF ViewOK
    <2>9. FilesOK(chain, node', writes', disk, lo, v2)
      <3>1. {v - 1, v} \cap (lo..v2) = {v - 1, v} \cap (lo..v)
        BY <1>4, <2>4
      <3>2. v \in lo..v2
        BY <1>4, <2>4
      <3> QED
        BY <1>1, <1>2, <2>2, <2>6, <3>1, <3>2 DEF FilesOK
    <2>10. AlwaysOK(chain, node', disk)
      BY <1>1, <2>2 DEF AlwaysOK, Statuses
    <2>11. WritesOK(chain, writes')
      BY <2>1 DEF WritesOK, WriteValidators
    <2> QED
      BY <1>3, <2>4, <2>7, <2>8, <2>9, <2>10, <2>11, InvIsNext
  <1> QED
    BY <1>7, <1>8

\* What write_validator_set leaves when it accepts the set of epoch e.
LEMMA SetWritten ==
    ASSUME IsNode(node), disk = [forkpoint |-> disk.forkpoint, file |-> disk.file],
           NEW e, node.last \in {0, e - 1}, write_validator_set(e)
    PROVE  /\ IsNode(node') /\ node'.status = node.status /\ node'.root = node.root /\ node'.high = node.high
           /\ node'.starts = node.starts /\ node'.vals = node.vals /\ node'.last = e /\ node'.saved = node.saved
           /\ disk' = [forkpoint |-> disk'.forkpoint, file |-> disk'.file]
           /\ disk'.forkpoint = disk.forkpoint
           /\ e >= StakingActivation => disk'.file = {node.last, e} \ {0}
           /\ ~(e >= StakingActivation) => disk'.file = disk.file
  <1>1. node' = [node EXCEPT !.last = e]
    BY DEF write_validator_set
  <1>2. /\ e >= StakingActivation => disk' = [disk EXCEPT !.file = {node.last, e} \ {0}]
        /\ ~(e >= StakingActivation) => disk' = disk
    BY DEF write_validator_set
  <1>3. /\ IsNode(node') /\ node'.status = node.status /\ node'.root = node.root /\ node'.high = node.high
        /\ node'.starts = node.starts /\ node'.vals = node.vals /\ node'.last = e /\ node'.saved = node.saved
    BY <1>1 DEF IsNode
  <1>4. CASE e >= StakingActivation
    BY <1>2, <1>3, <1>4
  <1>5. CASE ~(e >= StakingActivation)
    BY <1>2, <1>3, <1>5
  <1> QED
    BY <1>4, <1>5

\* Whichever file is written, validators.toml covers the forkpoint before and after.
LEMMA ExecConfigFileStep == ASSUME EpochsInv, ExecConfigFile PROVE EpochsInv'
  <1>1. AlwaysOK(chain, node, disk) /\ Running /\ WritesOK(chain, writes)
    BY InvIs DEF ExecConfigFile, Running
  <1>2. PICK lo, v, hi \in ChainEpochs :
           /\ ViewOK(chain, node, requests, lo, v, hi)
           /\ Pending(node, writes, disk.file, lo, v)
           /\ FilesOK(chain, node, writes, disk, lo, v)
    BY <1>1, InvIs
  <1>3. /\ writes # <<>> /\ writes' = Tail(writes) /\ chain' = chain /\ requests' = requests
        /\ \/ Head(writes).file = "validators" /\ write_validator_set(Head(writes).epoch)
           \/ Head(writes).file = "forkpoint" /\ write_checkpoint(Head(writes))
    BY DEF ExecConfigFile
  <1>4. /\ IsNode(node) /\ node.root \in Seqs /\ node.high \in Nat /\ ChainOK(chain)
        /\ StartsOK(chain, node.starts) /\ disk = [forkpoint |-> disk.forkpoint, file |-> disk.file]
        /\ node.last \in Nat /\ ForkpointOK(chain, disk.forkpoint)
    BY <1>1 DEF AlwaysOK
  <1>5. lo \in Nat \ {0} /\ v \in Nat /\ hi \in {v, v + 1} /\ lo <= v /\ node.vals = lo..v
    BY <1>2 DEF ViewOK
  <1>6. /\ EpochIn(chain, chain[node.root]) \in lo..v
        /\ v - 1 <= EpochIn(chain, chain[node.root])
    BY <1>2, <1>4, ViewFacts
  <1>7. StakingActivation \in Nat
    BY EpochAssumption
  <1>8. ASSUME NEW e \in lo..v, writes = <<WriteValidators(e)>>, e < StakingActivation => e \in disk.file,
               e = v /\ (node.last = v - 1 \/ (node.last = 0 /\ lo = v))
        PROVE  EpochsInv'
    <2>1. Head(writes).file = "validators" /\ Head(writes).epoch = e /\ writes' = <<>>
      BY <1>3, <1>8 DEF WriteValidators
    <2>2. write_validator_set(e)
      BY <1>3, <2>1
    <2>3. node.last \in {0, e - 1}
      BY <1>8
    <2>4. /\ IsNode(node') /\ node'.status = node.status /\ node'.root = node.root /\ node'.high = node.high
          /\ node'.starts = node.starts /\ node'.vals = node.vals /\ node'.last = v /\ node'.saved = node.saved
          /\ disk' = [forkpoint |-> disk'.forkpoint, file |-> disk'.file]
          /\ disk'.forkpoint = disk.forkpoint
          /\ v >= StakingActivation => disk'.file = {node.last, v} \ {0}
          /\ ~(v >= StakingActivation) => disk'.file = disk.file
      BY <1>4, <1>8, <2>2, <2>3, SetWritten
    <2>5. AlwaysOK(chain, node', disk')
      BY <1>1, <1>5, <2>4 DEF AlwaysOK
    <2>6. ViewOK(chain, node', requests', lo, v, hi)
      BY <1>2, <1>3, <2>4 DEF ViewOK
    <2>7. Pending(node', writes', disk'.file, lo, v)
      BY <2>1, <2>4 DEF Pending
    <2>8. {v - 1, v} \cap (lo..v) \subseteq disk'.file
      <3>1. CASE v >= StakingActivation
        BY <1>5, <1>8, <2>4, <3>1
      <3>2. CASE ~(v >= StakingActivation)
        <4>1. v \in disk.file
          BY <1>5, <1>7, <1>8, <3>2
        <4>2. ASSUME v - 1 \in lo..v PROVE v - 1 \in disk.file
          <5>1. node.last = v - 1 /\ node.last # 0
            BY <1>5, <1>8, <4>2
          <5> QED
            BY <1>2, <4>2, <5>1 DEF FilesOK
        <4> QED
          BY <2>4, <3>2, <4>1, <4>2
      <3> QED
        BY <3>1, <3>2
    <2>9. ASSUME node.saved
          PROVE  /\ DOMAIN disk.forkpoint.sets \subseteq {v - 1, v} \cap (lo..v)
                 /\ disk.forkpoint.root = node.root
      <3>1. /\ node.last # 0 /\ DOMAIN disk.forkpoint.sets \subseteq {node.last - 1, node.last} \cap (lo..v)
            /\ disk.forkpoint.root = node.root
        BY <1>2, <2>1, <2>9 DEF FilesOK
      <3>2. \A x \in DOMAIN disk.forkpoint.sets :
               x \in {EpochIn(chain, chain[node.root]), EpochIn(chain, chain[node.root]) + 1}
        BY <1>4, <3>1 DEF ForkpointOK
      <3>3. \A x \in DOMAIN disk.forkpoint.sets : x \in lo..v /\ x >= v - 1
        BY <1>5, <1>6, <3>1, <3>2
      <3> QED
        BY <1>5, <3>1, <3>3
    <2>10. node.status = "sync" => ~node.saved
      BY <1>2 DEF FilesOK
    <2>11. FilesOK(chain, node', writes', disk', lo, v)
      <3>1. v # 0 /\ v \in lo..v
        BY <1>5
      <3> QED
        BY <2>1, <2>4, <2>8, <2>9, <2>10, <3>1 DEF FilesOK
    <2>12. WritesOK(chain, writes')
      BY <2>1 DEF WritesOK
    <2> QED
      BY <1>3, <2>5, <2>6, <2>7, <2>11, <2>12, InvIsNext
  <1>9. ASSUME NEW e \in lo..v, writes = <<WriteValidators(e)>>, node.last = v
        PROVE  EpochsInv'
    <2>1. Head(writes).file = "validators" /\ Head(writes).epoch = e
      BY <1>9 DEF WriteValidators
    <2>2. write_validator_set(e) /\ node.last \notin {0, e - 1}
      BY <1>3, <1>5, <1>9, <2>1
    <2>3. node' = Panic(node, "epoch_not_next") /\ disk' = disk
      BY <2>2 DEF write_validator_set
    <2>4. "epoch_not_next" \in Statuses \ {"sync", "live"}
      BY DEF Statuses
    <2> QED
      BY <1>1, <1>3, <2>3, <2>4, Stopped
  <1>10. ASSUME writes = <<WriteValidators(lo), WriteValidators(v)>>,
                node.status = "sync", node.last = 0, v = lo + 1, {lo, v} \subseteq disk.file
         PROVE  EpochsInv'
    <2>1. Head(writes).file = "validators" /\ Head(writes).epoch = lo /\ writes' = <<WriteValidators(v)>>
      BY <1>3, <1>10 DEF WriteValidators
    <2>2. write_validator_set(lo) /\ node.last \in {0, lo - 1}
      BY <1>3, <1>10, <2>1
    <2>3. /\ IsNode(node') /\ node'.status = node.status /\ node'.root = node.root /\ node'.high = node.high
          /\ node'.starts = node.starts /\ node'.vals = node.vals /\ node'.last = lo /\ node'.saved = node.saved
          /\ disk' = [forkpoint |-> disk'.forkpoint, file |-> disk'.file]
          /\ disk'.forkpoint = disk.forkpoint
          /\ lo >= StakingActivation => disk'.file = {node.last, lo} \ {0}
          /\ ~(lo >= StakingActivation) => disk'.file = disk.file
      BY <1>4, <2>2, SetWritten
    <2>4. AlwaysOK(chain, node', disk')
      BY <1>1, <1>5, <2>3 DEF AlwaysOK
    <2>5. ViewOK(chain, node', requests', lo, v, hi)
      BY <1>2, <1>3, <2>3 DEF ViewOK
    <2>6. lo \in disk'.file /\ (v < StakingActivation => v \in disk'.file)
      BY <1>5, <1>7, <1>10, <2>3
    <2>7. Pending(node', writes', disk'.file, lo, v)
      <3>1. v \in lo..v /\ node'.last = v - 1
        BY <1>5, <1>10, <2>3
      <3> QED
        BY <2>1, <2>6, <3>1 DEF Pending
    <2>8. FilesOK(chain, node', writes', disk', lo, v)
      <3>1. ~node.saved
        BY <1>2, <1>10 DEF FilesOK
      <3>2. lo \in lo..v /\ {lo - 1, lo} \cap (lo..v) \subseteq {lo}
        BY <1>5
      <3> QED
        BY <2>3, <2>6, <3>1, <3>2 DEF FilesOK
    <2>9. WritesOK(chain, writes')
      BY <2>1 DEF WritesOK, WriteValidators
    <2> QED
      BY <1>3, <2>4, <2>5, <2>7, <2>8, <2>9, InvIsNext
  <1>11. ASSUME NEW w, writes = <<w>>, w = WriteForkpoint(w), w.root = node.root,
                node.status = "live", node.last = v, DOMAIN w.sets \subseteq lo..v
         PROVE  EpochsInv'
    <2>1. Head(writes) = w /\ w.file = "forkpoint" /\ writes' = <<>>
      BY <1>3, <1>11 DEF WriteForkpoint
    <2>2. write_checkpoint(w)
      BY <1>3, <2>1
    <2>3. /\ disk' = [disk EXCEPT !.forkpoint = [root |-> w.root, high |-> w.high, sets |-> w.sets]]
          /\ node' = [node EXCEPT !.saved = TRUE]
      BY <2>2 DEF write_checkpoint
    <2>4. /\ IsNode(node') /\ node'.status = node.status /\ node'.root = node.root /\ node'.high = node.high
          /\ node'.starts = node.starts /\ node'.vals = node.vals /\ node'.last = node.last /\ node'.saved = TRUE
      BY <1>4, <2>3 DEF IsNode
    <2>5. /\ disk' = [forkpoint |-> disk'.forkpoint, file |-> disk'.file] /\ disk'.file = disk.file
          /\ disk'.forkpoint.root = w.root /\ disk'.forkpoint.high = w.high /\ disk'.forkpoint.sets = w.sets
      BY <1>4, <2>3
    <2>6. ForkpointOK(chain, w)
      <3>1. 1 \in DOMAIN writes /\ writes[1] = w
        BY <1>11
      <3> QED
        BY <1>1, <2>1, <3>1 DEF WritesOK
    <2>7. ForkpointOK(chain, disk'.forkpoint)
      BY <2>5, <2>6 DEF ForkpointOK
    <2>8. AlwaysOK(chain, node', disk')
      BY <1>1, <2>4, <2>5, <2>7 DEF AlwaysOK
    <2>9. ViewOK(chain, node', requests', lo, v, hi)
      BY <1>2, <1>3, <2>4 DEF ViewOK
    <2>10. Pending(node', writes', disk'.file, lo, v)
      BY <1>11, <2>1, <2>4 DEF Pending
    <2>11. DOMAIN w.sets \subseteq {v - 1, v} \cap (lo..v)
      <3>1. \A x \in DOMAIN w.sets :
               x \in {EpochIn(chain, chain[node.root]), EpochIn(chain, chain[node.root]) + 1}
        BY <1>11, <2>6 DEF ForkpointOK
      <3>2. \A x \in DOMAIN w.sets : x \in lo..v /\ x >= v - 1
        BY <1>5, <1>6, <1>11, <3>1
      <3> QED
        BY <1>5, <3>2
    <2>12. FilesOK(chain, node', writes', disk', lo, v)
      <3>1. v # 0 /\ v \in lo..v /\ {v - 1, v} \cap (lo..v) \subseteq disk.file
        BY <1>2, <1>5, <1>11 DEF FilesOK
      <3> QED
        BY <1>11, <2>4, <2>5, <2>11, <3>1 DEF FilesOK
    <2>13. WritesOK(chain, writes')
      BY <2>1 DEF WritesOK
    <2> QED
      BY <1>3, <2>8, <2>9, <2>10, <2>12, <2>13, InvIsNext
  <1>12. CASE \E e \in lo..v : /\ writes = <<WriteValidators(e)>>
                               /\ \/ e = v /\ node.last = v - 1
                                  \/ e = v /\ node.last = 0 /\ lo = v
                                  \/ node.last = v
                               /\ e < StakingActivation => e \in disk.file
    BY <1>8, <1>9, <1>12
  <1>13. CASE /\ writes = <<WriteForkpoint(Head(writes))>> /\ Head(writes).root = node.root
              /\ node.status = "live" /\ node.last = v
              /\ DOMAIN Head(writes).sets \subseteq lo..v
    <2>1. PICK w : w = Head(writes)
      OBVIOUS
    <2>2. writes = <<WriteForkpoint(w)>>
      BY <1>13, <2>1
    <2>3. w = WriteForkpoint(w)
      BY <2>1, <2>2
    <2> QED
      BY <1>11, <1>13, <2>1, <2>2, <2>3
  <1> QED
    BY <1>2, <1>3, <1>10, <1>12, <1>13 DEF Pending

\* A start from the files on disk.
LEMMA StartStep == ASSUME EpochsInv, Start PROVE EpochsInv'
  <1>1. AlwaysOK(chain, node, disk) /\ chain' = chain /\ disk' = disk
    BY InvIs DEF Start
  <1>2. PICK f : f = disk.forkpoint
    OBVIOUS
  <1>3. ForkpointOK(chain, f) /\ ChainOK(chain)
    BY <1>1, <1>2 DEF AlwaysOK
  <1>4. PICK b : b = EpochIn(chain, chain[f.root])
    OBVIOUS
  <1>5. /\ f.root \in Seqs /\ f.high \in Nat /\ chain[f.root] <= f.high /\ StartsOK(chain, f.sets)
        /\ DOMAIN f.sets \in {{b}, {b, b + 1}}
        /\ \A e \in DOMAIN f.sets : Boundary(e) <= f.root /\ e \in ChainEpochs /\ f.sets[e] = StartIn(chain, e)
        /\ EpochIn(chain, f.high) \in DOMAIN f.sets
    BY <1>3, <1>4 DEF ForkpointOK, StartsOK
  <1>6. b \in Nat \ {0} /\ b \in DOMAIN f.sets /\ b \in ChainEpochs
    <2>1. chain[f.root] \in Nat
      BY <1>3, <1>5 DEF ChainOK
    <2> QED
      BY <1>3, <1>4, <1>5, <2>1, EpochInIs
  <1>7. validate(f)
    <2>1. Cardinality(DOMAIN f.sets) \in 1..2
      <3>1. IsFiniteSet({b}) /\ Cardinality({b}) = 1
        BY FS_Singleton
      <3>2. {b} \cup {b + 1} = {b, b + 1} /\ b + 1 \notin {b}
        BY <1>6
      <3>3. Cardinality({b} \cup {b + 1}) = 1 + 1
        BY <3>1, <3>2, FS_AddElement
      <3>4. Cardinality({b, b + 1}) = 2
        BY <3>2, <3>3
      <3>5. CASE DOMAIN f.sets = {b}
        BY <3>1, <3>5
      <3>6. CASE DOMAIN f.sets = {b, b + 1}
        BY <3>4, <3>6
      <3> QED
        BY <1>5, <3>5, <3>6
    <2>2. ASSUME NEW e1 \in DOMAIN f.sets, NEW e2 \in DOMAIN f.sets, e1 < e2
          PROVE  e2 = e1 + 1 /\ f.sets[e1] < f.sets[e2]
      <3>1. StartIn(chain, e1) < StartIn(chain, e2)
        BY <1>3, <1>5, <2>2, StartsGrow
      <3> QED
        BY <1>5, <1>6, <2>2, <3>1
    <2> QED
      BY <1>5, <2>1, <2>2, OfChain DEF validate
  <1>8. CASE ~(DOMAIN f.sets \subseteq disk.file)
    <2>1. node' = Panic(node, "no_validators")
      BY <1>2, <1>8 DEF Start
    <2>2. "no_validators" \in Statuses \ {"sync", "live"}
      BY DEF Statuses
    <2> QED
      BY <1>1, <2>1, <2>2, Stopped
  <1>9. CASE DOMAIN f.sets \subseteq disk.file
    <2>1. Min(DOMAIN f.sets) = b
      <3>1. \A x \in DOMAIN f.sets : x \in Nat /\ b <= x
        BY <1>5, <1>6
      <3>2. b \in DOMAIN f.sets /\ \A y \in DOMAIN f.sets : b =< y
        BY <1>6, <3>1
      <3>3. \A x \in DOMAIN f.sets : (\A y \in DOMAIN f.sets : x =< y) => x = b
        BY <1>6, <3>1
      <3> QED
        BY <3>2, <3>3 DEF Min
    <2>2. /\ node' = [status |-> "sync", root |-> f.root, high |-> f.high, starts |-> f.sets,
                      vals |-> DOMAIN f.sets, last |-> 0, saved |-> FALSE]
          /\ writes' = IF DOMAIN f.sets = {b} THEN <<WriteValidators(b)>>
                       ELSE <<WriteValidators(b), WriteValidators(b + 1)>>
          /\ requests' = {}
      BY <1>2, <1>7, <1>9, <2>1 DEF Start
    <2>3. /\ IsNode(node') /\ node'.status = "sync" /\ node'.root = f.root /\ node'.high = f.high
          /\ node'.starts = f.sets /\ node'.vals = DOMAIN f.sets /\ node'.last = 0 /\ node'.saved = FALSE
      BY <2>2 DEF IsNode
    <2>4. AlwaysOK(chain, node', disk)
      <3>1. FALSE \in BOOLEAN
        OBVIOUS
      <3>2. node'.saved \in BOOLEAN
        BY <2>3, <3>1, Zenon
      <3>3. IsNode(node') /\ node'.status \in Statuses /\ node'.root \in Seqs /\ node'.high \in Nat
            /\ node'.last \in Nat
        BY <1>5, <2>3 DEF Statuses
      <3>4. StartsOK(chain, node'.starts)
        BY <1>5, <2>3
      <3> QED
        BY <1>1, <3>2, <3>3, <3>4 DEF AlwaysOK
    <2>5. CASE DOMAIN f.sets = {b}
      <3>1. DOMAIN f.sets = b..b
        BY <1>6, <2>5
      <3>2. ViewOK(chain, node', {}, b, b, b)
        <4>1. EpochIn(chain, f.high) <= b /\ b <= EpochIn(chain, chain[f.root]) /\ Boundary(b) <= f.root
          BY <1>4, <1>5, <1>6, <2>5
        <4> QED
          BY <1>5, <1>6, <2>3, <3>1, <4>1 DEF ViewOK
      <3>3. Pending(node', writes', disk.file, b, b)
        <4>1. writes' = <<WriteValidators(b)>> /\ b \in b..b /\ b \in disk.file
          BY <1>6, <1>9, <2>2, <2>5
        <4> QED
          BY <2>3, <4>1 DEF Pending
      <3>4. FilesOK(chain, node', writes', disk, b, b)
        BY <2>3 DEF FilesOK
      <3>5. WritesOK(chain, writes')
        BY <2>2, <2>5 DEF WritesOK, WriteValidators
      <3> QED
        BY <1>1, <1>6, <2>2, <2>4, <3>2, <3>3, <3>4, <3>5, InvIsNext
    <2>6. CASE DOMAIN f.sets # {b}
      <3>1. PICK v : v = b + 1
        OBVIOUS
      <3>2. DOMAIN f.sets = {b, v} /\ v \in ChainEpochs /\ v \in Nat
        BY <1>5, <1>6, <2>6, <3>1
      <3>3. DOMAIN f.sets = b..v
        BY <1>6, <3>1, <3>2
      <3>4. ViewOK(chain, node', {}, b, v, v)
        <4>1. EpochIn(chain, f.high) <= v /\ b <= EpochIn(chain, chain[f.root]) /\ Boundary(v) <= f.root
          BY <1>4, <1>5, <1>6, <3>1, <3>2
        <4>2. b <= v
          BY <1>6, <3>1
        <4> QED
          BY <1>5, <1>6, <2>3, <3>2, <3>3, <4>1, <4>2 DEF ViewOK
      <3>5. Pending(node', writes', disk.file, b, v)
        <4>1. writes' = <<WriteValidators(b), WriteValidators(v)>> /\ {b, v} \subseteq disk.file
          BY <1>9, <2>2, <2>6, <3>1, <3>2
        <4> QED
          BY <2>3, <3>1, <4>1 DEF Pending
      <3>6. FilesOK(chain, node', writes', disk, b, v)
        BY <2>3 DEF FilesOK
      <3>7. WritesOK(chain, writes')
        BY <2>2, <2>6 DEF WritesOK, WriteValidators
      <3> QED
        BY <1>1, <1>6, <2>2, <2>4, <3>2, <3>4, <3>5, <3>6, <3>7, InvIsNext
    <2> QED
      BY <2>5, <2>6
  <1> QED
    BY <1>8, <1>9

\* EpochsInv is an invariant across commits, file writes, crashes and restarts: the
\* epochs and sets a node holds, those it still has to write and those on disk fit
\* together (EpochManager, TrieDB validator-set updater, ConfigFile).
THEOREM EpochsInvariant == Spec => []EpochsInv
  <1>1. ASSUME EpochsInv, [Next]_vars PROVE EpochsInv'
    <2>1. CASE UNCHANGED vars
      <3>1. /\ chain' = chain /\ node' = node /\ requests' = requests /\ writes' = writes /\ disk' = disk
        BY <2>1 DEF vars
      <3>2. Running' <=> Running
        BY <3>1 DEF Running
      <3> QED
        BY <1>1, <3>1, <3>2, InvIs, InvIsNext
    <2>2. CASE Next
      BY <1>1, <2>2, CrashStep, HandleCertificateStep, StartConsensusStep, RequestSyncStep,
         UpdateValidatorsStep, ExecConfigFileStep, StartStep DEF Next
    <2> QED
      BY <1>1, <2>1, <2>2
  <1> QED
    BY <1>1, EpochsInit, PTL DEF Spec

\* schedule_epoch_start and the forkpoint only ever record the start rounds the chain
\* fixes, so insert_epoch_start never meets a conflicting one, however often a
\* boundary block is committed and at whatever instant the node dies.
THEOREM EpochStartsAgreeHolds == Spec => []EpochStartsAgree
  <1>1. EpochsInv => EpochStartsAgree
    BY OfChain DEF EpochsInv, EpochsType, Statuses, EpochStartsAgree, StartsOK, ForkpointOK
  <1> QED
    BY <1>1, EpochsInvariant, PTL

\* checkpoint always has the validators of its base epoch, and each forkpoint that
\* write_checkpoint leaves on disk passes Forkpoint::validate at the next start.
THEOREM CheckpointIsUsableHolds == Spec => []CheckpointIsUsable
  <1>1. EpochsInv => CheckpointIsUsable
    BY DEF EpochsInv, EpochsType, Statuses, CheckpointIsUsable
  <1> QED
    BY <1>1, EpochsInvariant, PTL

\* Whatever instant a live node that has written a checkpoint dies at, between any two
\* writes of ConfigFile, validators.toml has the sets of every epoch that the
\* forkpoint on disk lists.
THEOREM LiveNodeCanRestartHolds == Spec => []LiveNodeCanRestart
  <1>1. EpochsInv => LiveNodeCanRestart
    BY DEF EpochsInv, FilesOK, Running, LiveNodeCanRestart
  <1> QED
    BY <1>1, EpochsInvariant, PTL

=============================================================================
